-------------------------- MODULE VoteLedgerProofs --------------------------
(***************************************************************************)
(* Proofs about VoteLedger, for every set of videos, users, categories and *)
(* handlers: type correctness and NoOvercount; and about VoteLedgerSerial: *)
(* until a user has two requests open at once, the counters match and the  *)
(* commits are the steps of VoteBook.                                      *)
(***************************************************************************)
EXTENDS VoteLedgerSerial, FiniteSetTheorems, TLAPS

Steps == {"idle"} \cup SubmitSteps \cup DeleteSteps

(* A step of p that commits nothing. *)
Local(p) ==
  \/ \E v \in Videos, c \in Categories : UpsertUser(p, v, c)
  \/ EnsureVideo(p) \/ ReadVote(p) \/ UpsertVote(p) \/ IncTotal(p)
  \/ DecOld(p) \/ IncCount(p) \/ Touch(p)
  \/ \E v \in Videos : ReadForDelete(p, v)
  \/ RemoveVote(p) \/ DecTotal(p) \/ DecCount(p)
  \/ RequestFails(p) \/ DeadlockVictim(p)

(* Every step is a commit or local to one transaction. *)
LEMMA NextCases ==
  ASSUME Next
  PROVE  \E p \in Procs : Local(p) \/ Commit(p)
BY DEF Next, Request, Statement, Submit, Delete, Local

(* The fields of p's transaction are well typed. *)
LEMMA Typing ==
  ASSUME TypeOK, NEW p \in Procs
  PROVE  /\ tx[p] \in Transaction
         /\ tx[p].video \in Videos
         /\ tx[p].category \in Filed
         /\ tx[p].seen \in Filed
         /\ tx[p].total \in {-1, 0, 1}
         /\ tx[p].count \in [Categories -> {-1, 0, 1}]
         /\ tx[p].held \in SUBSET Rows
         /\ UserOf[p] \in Users
         /\ pc[p] \in Steps
         /\ vote[tx[p].video][UserOf[p]] \in Filed
BY UserOfAssumption DEF TypeOK, Transaction, Steps

(* The four row constructors build lockable rows. *)
LEMMA RowTypes ==
  /\ \A u \in Users : UserRow(u) \in Rows
  /\ \A v \in Videos : VideoRow(v) \in Rows
  /\ \A v \in Videos, u \in Users : VoteRow(v, u) \in Rows
  /\ \A v \in Videos, c \in Categories : CategoryRow(v, c) \in Rows
BY DEF Rows

(* An empty transaction is well typed and holds nothing. *)
LEMMA FreshType ==
  ASSUME NEW v \in Videos
  PROVE  /\ NoTransaction(v) \in Transaction
         /\ NoTransaction(v).held = {}
BY DEF NoTransaction, Transaction, Filed

(* Locking one more row keeps a transaction well typed. *)
LEMMA HoldingType ==
  ASSUME TypeOK, NEW p \in Procs, NEW row \in Rows
  PROVE  /\ Holding(p, row) \in Transaction
         /\ Holding(p, row).held = tx[p].held \cup {row}
BY Typing DEF Holding, Transaction

(* Updating fields of a well-typed transaction keeps it well typed. *)
LEMMA UpdateType ==
  ASSUME NEW r \in Transaction
  PROVE  /\ \A s \in Filed : /\ [r EXCEPT !.seen = s] \in Transaction
                            /\ [r EXCEPT !.seen = s].held = r.held
         /\ \A n \in {-1, 0, 1} : /\ [r EXCEPT !.total = n] \in Transaction
                                 /\ [r EXCEPT !.total = n].held = r.held
         /\ \A c \in Categories, n \in {-1, 0, 1} :
              /\ [r EXCEPT !.count[c] = n] \in Transaction
              /\ [r EXCEPT !.count[c] = n].held = r.held
BY DEF Transaction

(* Every action but Commit only advances p's own transaction, and adds to  *)
(* its locks a row nobody else holds.                                      *)
LEMMA LocalStep ==
  ASSUME TypeOK, Footprints, NEW p \in Procs, Local(p)
  PROVE  \E t \in Transaction, s \in Steps :
           /\ Advance(p, t, s)
           /\ \A row \in t.held : row \in tx[p].held \/ Free(p, row)
<1> USE Typing DEF Steps
<1> DEFINE Goal == \E t \in Transaction, s \in Steps :
                     /\ Advance(p, t, s)
                     /\ \A row \in t.held : row \in tx[p].held \/ Free(p, row)
<1>a. ASSUME NEW row \in Rows, Free(p, row), NEW s \in Steps,
             Advance(p, Holding(p, row), s)
      PROVE  Goal
  <2>1. Holding(p, row) \in Transaction
    BY HoldingType
  <2>2. Holding(p, row).held = tx[p].held \cup {row}
    BY HoldingType
  <2> QED
    BY <1>a, <2>1, <2>2
<1>b. ASSUME NEW s \in Steps, Advance(p, tx[p], s)
      PROVE  Goal
  BY <1>b
<1>1. CASE \E v \in Videos, c \in Categories : UpsertUser(p, v, c)
  <2>1. PICK v \in Videos, c \in Categories : UpsertUser(p, v, c)
    BY <1>1
  <2> DEFINE t == [NoTransaction(v) EXCEPT !.category = c,
                                           !.held = {UserRow(UserOf[p])}]
  <2>2. t \in Transaction /\ t.held = {UserRow(UserOf[p])}
    <3>1. NoTransaction(v) \in Transaction /\ c \in Filed
      BY FreshType DEF Filed
    <3> DEFINE H == {UserRow(UserOf[p])}
    <3>2. H \in SUBSET Rows
      BY RowTypes
    <3> HIDE DEF H
    <3>3. /\ [NoTransaction(v) EXCEPT !.category = c, !.held = H] \in Transaction
          /\ [NoTransaction(v) EXCEPT !.category = c, !.held = H].held = H
      BY <3>1, <3>2 DEF NoTransaction, Transaction
    <3> QED
      BY <3>3 DEF H
  <2> HIDE DEF t
  <2>3. Free(p, UserRow(UserOf[p])) /\ Advance(p, t, "ensureVideo")
    BY <2>1 DEF UpsertUser, t
  <2> QED
    BY <2>2, <2>3 DEF SubmitSteps
<1>2. CASE EnsureVideo(p)
  <2>1. CASE tx[p].video \in videos
    BY <1>2, <1>b, <2>1 DEF EnsureVideo, SubmitSteps
  <2>2. CASE tx[p].video \notin videos
    BY <1>2, <1>a, <2>2, RowTypes DEF EnsureVideo, SubmitSteps
  <2> QED BY <2>1, <2>2
<1>3. CASE ReadVote(p)
  <2> DEFINE t == [tx[p] EXCEPT !.seen = vote[tx[p].video][UserOf[p]]]
  <2>1. t \in Transaction /\ t.held = tx[p].held
    BY DEF Transaction
  <2> HIDE DEF t
  <2>2. Advance(p, t, "upsertVote")
    BY <1>3 DEF ReadVote, t
  <2> QED
    BY <2>1, <2>2 DEF SubmitSteps
<1>4. CASE UpsertVote(p)
  BY <1>4, <1>a, RowTypes DEF UpsertVote, SubmitSteps
<1>5. CASE IncTotal(p)
  <2> DEFINE row == VideoRow(tx[p].video)
             t == [Holding(p, row) EXCEPT !.total = 1]
  <2>1. t \in Transaction /\ t.held = tx[p].held \cup {row}
    <3>1. row \in Rows
      BY RowTypes
    <3>2. Holding(p, row) \in Transaction
      BY <3>1, HoldingType
    <3>3. Holding(p, row).held = tx[p].held \cup {row}
      BY <3>1, HoldingType
    <3> HIDE DEF row
    <3> QED
      BY <3>2, <3>3, UpdateType
  <2>2. Free(p, row) /\ Advance(p, t, "incCount")
    BY <1>5 DEF IncTotal
  <2> HIDE DEF t, row
  <2> QED
    BY <2>1, <2>2 DEF SubmitSteps
<1>d. ASSUME NEW s \in Steps, DecrementSeen(p, s), tx[p].seen \in Categories
      PROVE  Goal
  <2>1. CASE Advance(p, tx[p], s)
    BY <1>b, <2>1
  <2> DEFINE row == CategoryRow(tx[p].video, tx[p].seen)
             t == [Holding(p, row) EXCEPT !.count[tx[p].seen] = -1]
  <2>2. CASE Free(p, row) /\ Advance(p, t, s)
    <3>1. t \in Transaction /\ t.held = tx[p].held \cup {row}
      <4>1. row \in Rows
        BY <1>d, RowTypes
      <4>2. Holding(p, row) \in Transaction
        BY <4>1, HoldingType
      <4>3. Holding(p, row).held = tx[p].held \cup {row}
        BY <4>1, HoldingType
      <4> HIDE DEF row
      <4> QED
        BY <1>d, <4>2, <4>3, UpdateType
    <3> HIDE DEF t, row
    <3> QED
      BY <2>2, <3>1
  <2> QED
    BY <1>d, <2>1, <2>2 DEF DecrementSeen
<1>6. CASE DecOld(p)
  BY <1>6, <1>d DEF DecOld, SubmitSteps, Footprints, SubmitFootprint
<1>7. CASE IncCount(p)
  <2> DEFINE c == tx[p].category
             row == CategoryRow(tx[p].video, c)
             t == [Holding(p, row) EXCEPT !.count[c] = 1]
  <2>1. c \in Categories
    BY <1>7 DEF IncCount, SubmitSteps, Footprints, SubmitFootprint
  <2>2. t \in Transaction /\ t.held = tx[p].held \cup {row}
    <3>1. row \in Rows
      BY <2>1, RowTypes
    <3>2. Holding(p, row) \in Transaction
      BY <3>1, HoldingType
    <3>3. Holding(p, row).held = tx[p].held \cup {row}
      BY <3>1, HoldingType
    <3> HIDE DEF row
    <3> QED
      BY <2>1, <3>2, <3>3, UpdateType
  <2>3. Free(p, row) /\ Advance(p, t, "touch")
    BY <1>7 DEF IncCount
  <2> HIDE DEF t, row
  <2> QED
    BY <2>2, <2>3 DEF SubmitSteps
<1>8. CASE Touch(p)
  BY <1>8, <1>a, RowTypes DEF Touch, SubmitSteps
<1>9. CASE \E v \in Videos : ReadForDelete(p, v)
  <2>1. PICK v \in Videos : ReadForDelete(p, v)
    BY <1>9
  <2> DEFINE t == [NoTransaction(v) EXCEPT !.seen = vote[v][UserOf[p]]]
  <2>2. t \in Transaction /\ t.held = {}
    <3>1. NoTransaction(v) \in Transaction /\ NoTransaction(v).held = {}
      BY FreshType
    <3>2. vote[v][UserOf[p]] \in Filed
      BY DEF TypeOK
    <3> QED
      BY <3>1, <3>2, UpdateType
  <2> HIDE DEF t
  <2>3. Advance(p, t, "removeVote")
    BY <2>1 DEF ReadForDelete, t
  <2> QED
    BY <2>2, <2>3 DEF DeleteSteps
<1>10. CASE RemoveVote(p)
  BY <1>10, <1>a, <1>b, RowTypes DEF RemoveVote, DeleteSteps
<1>11. CASE DecTotal(p)
  <2> DEFINE row == VideoRow(tx[p].video)
             t == [Holding(p, row) EXCEPT !.total = -1]
  <2>1. t \in Transaction /\ t.held = tx[p].held \cup {row}
    <3>1. row \in Rows
      BY RowTypes
    <3>2. Holding(p, row) \in Transaction
      BY <3>1, HoldingType
    <3>3. Holding(p, row).held = tx[p].held \cup {row}
      BY <3>1, HoldingType
    <3> HIDE DEF row
    <3> QED
      BY <3>2, <3>3, UpdateType
  <2>2. CASE Free(p, row) /\ Advance(p, t, "decCount")
    <3> HIDE DEF t, row
    <3> QED
      BY <2>1, <2>2 DEF DeleteSteps
  <2>3. CASE Advance(p, tx[p], "decCount")
    BY <1>b, <2>3 DEF DeleteSteps
  <2> QED
    BY <1>11, <2>2, <2>3 DEF DecTotal
<1>12. CASE DecCount(p)
  BY <1>12, <1>d DEF DecCount, DeleteSteps, Footprints, DeleteFootprint
<1>13. CASE RequestFails(p) \/ DeadlockVictim(p)
  BY <1>13, FreshType DEF RequestFails, DeadlockVictim, Rollback
<1>14. QED
  BY <1>1, <1>2, <1>3, <1>4, <1>5, <1>6, <1>7, <1>8, <1>9, <1>10, <1>11, <1>12,
     <1>13 DEF Local

(* A local step leaves the tables and the other transactions as they are. *)
LEMMA LocalFrame ==
  ASSUME TypeOK, Footprints, NEW p \in Procs, Local(p)
  PROVE  /\ UNCHANGED tables
         /\ TypeOK'
         /\ LockExclusion => LockExclusion'
         /\ \A q \in Procs \ {p} : pc'[q] = pc[q] /\ tx'[q] = tx[q]
<1>1. PICK t \in Transaction, s \in Steps :
        /\ Advance(p, t, s)
        /\ \A row \in t.held : row \in tx[p].held \/ Free(p, row)
  BY LocalStep
<1>2. /\ UNCHANGED tables
      /\ pc' = [pc EXCEPT ![p] = s]
      /\ tx' = [tx EXCEPT ![p] = t]
  BY <1>1 DEF Advance
<1>3. TypeOK'
  BY <1>2 DEF TypeOK, Steps, tables
<1>4. \A q \in Procs \ {p} : pc'[q] = pc[q] /\ tx'[q] = tx[q]
  BY <1>2 DEF TypeOK
<1>5. tx'[p] = t
  BY <1>2 DEF TypeOK
<1>6. ASSUME LockExclusion
      PROVE  LockExclusion'
  BY <1>1, <1>4, <1>5, <1>6 DEF LockExclusion, Free
<1>7. QED
  BY <1>2, <1>3, <1>4, <1>6

(* p goes from statement s1 to s2 with these values read and written, and  *)
(* these rows locked on top of those it held.                              *)
Changes(p, s1, s2, seen, written, counts, rows) ==
  /\ pc[p] = s1 /\ pc'[p] = s2
  /\ tx'[p].video = tx[p].video /\ tx'[p].category = tx[p].category
  /\ tx'[p].seen = seen /\ tx'[p].total = written /\ tx'[p].count = counts
  /\ tx'[p].held = tx[p].held \cup rows

(* p goes from s1 to s2 and only locks these rows. *)
Locks(p, s1, s2, rows) ==
  Changes(p, s1, s2, tx[p].seen, tx[p].total, tx[p].count, rows)

(* p takes one from the category it saw, unless the count is 0 already. *)
Decrements(p, s1, s2) ==
  LET v == tx[p].video
      c == tx[p].seen
  IN \/ count[v][c] = 0 /\ Locks(p, s1, s2, {})
     \/ /\ count[v][c] > 0
        /\ Changes(p, s1, s2, c, tx[p].total, [tx[p].count EXCEPT ![c] = -1],
                   {CategoryRow(v, c)})

(* p opens a transaction at statement s. *)
Opens(p, s, v, c, seen, rows) ==
  /\ pc[p] = "idle" /\ pc'[p] = s
  /\ tx'[p].video = v /\ tx'[p].category = c /\ tx'[p].seen = seen
  /\ tx'[p].total = 0 /\ tx'[p].count = [k \in Categories |-> 0]
  /\ tx'[p].held = rows

(* What each step that commits nothing makes of p's own transaction. *)
LEMMA LocalShape ==
  ASSUME TypeOK, Footprints, NEW p \in Procs
  PROVE  /\ (\E v \in Videos, c \in Categories : UpsertUser(p, v, c))
              => \E v \in Videos, c \in Categories :
                   Opens(p, "ensureVideo", v, c, NoVote, {UserRow(UserOf[p])})
         /\ EnsureVideo(p) => \E rows : Locks(p, "ensureVideo", "readVote", rows)
         /\ ReadVote(p) => Changes(p, "readVote", "upsertVote",
                                   vote[tx[p].video][UserOf[p]],
                                   tx[p].total, tx[p].count, {})
         /\ UpsertVote(p)
              => \E s : /\ Locks(p, "upsertVote", s, {VoteRow(tx[p].video, UserOf[p])})
                        /\ \/ s = "incTotal" /\ tx[p].seen = NoVote
                           \/ s = "incCount" /\ tx[p].seen \in Categories
                           \/ s = "decOld" /\ tx[p].seen \in Categories
         /\ IncTotal(p) => Changes(p, "incTotal", "incCount", tx[p].seen, 1,
                                   tx[p].count, {VideoRow(tx[p].video)})
         /\ DecOld(p) => Decrements(p, "decOld", "incCount")
         /\ IncCount(p) => Changes(p, "incCount", "touch", tx[p].seen, tx[p].total,
                                   [tx[p].count EXCEPT ![tx[p].category] = 1],
                                   {CategoryRow(tx[p].video, tx[p].category)})
         /\ Touch(p) => Locks(p, "touch", "commitSubmit", {VideoRow(tx[p].video)})
         /\ (\E v \in Videos : ReadForDelete(p, v))
              => \E v \in Videos :
                   /\ vote[v][UserOf[p]] \in Categories
                   /\ Opens(p, "removeVote", v, NoVote, vote[v][UserOf[p]], {})
         /\ RemoveVote(p)
              => \/ /\ vote[tx[p].video][UserOf[p]] = NoVote
                    /\ Locks(p, "removeVote", "decTotal", {})
                 \/ /\ vote[tx[p].video][UserOf[p]] # NoVote
                    /\ Locks(p, "removeVote", "decTotal",
                             {VoteRow(tx[p].video, UserOf[p])})
         /\ DecTotal(p)
              => \/ /\ total[tx[p].video] = 0
                    /\ Locks(p, "decTotal", "decCount", {})
                 \/ /\ total[tx[p].video] > 0
                    /\ Changes(p, "decTotal", "decCount", tx[p].seen, -1,
                               tx[p].count, {VideoRow(tx[p].video)})
         /\ DecCount(p) => Decrements(p, "decCount", "commitDelete")
         /\ RequestFails(p) \/ DeadlockVictim(p)
              => tx'[p] = NoTransaction(tx[p].video) /\ pc'[p] = "idle"
<1> USE Typing, NoVoteAssumption
<1>s. ASSUME NEW t, NEW s, Advance(p, t, s)
      PROVE  tx'[p] = t /\ pc'[p] = s
  BY <1>s DEF Advance, TypeOK
<1>h. ASSUME NEW row \in Rows
      PROVE  /\ Holding(p, row).video = tx[p].video
             /\ Holding(p, row).category = tx[p].category
             /\ Holding(p, row).seen = tx[p].seen
             /\ Holding(p, row).total = tx[p].total
             /\ Holding(p, row).count = tx[p].count
             /\ Holding(p, row).held = tx[p].held \cup {row}
             /\ Holding(p, row) \in Transaction
  BY HoldingType DEF Holding, Transaction
<1>n. ASSUME NEW s1, NEW s2, pc[p] = s1, Advance(p, tx[p], s2)
      PROVE  Locks(p, s1, s2, {})
  BY <1>s, <1>n DEF Locks, Changes
<1>l. ASSUME NEW s1, NEW s2, NEW row \in Rows, pc[p] = s1, Advance(p, Holding(p, row), s2)
      PROVE  Locks(p, s1, s2, {row})
  BY <1>s, <1>h, <1>l DEF Locks, Changes
<1>1. ASSUME NEW v \in Videos, NEW c \in Categories, UpsertUser(p, v, c)
      PROVE  Opens(p, "ensureVideo", v, c, NoVote, {UserRow(UserOf[p])})
  <2> DEFINE t == [NoTransaction(v) EXCEPT !.category = c,
                                           !.held = {UserRow(UserOf[p])}]
  <2>1. /\ t.video = v /\ t.category = c /\ t.total = 0 /\ t.seen = NoVote
        /\ t.held = {UserRow(UserOf[p])}
        /\ t.count = [k \in Categories |-> 0]
    BY DEF NoTransaction
  <2>2. tx'[p] = t /\ pc'[p] = "ensureVideo" /\ pc[p] = "idle"
    BY <1>s, <1>1 DEF UpsertUser, Begin
  <2> HIDE DEF t
  <2> QED
    BY <2>1, <2>2 DEF Opens
<1>2. ASSUME EnsureVideo(p)
      PROVE  \E rows : Locks(p, "ensureVideo", "readVote", rows)
  BY <1>2, <1>n, <1>l, RowTypes DEF EnsureVideo
<1>3. ASSUME ReadVote(p)
      PROVE  Changes(p, "readVote", "upsertVote", vote[tx[p].video][UserOf[p]],
                     tx[p].total, tx[p].count, {})
  <2> DEFINE t == [tx[p] EXCEPT !.seen = vote[tx[p].video][UserOf[p]]]
  <2>1. tx'[p] = t /\ pc'[p] = "upsertVote" /\ pc[p] = "readVote"
    BY <1>s, <1>3 DEF ReadVote
  <2>2. /\ t.video = tx[p].video /\ t.category = tx[p].category
        /\ t.seen = vote[tx[p].video][UserOf[p]] /\ t.total = tx[p].total
        /\ t.count = tx[p].count /\ t.held = tx[p].held
    BY DEF Transaction
  <2> HIDE DEF t
  <2> QED
    BY <2>1, <2>2 DEF Changes
<1>4. ASSUME UpsertVote(p)
      PROVE  \E s : /\ Locks(p, "upsertVote", s, {VoteRow(tx[p].video, UserOf[p])})
                    /\ \/ s = "incTotal" /\ tx[p].seen = NoVote
                       \/ s = "incCount" /\ tx[p].seen \in Categories
                       \/ s = "decOld" /\ tx[p].seen \in Categories
  <2> DEFINE row == VoteRow(tx[p].video, UserOf[p])
             s == CASE tx[p].seen = NoVote         -> "incTotal"
                    [] tx[p].seen = tx[p].category -> "incCount"
                    [] OTHER                       -> "decOld"
  <2>1. pc[p] = "upsertVote" /\ Advance(p, Holding(p, row), s) /\ row \in Rows
    BY <1>4, RowTypes DEF UpsertVote
  <2>2. \/ s = "incTotal" /\ tx[p].seen = NoVote
        \/ s = "incCount" /\ tx[p].seen \in Categories
        \/ s = "decOld" /\ tx[p].seen \in Categories
    <3>0. tx[p].category # NoVote
      BY <2>1 DEF Footprints, SubmitFootprint, SubmitSteps
    <3>1. CASE tx[p].seen = NoVote
      BY <3>0, <3>1
    <3>2. CASE tx[p].seen # NoVote /\ tx[p].seen = tx[p].category
      BY <3>2 DEF Filed
    <3>3. CASE tx[p].seen # NoVote /\ tx[p].seen # tx[p].category
      BY <3>3 DEF Filed
    <3> QED
      BY <3>1, <3>2, <3>3
  <2> HIDE DEF s, row
  <2>3. Locks(p, "upsertVote", s, {row})
    BY <1>l, <2>1
  <2> QED
    BY <2>2, <2>3 DEF row
<1>5. ASSUME IncTotal(p)
      PROVE  Changes(p, "incTotal", "incCount", tx[p].seen, 1, tx[p].count,
                     {VideoRow(tx[p].video)})
  <2> DEFINE row == VideoRow(tx[p].video)
             t == [Holding(p, row) EXCEPT !.total = 1]
  <2>1. tx'[p] = t /\ pc'[p] = "incCount" /\ pc[p] = "incTotal" /\ row \in Rows
    BY <1>s, <1>5, RowTypes DEF IncTotal
  <2> HIDE DEF row
  <2>2. /\ t.video = tx[p].video /\ t.category = tx[p].category
        /\ t.seen = tx[p].seen /\ t.total = 1
        /\ t.count = tx[p].count /\ t.held = tx[p].held \cup {row}
    BY <1>h, <2>1 DEF Transaction
  <2> HIDE DEF t
  <2> QED
    BY <2>1, <2>2 DEF Changes, row
<1>d. ASSUME NEW s1, NEW s2, pc[p] = s1, DecrementSeen(p, s2), tx[p].seen \in Categories
      PROVE  Decrements(p, s1, s2)
  <2> DEFINE row == CategoryRow(tx[p].video, tx[p].seen)
             t == [Holding(p, row) EXCEPT !.count[tx[p].seen] = -1]
  <2>1. CASE count[tx[p].video][tx[p].seen] = 0 /\ Advance(p, tx[p], s2)
    BY <1>d, <1>n, <2>1 DEF Decrements
  <2>2. CASE count[tx[p].video][tx[p].seen] > 0 /\ Advance(p, t, s2)
    <3>1. tx'[p] = t /\ pc'[p] = s2 /\ row \in Rows
      BY <1>d, <1>s, <2>2, RowTypes
    <3> HIDE DEF row
    <3>2. /\ t.video = tx[p].video /\ t.category = tx[p].category
          /\ t.seen = tx[p].seen /\ t.total = tx[p].total
          /\ t.count = [tx[p].count EXCEPT ![tx[p].seen] = -1]
          /\ t.held = tx[p].held \cup {row}
      BY <1>h, <3>1 DEF Transaction
    <3> HIDE DEF t
    <3> QED
      BY <1>d, <2>2, <3>1, <3>2 DEF Decrements, Changes, row
  <2> QED
    BY <1>d, <2>1, <2>2 DEF DecrementSeen
<1>6. ASSUME DecOld(p)
      PROVE  Decrements(p, "decOld", "incCount")
  BY <1>6, <1>d DEF DecOld, SubmitSteps, Footprints, SubmitFootprint
<1>7. ASSUME IncCount(p)
      PROVE  Changes(p, "incCount", "touch", tx[p].seen, tx[p].total,
                     [tx[p].count EXCEPT ![tx[p].category] = 1],
                     {CategoryRow(tx[p].video, tx[p].category)})
  <2> DEFINE c == tx[p].category
             row == CategoryRow(tx[p].video, c)
             t == [Holding(p, row) EXCEPT !.count[c] = 1]
  <2>1. c \in Categories
    BY <1>7 DEF IncCount, SubmitSteps, Footprints, SubmitFootprint
  <2>2. tx'[p] = t /\ pc'[p] = "touch" /\ pc[p] = "incCount" /\ row \in Rows
    BY <1>s, <1>7, <2>1, RowTypes DEF IncCount
  <2> HIDE DEF row
  <2>3. /\ t.video = tx[p].video /\ t.category = tx[p].category
        /\ t.seen = tx[p].seen /\ t.total = tx[p].total
        /\ t.count = [tx[p].count EXCEPT ![tx[p].category] = 1]
        /\ t.held = tx[p].held \cup {row}
    BY <1>h, <2>2 DEF Transaction
  <2> HIDE DEF t
  <2> QED
    BY <2>2, <2>3 DEF Changes, row
<1>8. ASSUME Touch(p)
      PROVE  Locks(p, "touch", "commitSubmit", {VideoRow(tx[p].video)})
  BY <1>8, <1>l, RowTypes DEF Touch
<1>9. ASSUME NEW v \in Videos, ReadForDelete(p, v)
      PROVE  /\ vote[v][UserOf[p]] \in Categories
             /\ Opens(p, "removeVote", v, NoVote, vote[v][UserOf[p]], {})
  <2> DEFINE t == [NoTransaction(v) EXCEPT !.seen = vote[v][UserOf[p]]]
  <2>1. /\ t.video = v /\ t.category = NoVote /\ t.total = 0 /\ t.held = {}
        /\ t.seen = vote[v][UserOf[p]]
        /\ t.count = [k \in Categories |-> 0]
    BY DEF NoTransaction
  <2>2. tx'[p] = t /\ pc'[p] = "removeVote" /\ pc[p] = "idle"
    BY <1>s, <1>9 DEF ReadForDelete, Begin
  <2>3. vote[v][UserOf[p]] \in Categories
    BY <1>9 DEF ReadForDelete, TypeOK, Filed
  <2> HIDE DEF t
  <2> QED
    BY <2>1, <2>2, <2>3 DEF Opens
<1>10. ASSUME RemoveVote(p)
       PROVE  \/ /\ vote[tx[p].video][UserOf[p]] = NoVote
                 /\ Locks(p, "removeVote", "decTotal", {})
              \/ /\ vote[tx[p].video][UserOf[p]] # NoVote
                 /\ Locks(p, "removeVote", "decTotal",
                          {VoteRow(tx[p].video, UserOf[p])})
  BY <1>10, <1>n, <1>l, RowTypes DEF RemoveVote
<1>11. ASSUME DecTotal(p)
       PROVE  \/ /\ total[tx[p].video] = 0
                 /\ Locks(p, "decTotal", "decCount", {})
              \/ /\ total[tx[p].video] > 0
                 /\ Changes(p, "decTotal", "decCount", tx[p].seen, -1,
                            tx[p].count, {VideoRow(tx[p].video)})
  <2> DEFINE row == VideoRow(tx[p].video)
             t == [Holding(p, row) EXCEPT !.total = -1]
  <2>0. pc[p] = "decTotal" /\ row \in Rows
    BY <1>11, RowTypes DEF DecTotal
  <2>1. CASE Advance(p, tx[p], "decCount") /\ total[tx[p].video] = 0
    BY <1>n, <2>0, <2>1
  <2>2. CASE Advance(p, t, "decCount") /\ total[tx[p].video] > 0
    <3>1. tx'[p] = t /\ pc'[p] = "decCount"
      BY <1>s, <2>2
    <3> HIDE DEF row
    <3>2. /\ t.video = tx[p].video /\ t.category = tx[p].category
          /\ t.seen = tx[p].seen /\ t.total = -1
          /\ t.count = tx[p].count /\ t.held = tx[p].held \cup {row}
      BY <1>h, <2>0 DEF Transaction
    <3> HIDE DEF t
    <3> QED
      BY <2>0, <2>2, <3>1, <3>2 DEF Changes, row
  <2> QED
    BY <1>11, <2>1, <2>2 DEF DecTotal
<1>12. ASSUME DecCount(p)
       PROVE  Decrements(p, "decCount", "commitDelete")
  BY <1>12, <1>d DEF DecCount, DeleteSteps, Footprints, DeleteFootprint
<1>13. ASSUME RequestFails(p) \/ DeadlockVictim(p)
       PROVE  tx'[p] = NoTransaction(tx[p].video) /\ pc'[p] = "idle"
  BY <1>s, <1>13 DEF RequestFails, DeadlockVictim, Rollback
<1> HIDE DEF Opens, Locks, Changes, Decrements
<1> QED
  BY <1>1, <1>2, <1>3, <1>4, <1>5, <1>6, <1>7, <1>8, <1>9, <1>10, <1>11, <1>12, <1>13

(* A row of votes is no row of another table. *)
LEMMA RowsDiffer ==
  ASSUME NEW v, NEW u, NEW w, NEW c
  PROVE  /\ VoteRow(v, u) # VideoRow(w)
         /\ VoteRow(v, u) # CategoryRow(w, c)
BY DEF VoteRow, VideoRow, CategoryRow

(* The footprints of p after a step of its own that commits nothing. *)
LEMMA LocalFootprint ==
  ASSUME TypeOK, Footprints, LockExclusion, NEW p \in Procs, Local(p)
  PROVE  (SubmitFootprint(p) /\ DeleteFootprint(p) /\ CounterFootprint(p))'
<1> DEFINE Goal == (SubmitFootprint(p) /\ DeleteFootprint(p) /\ CounterFootprint(p))'
<1> USE Typing, NoVoteAssumption
    DEF SubmitFootprint, DeleteFootprint, CounterFootprint, SubmitSteps, DeleteSteps, tables
<1>0. /\ UNCHANGED tables
      /\ SubmitFootprint(p) /\ DeleteFootprint(p) /\ CounterFootprint(p)
  BY LocalFrame DEF Footprints
<1>d. ASSUME NEW s1, NEW s2, Decrements(p, s1, s2), tx[p].seen \in Categories,
             <<s1, s2>> \in {<<"decOld", "incCount">>, <<"decCount", "commitDelete">>}
      PROVE  Goal
  <2>1. CASE Locks(p, s1, s2, {})
    BY <1>0, <1>d, <2>1 DEF Locks, Changes
  <2>2. CASE /\ count[tx[p].video][tx[p].seen] > 0
             /\ Changes(p, s1, s2, tx[p].seen, tx[p].total,
                        [tx[p].count EXCEPT ![tx[p].seen] = -1],
                        {CategoryRow(tx[p].video, tx[p].seen)})
    BY <1>0, <1>d, <2>2, RowsDiffer DEF Changes
  <2> QED
    BY <1>d, <2>1, <2>2 DEF Decrements
<1>1. CASE \E v \in Videos, c \in Categories : UpsertUser(p, v, c)
  <2>1. PICK v \in Videos, c \in Categories :
          Opens(p, "ensureVideo", v, c, NoVote, {UserRow(UserOf[p])})
    BY <1>1, LocalShape
  <2> QED
    BY <2>1 DEF Opens
<1>2. CASE EnsureVideo(p)
  <2>1. PICK rows : Locks(p, "ensureVideo", "readVote", rows)
    BY <1>2, LocalShape
  <2> QED
    BY <1>0, <2>1 DEF Locks, Changes
<1>3. CASE ReadVote(p)
  <2>1. Changes(p, "readVote", "upsertVote", vote[tx[p].video][UserOf[p]],
                tx[p].total, tx[p].count, {})
    BY <1>3, LocalShape
  <2> QED
    BY <1>0, <2>1 DEF Changes
<1>4. CASE UpsertVote(p)
  <2>1. PICK s : /\ Locks(p, "upsertVote", s, {VoteRow(tx[p].video, UserOf[p])})
                 /\ \/ s = "incTotal" /\ tx[p].seen = NoVote
                    \/ s = "incCount" /\ tx[p].seen \in Categories
                    \/ s = "decOld" /\ tx[p].seen \in Categories
    BY <1>4, LocalShape
  <2> QED
    BY <1>0, <2>1 DEF Locks, Changes
<1>5. CASE IncTotal(p)
  <2>1. Changes(p, "incTotal", "incCount", tx[p].seen, 1, tx[p].count,
                {VideoRow(tx[p].video)})
    BY <1>5, LocalShape
  <2> QED
    BY <1>0, <2>1 DEF Changes
<1>6. CASE DecOld(p)
  <2>1. pc[p] = "decOld" /\ Decrements(p, "decOld", "incCount")
    BY <1>6, LocalShape DEF DecOld
  <2> QED
    BY <1>0, <1>d, <2>1
<1>7. CASE IncCount(p)
  <2>1. Changes(p, "incCount", "touch", tx[p].seen, tx[p].total,
                [tx[p].count EXCEPT ![tx[p].category] = 1],
                {CategoryRow(tx[p].video, tx[p].category)})
    BY <1>7, LocalShape
  <2> QED
    BY <1>0, <2>1 DEF Changes
<1>8. CASE Touch(p)
  <2>1. Locks(p, "touch", "commitSubmit", {VideoRow(tx[p].video)})
    BY <1>8, LocalShape
  <2> QED
    BY <1>0, <2>1 DEF Locks, Changes
<1>9. CASE \E v \in Videos : ReadForDelete(p, v)
  <2>1. PICK v \in Videos :
          /\ vote[v][UserOf[p]] \in Categories
          /\ Opens(p, "removeVote", v, NoVote, vote[v][UserOf[p]], {})
    BY <1>9, LocalShape
  <2> QED
    BY <2>1 DEF Opens
<1>10. CASE RemoveVote(p)
  <2>1. \/ Locks(p, "removeVote", "decTotal", {})
        \/ /\ vote[tx[p].video][UserOf[p]] # NoVote
           /\ Locks(p, "removeVote", "decTotal", {VoteRow(tx[p].video, UserOf[p])})
    BY <1>10, LocalShape
  <2> QED
    BY <1>0, <2>1 DEF Locks, Changes
<1>11. CASE DecTotal(p)
  <2>1. \/ Locks(p, "decTotal", "decCount", {})
        \/ /\ total[tx[p].video] > 0
           /\ Changes(p, "decTotal", "decCount", tx[p].seen, -1, tx[p].count,
                      {VideoRow(tx[p].video)})
    BY <1>11, LocalShape
  <2> QED
    BY <1>0, <2>1, RowsDiffer DEF Locks, Changes
<1>12. CASE DecCount(p)
  <2>1. pc[p] = "decCount" /\ Decrements(p, "decCount", "commitDelete")
    BY <1>12, LocalShape DEF DecCount
  <2> QED
    BY <1>0, <1>d, <2>1
<1>13. CASE RequestFails(p) \/ DeadlockVictim(p)
  <2>1. tx'[p] = NoTransaction(tx[p].video) /\ pc'[p] = "idle"
    BY <1>13, LocalShape
  <2> QED
    BY <2>1 DEF NoTransaction
<1>14. QED
  BY <1>1, <1>2, <1>3, <1>4, <1>5, <1>6, <1>7, <1>8, <1>9, <1>10, <1>11, <1>12,
     <1>13 DEF Local

(* A local step makes p a skipping deletion only if total_votes is 0. *)
LEMMA LocalSkips ==
  ASSUME TypeOK, Footprints, LockExclusion, NEW p \in Procs, Local(p), NEW v \in Videos,
         Skips(p, v)'
  PROVE  Skips(p, v) \/ total[v] = 0
<1> USE Typing
<1>s. ASSUME NEW t, NEW s, Advance(p, t, s)
      PROVE  tx'[p] = t /\ pc'[p] = s
  BY <1>s DEF Advance, TypeOK
<1>1. pc'[p] \in {"decCount", "commitDelete"}
  BY DEF Skips
<1>2. CASE DecTotal(p)
  <2> DEFINE row == VideoRow(tx[p].video)
             t == [Holding(p, row) EXCEPT !.total = -1]
  <2>1. CASE Advance(p, tx[p], "decCount") /\ total[tx[p].video] = 0
    BY <1>s, <2>1 DEF Skips
  <2>2. CASE Advance(p, t, "decCount")
    <3>1. tx'[p] = t
      BY <1>s, <2>2
    <3>2. Holding(p, row) \in Transaction
      BY HoldingType, RowTypes
    <3>3. tx'[p].total = -1
      BY <3>1, <3>2 DEF Transaction
    <3> QED
      BY <3>3 DEF Skips
  <2> QED
    BY <1>2, <2>1, <2>2 DEF DecTotal
<1>3. CASE DecCount(p)
  <2> DEFINE row == CategoryRow(tx[p].video, tx[p].seen)
             t == [Holding(p, row) EXCEPT !.count[tx[p].seen] = -1]
  <2>0. pc[p] = "decCount" /\ tx[p].seen \in Categories
    BY <1>3 DEF DecCount, Footprints, DeleteFootprint, DeleteSteps
  <2>1. CASE Advance(p, tx[p], "commitDelete")
    BY <1>s, <2>0, <2>1 DEF Skips
  <2>2. CASE Advance(p, t, "commitDelete")
    <3>1. tx'[p] = t
      BY <1>s, <2>2
    <3>2. /\ Holding(p, row) \in Transaction
          /\ Holding(p, row).video = tx[p].video
          /\ Holding(p, row).total = tx[p].total
          /\ Holding(p, row).held = tx[p].held \cup {row}
      BY <2>0, HoldingType, RowTypes DEF Holding, Transaction
    <3> HIDE DEF row
    <3>3. /\ t.video = tx[p].video /\ t.total = tx[p].total
          /\ t.held = tx[p].held \cup {row}
      BY <3>2 DEF Transaction
    <3> HIDE DEF t
    <3> QED
      BY <2>0, <3>1, <3>3, RowsDiffer DEF Skips, row
  <2> QED
    BY <1>3, <2>1, <2>2 DEF DecCount, DecrementSeen
<1>4. DecTotal(p) \/ DecCount(p)
  <2>1. ASSUME \E w \in Videos, c \in Categories : UpsertUser(p, w, c)
        PROVE  FALSE
    BY <1>1, <1>s, <2>1 DEF UpsertUser
  <2>2. ~ EnsureVideo(p) /\ ~ ReadVote(p)
    BY <1>1, <1>s DEF EnsureVideo, ReadVote
  <2>3. ~ UpsertVote(p)
    BY <1>1, <1>s DEF UpsertVote
  <2>4. ~ IncTotal(p) /\ ~ IncCount(p) /\ ~ Touch(p)
    BY <1>1, <1>s DEF IncTotal, IncCount, Touch
  <2>5. ~ DecOld(p)
    BY <1>1, <1>s DEF DecOld, DecrementSeen
  <2>6. ASSUME \E w \in Videos : ReadForDelete(p, w)
        PROVE  FALSE
    BY <1>1, <1>s, <2>6 DEF ReadForDelete
  <2>8. ~ RemoveVote(p)
    BY <1>1, <1>s DEF RemoveVote
  <2>7. ~ RequestFails(p) /\ ~ DeadlockVictim(p)
    BY <1>1, <1>s DEF RequestFails, DeadlockVictim, Rollback
  <2> QED
    BY <2>1, <2>2, <2>3, <2>4, <2>5, <2>6, <2>7, <2>8 DEF Local
<1> QED
  BY <1>2, <1>3, <1>4

(* The voters of a video are finitely many, with or without the skipped. *)
LEMMA FiniteVoters ==
  ASSUME NEW v
  PROVE  /\ IsFiniteSet(Voters(v)) /\ Cardinality(Voters(v)) \in Nat
         /\ IsFiniteSet(Voters(v) \ Skipped(v))
         /\ Cardinality(Voters(v) \ Skipped(v)) \in Nat
<1>1. Voters(v) \subseteq Users /\ Voters(v) \ Skipped(v) \subseteq Users
  BY DEF Voters
<1> QED
  BY <1>1, UsersAssumption, FS_Subset, FS_CardinalityType

(* Covered survives the steps that commit nothing. *)
LEMMA LocalCovered ==
  ASSUME TypeOK, Footprints, LockExclusion, Covered, NEW p \in Procs, Local(p)
  PROVE  Covered'
<1>1. /\ UNCHANGED tables
      /\ \A q \in Procs \ {p} : pc'[q] = pc[q] /\ tx'[q] = tx[q]
  BY LocalFrame
<1>2. SUFFICES ASSUME NEW v \in Videos
               PROVE  total[v] <= Cardinality(Voters(v) \ Skipped(v)')
  BY <1>1 DEF Covered, Voters, tables
<1>3. IsFiniteSet(Voters(v) \ Skipped(v)') /\ Cardinality(Voters(v) \ Skipped(v)') \in Nat
  <2>1. IsFiniteSet(Voters(v)) /\ Voters(v) \ Skipped(v)' \subseteq Voters(v)
    BY FiniteVoters
  <2> QED
    BY <2>1, FS_Subset, FS_CardinalityType
<1>4. CASE total[v] = 0
  BY <1>3, <1>4
<1>5. CASE total[v] # 0
  <2>1. \A q \in Procs : Skips(q, v)' => Skips(q, v)
    BY <1>1, <1>5, LocalSkips DEF Skips
  <2>2. Voters(v) \ Skipped(v) \subseteq Voters(v) \ Skipped(v)'
    BY <2>1 DEF Skipped
  <2>3. Cardinality(Voters(v) \ Skipped(v)) <= Cardinality(Voters(v) \ Skipped(v)')
    BY <1>3, <2>2, FS_Subset
  <2>4. total[v] <= Cardinality(Voters(v) \ Skipped(v)) /\ total[v] \in Nat
    BY DEF Covered, TypeOK
  <2>5. Cardinality(Voters(v) \ Skipped(v)) \in Nat
    BY FiniteVoters
  <2> QED
    BY <1>3, <2>3, <2>4, <2>5
<1> QED
  BY <1>4, <1>5

-----------------------------------------------------------------------------
(***************************************************************************)
(* Commit is the step that changes the tables.                             *)
(***************************************************************************)
LEMMA CommitFacts ==
  ASSUME TypeOK, NEW p \in Procs, Commit(p)
  PROVE  /\ pc[p] \in {"commitSubmit", "commitDelete"}
         /\ pc'[p] = "idle" /\ tx'[p] = NoTransaction(tx[p].video)
         /\ \A q \in Procs \ {p} : pc'[q] = pc[q] /\ tx'[q] = tx[q]
         /\ \A v \in Videos, u \in Users :
              vote'[v][u] = IF /\ v = tx[p].video /\ u = UserOf[p]
                               /\ VoteRow(v, u) \in tx[p].held
                              THEN tx[p].category ELSE vote[v][u]
         /\ \A v \in Videos : total'[v] = IF v = tx[p].video
                                           THEN total[v] + tx[p].total ELSE total[v]
         /\ \A v \in Videos, c \in Categories :
              count'[v][c] = IF v = tx[p].video
                               THEN count[v][c] + tx[p].count[c] ELSE count[v][c]
<1> USE Typing
<1>1. pc[p] \in {"commitSubmit", "commitDelete"}
  BY DEF Commit
<1>2. pc' = [pc EXCEPT ![p] = "idle"] /\ tx' = [tx EXCEPT ![p] = NoTransaction(tx[p].video)]
  BY DEF Commit
<1>3. ASSUME NEW v \in Videos, NEW u \in Users
      PROVE  vote'[v][u] = IF /\ v = tx[p].video /\ u = UserOf[p]
                              /\ VoteRow(v, u) \in tx[p].held
                             THEN tx[p].category ELSE vote[v][u]
  BY <1>3 DEF Commit, TypeOK
<1>4. ASSUME NEW v \in Videos
      PROVE  total'[v] = IF v = tx[p].video THEN total[v] + tx[p].total ELSE total[v]
  BY <1>4 DEF Commit, TypeOK
<1>5. ASSUME NEW v \in Videos, NEW c \in Categories
      PROVE  count'[v][c] = IF v = tx[p].video
                              THEN count[v][c] + tx[p].count[c] ELSE count[v][c]
  BY <1>5 DEF Commit, TypeOK
<1> QED
  BY <1>1, <1>2, <1>3, <1>4, <1>5 DEF TypeOK

(* A commit keeps the tables well typed: no counter falls below 0. *)
LEMMA CommitType ==
  ASSUME TypeOK, Footprints, NEW p \in Procs, Commit(p)
  PROVE  TypeOK'
<1> USE Typing
<1>0. CounterFootprint(p)
  BY DEF Footprints
<1>1. videos' \subseteq Videos
  BY DEF Commit, TypeOK
<1>2. vote' \in [Videos -> [Users -> Filed]]
  BY DEF Commit, TypeOK
<1>3. total' \in [Videos -> Nat]
  <2>1. total[tx[p].video] + tx[p].total \in Nat
    BY <1>0 DEF CounterFootprint, TypeOK
  <2> QED
    BY <2>1 DEF Commit, TypeOK
<1>4. count' \in [Videos -> [Categories -> Nat]]
  <2> DEFINE v == tx[p].video
             new == [c \in Categories |-> count[v][c] + tx[p].count[c]]
  <2>1. ASSUME NEW c \in Categories
        PROVE  count[v][c] + tx[p].count[c] \in Nat
    <3>1. tx[p].count[c] \in {-1, 0, 1} /\ count[v][c] \in Nat
      BY <2>1 DEF TypeOK
    <3> QED
      BY <1>0, <2>1, <3>1 DEF CounterFootprint
  <2>2. new \in [Categories -> Nat]
    BY <2>1
  <2>3. count' = [count EXCEPT ![v] = new]
    BY DEF Commit
  <2> HIDE DEF new
  <2> QED
    BY <2>2, <2>3 DEF TypeOK
<1>5. /\ pc' \in [Procs -> {"idle"} \cup SubmitSteps \cup DeleteSteps]
      /\ tx' \in [Procs -> Transaction]
  BY FreshType DEF Commit, TypeOK
<1> QED
  BY <1>1, <1>2, <1>3, <1>4, <1>5 DEF TypeOK

(* A commit only releases locks. *)
LEMMA CommitExclusion ==
  ASSUME TypeOK, LockExclusion, NEW p \in Procs, Commit(p)
  PROVE  LockExclusion'
BY Typing, CommitFacts, FreshType DEF LockExclusion

(* The footprints of another transaction survive a commit of p: what it    *)
(* rests on is in rows that it holds itself.                               *)
LEMMA CommitFootprint ==
  ASSUME TypeOK, Footprints, LockExclusion, NEW p \in Procs, Commit(p),
         NEW q \in Procs
  PROVE  (SubmitFootprint(q) /\ DeleteFootprint(q) /\ CounterFootprint(q))'
<1> USE Typing
<1> DEFINE v == tx[q].video
           u == UserOf[q]
<1>1. CASE q = p
  <2>1. tx'[p] = NoTransaction(tx[p].video) /\ pc'[p] = "idle"
    BY CommitFacts
  <2> QED
    BY <1>1, <2>1
    DEF SubmitFootprint, DeleteFootprint, CounterFootprint, SubmitSteps, DeleteSteps,
        NoTransaction
<1>2. CASE q # p
  <2>1. pc'[q] = pc[q] /\ tx'[q] = tx[q]
    BY <1>2, CommitFacts
  <2>2. tx[p].held \cap tx[q].held = {}
    BY <1>2 DEF LockExclusion
  <2>3. /\ SubmitFootprint(q) /\ DeleteFootprint(q) /\ CounterFootprint(q)
        /\ SubmitFootprint(p) /\ DeleteFootprint(p) /\ CounterFootprint(p)
    BY DEF Footprints
  <2>4. vote'[v][u] = IF /\ v = tx[p].video /\ u = UserOf[p]
                         /\ VoteRow(v, u) \in tx[p].held
                        THEN tx[p].category ELSE vote[v][u]
    BY CommitFacts
  <2>5. ASSUME pc[q] \in SubmitSteps, vote[v][u] = NoVote
        PROVE  vote'[v][u] = NoVote
    <3>1. UserRow(u) \in tx[q].held
      BY <2>3, <2>5 DEF SubmitFootprint
    <3>2. CASE pc[p] = "commitSubmit"
      <4>1. UserRow(UserOf[p]) \in tx[p].held
        BY <2>3, <3>2 DEF SubmitFootprint, SubmitSteps
      <4> QED
        BY <2>2, <2>4, <2>5, <3>1, <4>1
    <3>3. CASE pc[p] = "commitDelete"
      <4>1. tx[p].category = NoVote
        BY <2>3, <3>3 DEF DeleteFootprint, DeleteSteps
      <4> QED
        BY <2>4, <2>5, <4>1
    <3> QED
      BY <3>2, <3>3, CommitFacts
  <2>6. SubmitFootprint(q)'
    BY <2>1, <2>3, <2>5 DEF SubmitFootprint
  <2>7. DeleteFootprint(q)'
    <3>1. VoteRow(v, u) \in tx[q].held => vote'[v][u] = vote[v][u]
      BY <2>2, <2>4
    <3> QED
      BY <2>1, <2>3, <3>1 DEF DeleteFootprint
  <2>8. CounterFootprint(q)'
    <3>1. VideoRow(v) \in tx[q].held => total'[v] = total[v]
      <4>1. total'[v] = IF v = tx[p].video THEN total[v] + tx[p].total ELSE total[v]
        BY CommitFacts
      <4>2. tx[p].total # 0 => VideoRow(tx[p].video) \in tx[p].held
        BY <2>3 DEF CounterFootprint
      <4>3. total[v] \in Nat
        BY DEF TypeOK
      <4> QED
        BY <2>2, <4>1, <4>2, <4>3
    <3>2. ASSUME NEW c \in Categories, CategoryRow(v, c) \in tx[q].held
          PROVE  count'[v][c] = count[v][c]
      <4>1. count'[v][c] = IF v = tx[p].video
                             THEN count[v][c] + tx[p].count[c] ELSE count[v][c]
        BY CommitFacts
      <4>2. tx[p].count[c] # 0 => CategoryRow(tx[p].video, c) \in tx[p].held
        BY <2>3 DEF CounterFootprint
      <4>3. count[v][c] \in Nat
        BY DEF TypeOK
      <4> QED
        BY <2>2, <3>2, <4>1, <4>2, <4>3
    <3> QED
      BY <2>1, <2>3, <3>1, <3>2 DEF CounterFootprint
  <2> QED
    BY <2>6, <2>7, <2>8
<1> QED
  BY <1>1, <1>2

(* Covered survives a commit, of a submission or of a deletion. *)
LEMMA CommitCovered ==
  ASSUME TypeOK, Footprints, LockExclusion, Covered, NEW p \in Procs, Commit(p)
  PROVE  Covered'
<1> USE Typing
<1> DEFINE u == UserOf[p]
           row(v) == VoteRow(v, u)
<1>0. /\ SubmitFootprint(p) /\ DeleteFootprint(p) /\ CounterFootprint(p)
      /\ pc[p] \in {"commitSubmit", "commitDelete"}
  BY CommitFacts DEF Footprints
<1>1. SUFFICES ASSUME NEW v \in Videos
               PROVE  total'[v] <= Cardinality(Voters(v)' \ Skipped(v)')
  BY DEF Covered
<1> DEFINE A == Voters(v) \ Skipped(v)
           B == Voters(v)' \ Skipped(v)'
<1>2. /\ IsFiniteSet(A) /\ Cardinality(A) \in Nat
      /\ total[v] \in Nat /\ total[v] <= Cardinality(A)
  BY FiniteVoters DEF Covered, TypeOK
<1>3. \A q \in Procs : Skips(q, v)' <=> q # p /\ Skips(q, v)
  <2>1. ~ Skips(p, v)'
    BY CommitFacts DEF Skips
  <2>2. \A q \in Procs \ {p} : Skips(q, v)' <=> Skips(q, v)
    BY CommitFacts DEF Skips
  <2> QED
    BY <2>1, <2>2
<1>4. \A x \in Users : vote'[v][x] = IF v = tx[p].video /\ x = u /\ row(v) \in tx[p].held
                                       THEN tx[p].category ELSE vote[v][x]
  BY CommitFacts
<1>5. total'[v] = IF v = tx[p].video THEN total[v] + tx[p].total ELSE total[v]
  BY CommitFacts
<1>6. row(v) \in tx[p].held => \A q \in Procs : q # p /\ UserOf[q] = u => ~ Skips(q, v)
  BY DEF LockExclusion, Skips
<1>7. CASE v # tx[p].video
  <2>1. ~ Skips(p, v)
    BY <1>7 DEF Skips
  <2>2. B = A
    BY <1>3, <1>4, <1>7, <2>1 DEF Voters, Skipped
  <2> QED
    BY <1>2, <1>5, <1>7, <2>2
<1>8. CASE v = tx[p].video /\ pc[p] = "commitSubmit"
  <2>1. row(v) \in tx[p].held /\ tx[p].category \in Categories
    BY <1>0, <1>8 DEF SubmitFootprint, SubmitSteps
  <2>2. ~ Skips(p, v)
    BY <1>8 DEF Skips
  <2>3. u \notin Skipped(v) /\ Skipped(v)' = Skipped(v)
    BY <1>3, <1>6, <2>1, <2>2 DEF Skipped
  <2>4. Voters(v)' = Voters(v) \cup {u}
    BY <1>4, <1>8, <2>1, NoVoteAssumption DEF Voters
  <2>5. B = A \cup {u}
    BY <2>3, <2>4
  <2>6. Cardinality(B) = IF u \in A THEN Cardinality(A) ELSE Cardinality(A) + 1
    <3> HIDE DEF A, B
    <3> QED
      BY <1>2, <2>5, FS_AddElement
  <2>7. CASE tx[p].total = 1
    <3>1. vote[v][u] = NoVote
      BY <1>0, <1>8, <2>7 DEF SubmitFootprint, SubmitSteps
    <3>2. u \notin A
      BY <3>1 DEF Voters
    <3> QED
      BY <1>2, <1>5, <2>6, <2>7, <3>2
  <2>8. CASE tx[p].total = 0
    BY <1>2, <1>5, <2>6, <2>8
  <2> QED
    BY <1>0, <1>8, <2>7, <2>8 DEF SubmitFootprint, SubmitSteps
<1>9. CASE v = tx[p].video /\ pc[p] = "commitDelete"
  <2>0. tx[p].category = NoVote /\ tx[p].total \in {-1, 0}
    BY <1>0, <1>9 DEF DeleteFootprint, DeleteSteps
  <2>1. CASE row(v) \notin tx[p].held
    <3>1. ~ Skips(p, v)
      BY <2>1 DEF Skips
    <3>2. B = A
      BY <1>3, <1>4, <2>1, <3>1 DEF Voters, Skipped
    <3> HIDE DEF A, B
    <3>3. total'[v] <= total[v] /\ total'[v] \in Int
      BY <1>2, <1>5, <2>0
    <3>4. Cardinality(Voters(v)' \ Skipped(v)') = Cardinality(A)
      BY <3>2 DEF B
    <3> QED
      BY <1>2, <3>3, <3>4
  <2>2. CASE row(v) \in tx[p].held
    <3>1. u \in Voters(v) /\ Voters(v)' = Voters(v) \ {u}
      BY <1>0, <1>4, <1>9, <2>0, <2>2 DEF Voters, DeleteFootprint, DeleteSteps
    <3>2. CASE tx[p].total = 0
      <4>1. Skips(p, v)
        BY <1>9, <2>2, <3>2 DEF Skips
      <4>2. u \in Skipped(v) /\ Skipped(v)' = Skipped(v) \ {u}
        BY <1>3, <1>6, <2>2, <4>1 DEF Skipped
      <4>3. B = A
        BY <3>1, <4>2
      <4> QED
        BY <1>2, <1>5, <3>2, <4>3
    <3>3. CASE tx[p].total = -1
      <4>1. ~ Skips(p, v)
        BY <3>3 DEF Skips
      <4>2. u \notin Skipped(v) /\ Skipped(v)' = Skipped(v)
        BY <1>3, <1>6, <2>2, <4>1 DEF Skipped
      <4>3. u \in A /\ B = A \ {u}
        BY <3>1, <4>2
      <4>4. Cardinality(B) = Cardinality(A) - 1
        <5> HIDE DEF A, B
        <5> QED
          BY ZenonT(60), <1>2, <4>3, FS_RemoveElement
      <4> QED
        BY <1>2, <1>5, <1>9, <3>3, <4>4
    <3> QED
      BY <2>0, <3>2, <3>3
  <2> QED
    BY <2>1, <2>2
<1> QED
  BY <1>0, <1>7, <1>8, <1>9

-----------------------------------------------------------------------------
(* The invariant holds of the empty tables. *)
LEMMA InitInv ==
  ASSUME Init
  PROVE  Inv
<1>1. PICK v \in Videos : tx = [p \in Procs |-> NoTransaction(v)]
  BY DEF Init
<1>2. \A p \in Procs : tx[p] = NoTransaction(v) /\ pc[p] = "idle"
  BY <1>1 DEF Init
<1>3. TypeOK
  BY <1>1, FreshType DEF Init, TypeOK, Filed
<1>4. LockExclusion
  BY <1>2, FreshType DEF LockExclusion
<1>5. Footprints
  BY <1>2 DEF Footprints, SubmitFootprint, DeleteFootprint, CounterFootprint,
              SubmitSteps, DeleteSteps, NoTransaction
<1>6. Covered
  <2>1. \A w \in Videos : total[w] = 0
    BY DEF Init
  <2> QED
    BY <2>1, FiniteVoters DEF Covered
<1> QED
  BY <1>3, <1>4, <1>5, <1>6 DEF Inv

(* The invariant survives every step. *)
LEMMA NextInv ==
  ASSUME Inv, [Next]_vars
  PROVE  Inv'
<1>1. CASE UNCHANGED vars
  BY <1>1 DEF Inv, TypeOK, LockExclusion, Footprints, SubmitFootprint, DeleteFootprint,
              CounterFootprint, Covered, Voters, Skipped, Skips, vars
<1>2. ASSUME NEW p \in Procs, Local(p)
      PROVE  Inv'
  <2>1. TypeOK /\ LockExclusion /\ Footprints /\ Covered
    BY DEF Inv
  <2>2. /\ UNCHANGED tables /\ TypeOK' /\ LockExclusion'
        /\ \A q \in Procs \ {p} : pc'[q] = pc[q] /\ tx'[q] = tx[q]
    BY <1>2, <2>1, LocalFrame
  <2>3. ASSUME NEW q \in Procs
        PROVE  (SubmitFootprint(q) /\ DeleteFootprint(q) /\ CounterFootprint(q))'
    <3>1. CASE q = p
      BY <1>2, <2>1, <3>1, LocalFootprint
    <3>2. CASE q # p
      <4>1. pc'[q] = pc[q] /\ tx'[q] = tx[q] /\ UNCHANGED tables
        BY <2>2, <3>2
      <4>2. SubmitFootprint(q) /\ DeleteFootprint(q) /\ CounterFootprint(q)
        BY <2>1 DEF Footprints
      <4> QED
        BY <4>1, <4>2 DEF SubmitFootprint, DeleteFootprint, CounterFootprint, tables
    <3> QED
      BY <3>1, <3>2
  <2>4. Covered'
    BY <1>2, <2>1, LocalCovered
  <2> QED
    BY <2>2, <2>3, <2>4 DEF Inv, Footprints
<1>3. ASSUME NEW p \in Procs, Commit(p)
      PROVE  Inv'
  <2>1. TypeOK /\ LockExclusion /\ Footprints /\ Covered
    BY DEF Inv
  <2>2. TypeOK' /\ LockExclusion' /\ Covered'
    BY <1>3, <2>1, CommitType, CommitExclusion, CommitCovered
  <2>3. Footprints'
    BY <1>3, <2>1, CommitFootprint DEF Footprints
  <2> QED
    BY <2>2, <2>3 DEF Inv
<1> QED
  BY <1>1, <1>2, <1>3, NextCases

(***************************************************************************)
(* The inductive invariant holds of every behaviour: locks exclude one     *)
(* another and every open transaction keeps the ground it stands on.       *)
(***************************************************************************)
THEOREM Invariance == Spec => []Inv
<1>1. Init => Inv
  BY InitInv
<1>2. Inv /\ [Next]_vars => Inv'
  BY NextInv
<1> QED
  BY <1>1, <1>2, PTL DEF Spec

(***************************************************************************)
(* Type correctness.  That the counters stay natural numbers is the part   *)
(* that needs the locks: a decrement is committed against the value whose  *)
(* positivity the statement checked.                                       *)
(***************************************************************************)
THEOREM TypeCorrect == Spec => []TypeOK
<1>1. Inv => TypeOK
  BY DEF Inv
<1> QED
  BY <1>1, Invariance, PTL

(***************************************************************************)
(* total_votes never exceeds the number of vote rows, whatever submissions *)
(* and deletions, of the same user or of others, run at the same time.     *)
(***************************************************************************)
THEOREM NeverOvercounts == Spec => []NoOvercount
<1>1. ASSUME Inv
      PROVE  NoOvercount
  <2>1. SUFFICES ASSUME NEW v \in Videos
                 PROVE  total[v] <= Cardinality(Voters(v))
    BY DEF NoOvercount
  <2>2. total[v] \in Nat /\ total[v] <= Cardinality(Voters(v) \ Skipped(v))
    BY <1>1 DEF Inv, Covered, TypeOK
  <2>3. Cardinality(Voters(v) \ Skipped(v)) <= Cardinality(Voters(v))
    <3>1. Voters(v) \ Skipped(v) \subseteq Voters(v)
      OBVIOUS
    <3> QED
      BY <3>1, FiniteVoters, FS_Subset
  <2> QED
    BY <2>2, <2>3, FiniteVoters
<1> QED
  BY <1>1, Invariance, PTL

-----------------------------------------------------------------------------
(***************************************************************************)
(* When the requests of a user do not overlap.                             *)
(***************************************************************************)
(* The voters for a category are finitely many. *)
LEMMA FiniteVotersFor ==
  ASSUME NEW v, NEW c
  PROVE  IsFiniteSet(VotersFor(v, c)) /\ Cardinality(VotersFor(v, c)) \in Nat
<1>1. VotersFor(v, c) \subseteq Users
  BY DEF VotersFor
<1> QED
  BY <1>1, UsersAssumption, FS_Subset, FS_CardinalityType

(* A transaction at the step that adjusts total_votes for a removed vote   *)
(* finds it positive.                                                      *)
LEMMA RemovedIsCounted ==
  ASSUME TypeOK, TotalExact, NEW v \in Videos, NEW u \in Users, vote[v][u] # NoVote
  PROVE  total[v] # 0
<1>1. u \in Voters(v)
  BY DEF Voters
<1>2. Cardinality(Voters(v)) # 0
  BY <1>1, FiniteVoters, FS_EmptySet
<1>3. Cardinality(Voters(v)) \in Nat
  BY FiniteVoters
<1>4. total[v] = Cardinality(Voters(v))
  BY DEF TotalExact
<1> QED
  BY <1>2, <1>3, <1>4

(* The serial footprint of p after a step of its own that commits nothing. *)
LEMMA LocalSerialFootprint ==
  ASSUME Inv, SerialTables, NEW p \in Procs, Local(p)
  PROVE  SerialFootprint(p)'
<1>a. TypeOK /\ Footprints /\ LockExclusion /\ TotalExact
  BY DEF Inv, SerialTables
<1> USE Typing, NoVoteAssumption DEF SerialFootprint, SubmitSteps, DeleteSteps, tables
<1>0. /\ UNCHANGED tables
      /\ SerialFootprint(p)
      /\ SubmitFootprint(p) /\ DeleteFootprint(p) /\ CounterFootprint(p)
  BY <1>a, LocalFrame DEF Footprints, SerialTables
<1>d. ASSUME NEW s1, NEW s2, Decrements(p, s1, s2), tx[p].seen \in Categories,
             <<s1, s2>> \in {<<"decOld", "incCount">>, <<"decCount", "commitDelete">>}
      PROVE  SerialFootprint(p)'
  <2>1. CASE Locks(p, s1, s2, {})
    BY <1>0, <1>a, <1>d, <2>1 DEF Locks, Changes, SubmitFootprint
  <2>2. CASE Changes(p, s1, s2, tx[p].seen, tx[p].total,
                     [tx[p].count EXCEPT ![tx[p].seen] = -1],
                     {CategoryRow(tx[p].video, tx[p].seen)})
    BY <1>0, <1>a, <1>d, <2>2 DEF Changes, SubmitFootprint
  <2> QED
    BY <1>d, <2>1, <2>2 DEF Decrements
<1>1. CASE \E v \in Videos, c \in Categories : UpsertUser(p, v, c)
  <2>1. PICK v \in Videos, c \in Categories :
          Opens(p, "ensureVideo", v, c, NoVote, {UserRow(UserOf[p])})
    BY <1>1, <1>a, LocalShape
  <2> QED
    BY <2>1 DEF Opens
<1>2. CASE EnsureVideo(p)
  <2>1. PICK rows : Locks(p, "ensureVideo", "readVote", rows)
    BY <1>2, <1>a, LocalShape
  <2> QED
    BY <1>0, <2>1 DEF Locks, Changes
<1>3. CASE ReadVote(p)
  <2>1. Changes(p, "readVote", "upsertVote", vote[tx[p].video][UserOf[p]],
                tx[p].total, tx[p].count, {})
    BY <1>3, <1>a, LocalShape
  <2> QED
    BY <1>0, <2>1 DEF Changes
<1>4. CASE UpsertVote(p)
  <2>1. PICK s : /\ Locks(p, "upsertVote", s, {VoteRow(tx[p].video, UserOf[p])})
                 /\ \/ s = "incTotal" /\ tx[p].seen = NoVote
                    \/ s = "incCount" /\ tx[p].seen \in Categories
                    \/ s = "decOld" /\ tx[p].seen \in Categories
    BY <1>4, <1>a, LocalShape
  <2> QED
    BY <1>0, <2>1 DEF Locks, Changes, SubmitFootprint
<1>5. CASE IncTotal(p)
  <2>1. Changes(p, "incTotal", "incCount", tx[p].seen, 1, tx[p].count,
                {VideoRow(tx[p].video)})
    BY <1>5, <1>a, LocalShape
  <2> QED
    BY <1>0, <2>1 DEF Changes, SubmitFootprint
<1>6. CASE DecOld(p)
  <2>1. /\ pc[p] = "decOld" /\ Decrements(p, "decOld", "incCount")
        /\ tx[p].seen \in Categories
    BY <1>0, <1>6, <1>a, LocalShape DEF DecOld, SubmitFootprint
  <2> QED
    BY <1>d, <2>1
<1>7. CASE IncCount(p)
  <2>1. Changes(p, "incCount", "touch", tx[p].seen, tx[p].total,
                [tx[p].count EXCEPT ![tx[p].category] = 1],
                {CategoryRow(tx[p].video, tx[p].category)})
    BY <1>7, <1>a, LocalShape
  <2> QED
    BY <1>0, <1>a, <2>1 DEF Changes, SubmitFootprint
<1>8. CASE Touch(p)
  <2>1. Locks(p, "touch", "commitSubmit", {VideoRow(tx[p].video)})
    BY <1>8, <1>a, LocalShape
  <2> QED
    BY <1>0, <2>1 DEF Locks, Changes
<1>9. CASE \E v \in Videos : ReadForDelete(p, v)
  <2>1. PICK v \in Videos :
          /\ vote[v][UserOf[p]] \in Categories
          /\ Opens(p, "removeVote", v, NoVote, vote[v][UserOf[p]], {})
    BY <1>9, <1>a, LocalShape
  <2> QED
    BY <1>0, <2>1 DEF Opens
<1>10. CASE RemoveVote(p)
  <2>1. pc[p] = "removeVote"
    BY <1>10 DEF RemoveVote
  <2>2. vote[tx[p].video][UserOf[p]] # NoVote
    BY <1>0, <2>1 DEF DeleteFootprint
  <2>3. Locks(p, "removeVote", "decTotal", {VoteRow(tx[p].video, UserOf[p])})
    BY <1>10, <1>a, <2>2, LocalShape
  <2> QED
    BY <1>0, <2>3 DEF Locks, Changes
<1>11. CASE DecTotal(p)
  <2>1. pc[p] = "decTotal"
    BY <1>11 DEF DecTotal
  <2>2. vote[tx[p].video][UserOf[p]] # NoVote
    BY <1>0, <2>1 DEF DeleteFootprint
  <2>3. total[tx[p].video] # 0
    BY <1>a, <2>2, RemovedIsCounted
  <2>4. Changes(p, "decTotal", "decCount", tx[p].seen, -1, tx[p].count,
                {VideoRow(tx[p].video)})
    BY <1>11, <1>a, <2>3, LocalShape
  <2> QED
    BY <1>0, <2>4 DEF Changes
<1>12. CASE DecCount(p)
  <2>1. /\ pc[p] = "decCount" /\ Decrements(p, "decCount", "commitDelete")
        /\ tx[p].seen \in Categories
    BY <1>0, <1>12, <1>a, LocalShape DEF DecCount, DeleteFootprint
  <2> QED
    BY <1>d, <2>1
<1>13. CASE RequestFails(p) \/ DeadlockVictim(p)
  <2>1. tx'[p] = NoTransaction(tx[p].video) /\ pc'[p] = "idle"
    BY <1>13, <1>a, LocalShape
  <2> QED
    BY <2>1 DEF NoTransaction
<1>14. QED
  BY <1>1, <1>2, <1>3, <1>4, <1>5, <1>6, <1>7, <1>8, <1>9, <1>10, <1>11, <1>12,
     <1>13 DEF Local

(* What a commit does to the book, when p is its user's only request. *)
LEMMA CommitAdjusts ==
  ASSUME Inv, SerialTables, NEW p \in Procs, Commit(p)
  PROVE  LET v == tx[p].video
             u == UserOf[p]
         IN /\ VoteRow(v, u) \in tx[p].held
            /\ \/ /\ pc[p] = "commitSubmit" /\ tx[p].category \in Categories
                  /\ tx[p].total = IF vote[v][u] = NoVote THEN 1 ELSE 0
                  /\ tx[p].count[tx[p].category] = 1
               \/ /\ pc[p] = "commitDelete" /\ tx[p].category = NoVote
                  /\ vote[v][u] # NoVote
                  /\ tx[p].total = -1
            /\ \A c \in Categories : tx[p].count[c] = -1 => c = vote[v][u]
<1>1. /\ SubmitFootprint(p) /\ DeleteFootprint(p) /\ SerialFootprint(p)
      /\ pc[p] \in {"commitSubmit", "commitDelete"}
  BY DEF Inv, Footprints, SerialTables, Commit
<1> QED
  BY <1>1, NoVoteAssumption
  DEF SubmitFootprint, DeleteFootprint, SerialFootprint, SubmitSteps, DeleteSteps

(* A commit of p adds its vote to the voters of the video, or drops it. *)
LEMMA CommitVoters ==
  ASSUME Inv, SerialTables, NEW p \in Procs, Commit(p), NEW v \in Videos
  PROVE  LET u == UserOf[p] IN
         /\ v # tx[p].video => /\ Voters(v)' = Voters(v)
                               /\ \A c : VotersFor(v, c)' = VotersFor(v, c)
         /\ v = tx[p].video =>
              /\ Voters(v)' = IF tx[p].category = NoVote
                                THEN Voters(v) \ {u} ELSE Voters(v) \cup {u}
              /\ \A c : VotersFor(v, c)' = IF c = tx[p].category
                                             THEN VotersFor(v, c) \cup {u}
                                             ELSE VotersFor(v, c) \ {u}
<1>1. TypeOK
  BY DEF Inv
<1>2. /\ VoteRow(tx[p].video, UserOf[p]) \in tx[p].held
      /\ UserOf[p] \in Users
  BY <1>1, CommitAdjusts, Typing
<1>3. \A u \in Users : vote'[v][u] = IF v = tx[p].video /\ u = UserOf[p]
                                       THEN tx[p].category ELSE vote[v][u]
  BY <1>1, <1>2, CommitFacts
<1> QED
  BY <1>2, <1>3 DEF Voters, VotersFor

(* A commit keeps total_votes exact. *)
LEMMA CommitTotal ==
  ASSUME Inv, SerialTables, NEW p \in Procs, Commit(p)
  PROVE  TotalExact'
<1>1. TypeOK /\ TotalExact
  BY DEF Inv, SerialTables
<1>2. SUFFICES ASSUME NEW v \in Videos
               PROVE  total'[v] = Cardinality(Voters(v)')
  BY DEF TotalExact
<1> DEFINE u == UserOf[p]
           A == Voters(v)
<1>3. IsFiniteSet(A) /\ Cardinality(A) \in Nat /\ total[v] = Cardinality(A)
  BY <1>1, FiniteVoters DEF TotalExact
<1>4. total'[v] = IF v = tx[p].video THEN total[v] + tx[p].total ELSE total[v]
  BY <1>1, CommitFacts
<1>5. CASE v # tx[p].video
  BY <1>3, <1>4, <1>5, CommitVoters
<1>6. CASE v = tx[p].video
  <2>1. u \in A <=> vote[v][u] # NoVote
    BY <1>1, Typing DEF Voters
  <2>2. \/ /\ tx[p].category \in Categories
           /\ tx[p].total = IF vote[v][u] = NoVote THEN 1 ELSE 0
        \/ /\ tx[p].category = NoVote /\ vote[v][u] # NoVote /\ tx[p].total = -1
    BY <1>6, CommitAdjusts
  <2>3. Voters(v)' = IF tx[p].category = NoVote THEN A \ {u} ELSE A \cup {u}
    BY <1>6, CommitVoters
  <2> HIDE DEF A, u
  <2>4. Cardinality(A \cup {u}) = IF u \in A THEN Cardinality(A) ELSE Cardinality(A) + 1
    BY <1>3, FS_AddElement
  <2>5. Cardinality(A \ {u}) = IF u \in A THEN Cardinality(A) - 1 ELSE Cardinality(A)
    BY <1>3, FS_RemoveElement
  <2>6. CASE tx[p].category \in Categories
    BY <1>3, <1>4, <1>6, <2>1, <2>2, <2>3, <2>4, <2>6, NoVoteAssumption
  <2>7. CASE tx[p].category = NoVote
    BY <1>3, <1>4, <1>6, <2>1, <2>2, <2>3, <2>5, <2>7, NoVoteAssumption
  <2> QED
    BY <2>2, <2>6, <2>7
<1> QED
  BY <1>5, <1>6

(* A commit keeps every vote counted in its category. *)
LEMMA CommitCounts ==
  ASSUME Inv, SerialTables, NEW p \in Procs, Commit(p)
  PROVE  CountCoversVotes'
<1>1. TypeOK /\ CountCoversVotes
  BY DEF Inv, SerialTables
<1>2. SUFFICES ASSUME NEW v \in Videos, NEW c \in Categories
               PROVE  count'[v][c] >= Cardinality(VotersFor(v, c)')
  BY DEF CountCoversVotes
<1> DEFINE u == UserOf[p]
           A == VotersFor(v, c)
           n == tx[p].count[c]
<1>3. /\ IsFiniteSet(A) /\ Cardinality(A) \in Nat
      /\ count[v][c] \in Nat /\ count[v][c] >= Cardinality(A)
  BY <1>1, FiniteVotersFor DEF CountCoversVotes, TypeOK
<1>4. count'[v][c] = IF v = tx[p].video THEN count[v][c] + n ELSE count[v][c]
  BY <1>1, CommitFacts
<1>5. CASE v # tx[p].video
  BY <1>3, <1>4, <1>5, CommitVoters
<1>6. CASE v = tx[p].video
  <2>1. /\ n \in {-1, 0, 1}
        /\ n = -1 => u \in A
    BY <1>1, <1>6, Typing, CommitAdjusts DEF VotersFor
  <2>2. c = tx[p].category => n = 1
    BY CommitAdjusts, NoVoteAssumption
  <2>3. VotersFor(v, c)' = IF c = tx[p].category THEN A \cup {u} ELSE A \ {u}
    BY <1>6, CommitVoters
  <2> HIDE DEF A, u, n
  <2>4. Cardinality(A \cup {u}) = IF u \in A THEN Cardinality(A) ELSE Cardinality(A) + 1
    BY <1>3, FS_AddElement
  <2>5. Cardinality(A \ {u}) = IF u \in A THEN Cardinality(A) - 1 ELSE Cardinality(A)
    BY <1>3, FS_RemoveElement
  <2> QED
    BY <1>3, <1>4, <1>6, <2>1, <2>2, <2>3, <2>4, <2>5
<1> QED
  BY <1>5, <1>6

(* The footprint of another user's transaction survives a commit of p. *)
LEMMA CommitSerialFootprint ==
  ASSUME Inv, SerialTables, NEW p \in Procs, Commit(p), NEW q \in Procs
  PROVE  SerialFootprint(q)'
<1>1. TypeOK
  BY DEF Inv
<1>2. CASE q = p
  <2>1. tx'[q] = NoTransaction(tx[p].video) /\ pc'[q] = "idle"
    BY <1>1, <1>2, CommitFacts
  <2> QED
    BY <2>1 DEF SerialFootprint, NoTransaction
<1>3. CASE q # p
  <2>1. pc'[q] = pc[q] /\ tx'[q] = tx[q]
    BY <1>1, <1>3, CommitFacts
  <2>2. SerialFootprint(q)
    BY DEF SerialTables
  <2>3. CASE pc[q] = "idle"
    BY <2>1, <2>2, <2>3 DEF SerialFootprint
  <2>4. CASE pc[q] # "idle"
    <3>1. UserOf[q] # UserOf[p]
      BY <1>3, <2>4 DEF SerialTables, Racing, Commit
    <3>2. vote'[tx[q].video][UserOf[q]] = vote[tx[q].video][UserOf[q]]
      BY <1>1, <3>1, Typing, CommitFacts
    <3> QED
      BY <2>1, <2>2, <3>2 DEF SerialFootprint
  <2> QED
    BY <2>3, <2>4
<1> QED
  BY <1>2, <1>3

(* The serial part of the invariant holds of the empty tables. *)
LEMMA InitSerial ==
  ASSUME Init
  PROVE  SerialTables
<1>1. PICK w \in Videos : tx = [p \in Procs |-> NoTransaction(w)]
  BY DEF Init
<1>2. \A p \in Procs : tx[p] = NoTransaction(w) /\ pc[p] = "idle"
  BY <1>1 DEF Init
<1>3. ~ Racing
  BY <1>2 DEF Racing
<1>4. TotalExact
  <2>1. \A v \in Videos : Voters(v) = {} /\ total[v] = 0
    BY DEF Init, Voters
  <2> QED
    BY <2>1, FS_EmptySet DEF TotalExact
<1>5. CountCoversVotes
  <2>1. \A v \in Videos, c \in Categories : VotersFor(v, c) = {} /\ count[v][c] = 0
    BY NoVoteAssumption DEF Init, VotersFor
  <2> QED
    BY <2>1, FS_EmptySet DEF CountCoversVotes
<1>6. \A p \in Procs : SerialFootprint(p)
  BY <1>2 DEF SerialFootprint, NoTransaction
<1> QED
  BY <1>3, <1>4, <1>5, <1>6 DEF SerialTables

(* The serial part survives every step after which no user has two open    *)
(* requests.                                                               *)
LEMMA NextSerial ==
  ASSUME Inv, SerialTables, Next, ~ Racing'
  PROVE  SerialTables'
<1>1. ASSUME NEW p \in Procs, Local(p)
      PROVE  SerialTables'
  <2>1. TypeOK /\ Footprints
    BY DEF Inv
  <2>2. /\ UNCHANGED tables
        /\ \A q \in Procs \ {p} : pc'[q] = pc[q] /\ tx'[q] = tx[q]
    BY <1>1, <2>1, LocalFrame
  <2>3. TotalExact' /\ CountCoversVotes'
    BY <2>2 DEF SerialTables, TotalExact, CountCoversVotes, Voters, VotersFor, tables
  <2>4. ASSUME NEW q \in Procs
        PROVE  SerialFootprint(q)'
    <3>1. CASE q = p
      BY <1>1, <3>1, LocalSerialFootprint
    <3>2. CASE q # p
      <4>1. pc'[q] = pc[q] /\ tx'[q] = tx[q] /\ UNCHANGED tables
        BY <2>2, <3>2
      <4>2. SerialFootprint(q)
        BY DEF SerialTables
      <4> QED
        BY <4>1, <4>2 DEF SerialFootprint, tables
    <3> QED
      BY <3>1, <3>2
  <2> QED
    BY <2>3, <2>4 DEF SerialTables
<1>2. ASSUME NEW p \in Procs, Commit(p)
      PROVE  SerialTables'
  <2>1. ASSUME NEW q \in Procs
        PROVE  SerialFootprint(q)'
    BY <1>2, CommitSerialFootprint
  <2> QED
    BY <1>2, <2>1, CommitTotal, CommitCounts DEF SerialTables
<1> QED
  BY <1>1, <1>2, NextCases

(***************************************************************************)
(* The inductive invariant of the specification with its history variable: *)
(* until a user has two requests at once, every open transaction still     *)
(* knows the vote on file and writes the counters accordingly.             *)
(***************************************************************************)
THEOREM SerialInvariance == SerialSpec => []SerialInv
<1>1. SerialInit => SerialInv
  BY InitInv, InitSerial DEF SerialInit, SerialInv
<1>2. ASSUME SerialInv, [SerialNext]_serialVars
      PROVE  SerialInv'
  <2>1. CASE SerialNext
    <3>1. Inv'
      BY <1>2, <2>1, NextInv DEF SerialNext, SerialInv
    <3>2. raced' \/ SerialTables'
      BY <1>2, <2>1, NextSerial DEF SerialNext, SerialInv
    <3> QED
      BY <3>1, <3>2 DEF SerialInv
  <2>2. CASE UNCHANGED serialVars
    <3>1. UNCHANGED vars /\ raced' = raced
      BY <2>2 DEF serialVars
    <3>2. Inv'
      BY <1>2, <3>1, NextInv DEF SerialInv
    <3>3. SerialTables => SerialTables'
      BY <3>1 DEF SerialTables, Racing, TotalExact, CountCoversVotes, SerialFootprint,
                  Voters, VotersFor, vars
    <3> QED
      BY <1>2, <3>1, <3>2, <3>3 DEF SerialInv
  <2> QED
    BY <1>2, <2>1, <2>2
<1> QED
  BY <1>1, <1>2, PTL DEF SerialSpec

(***************************************************************************)
(* No vote on file is missing from the count of its category, unless a     *)
(* user has had two requests in flight at once: the decrements of DecOld   *)
(* and DecCount take back what the same user's vote had added.             *)
(***************************************************************************)
THEOREM CountsCover == SerialSpec => []CountCoversSerialVotes
<1>1. SerialInv => CountCoversSerialVotes
  BY DEF SerialInv, SerialTables, CountCoversSerialVotes
<1> QED
  BY <1>1, SerialInvariance, PTL

(* A step that leaves no user with two requests is a step of the book. *)
LEMMA BookStep ==
  ASSUME SerialInv, SerialNext, ~ raced'
  PROVE  Book!Next \/ UNCHANGED <<vote, total>>
<1>0. Inv /\ SerialTables /\ TypeOK /\ Footprints
  BY DEF SerialInv, SerialNext, Inv
<1>1. ASSUME NEW p \in Procs, Local(p)
      PROVE  UNCHANGED <<vote, total>>
  BY <1>0, <1>1, LocalFrame DEF tables
<1>2. ASSUME NEW p \in Procs, Commit(p)
      PROVE  Book!Next
  <2> DEFINE v == tx[p].video
             u == UserOf[p]
  <2>0. /\ v \in Videos /\ u \in Users
        /\ total \in [Videos -> Nat]
    BY <1>0, Typing DEF TypeOK
  <2>1. /\ vote' = [vote EXCEPT ![v][u] = tx[p].category]
        /\ total' = [total EXCEPT ![v] = @ + tx[p].total]
    BY <1>0, <1>2, CommitAdjusts DEF Commit
  <2>2. CASE tx[p].category \in Categories
    <3>1. tx[p].total = IF vote[v][u] = NoVote THEN 1 ELSE 0
      BY <1>0, <1>2, <2>2, CommitAdjusts, NoVoteAssumption
    <3>2. total' = IF vote[v][u] = NoVote THEN [total EXCEPT ![v] = @ + 1] ELSE total
      <4>1. CASE vote[v][u] = NoVote
        BY <2>1, <3>1, <4>1
      <4>2. CASE vote[v][u] # NoVote
        <5>1. [total EXCEPT ![v] = @ + 0] = total
          BY <2>0
        <5> QED
          BY <2>1, <3>1, <4>2, <5>1
      <4> QED
        BY <4>1, <4>2
    <3>3. Book!Submit(v, u, tx[p].category)
      BY <2>1, <3>2 DEF Book!Submit
    <3> QED
      BY <2>0, <2>2, <3>3 DEF Book!Next
  <2>3. CASE tx[p].category = NoVote
    <3>1. vote[v][u] # NoVote /\ tx[p].total = -1
      BY <1>0, <1>2, <2>3, CommitAdjusts, NoVoteAssumption
    <3>2. total' = [total EXCEPT ![v] = @ - 1]
      BY <2>0, <2>1, <3>1
    <3>3. Book!Withdraw(v, u)
      BY <2>1, <2>3, <3>1, <3>2 DEF Book!Withdraw
    <3> QED
      BY <2>0, <3>3 DEF Book!Next
  <2> QED
    BY <1>0, <1>2, <2>2, <2>3, CommitAdjusts
<1> QED
  BY <1>1, <1>2, NextCases DEF SerialNext

(***************************************************************************)
(* Refinement: statement by statement, the transactions of both backends   *)
(* implement the book of one vote per user with an exact total, up to the  *)
(* first time a user has two requests in flight at once.                   *)
(***************************************************************************)
THEOREM TransactionsImplementBook == SerialSpec => ImplementsVoteBook
<1>1. SerialInit => Book!Init
  BY DEF SerialInit, Init, Book!Init, Book!Empty
<1>2. SerialInv /\ [SerialNext]_serialVars => [raced' \/ Book!Next]_<<vote, total>>
  <2>1. ASSUME SerialInv, SerialNext
        PROVE  [raced' \/ Book!Next]_<<vote, total>>
    BY <2>1, BookStep
  <2>2. UNCHANGED serialVars => UNCHANGED <<vote, total>>
    BY DEF serialVars, vars
  <2> QED
    BY <2>1, <2>2
<1> QED
  BY <1>1, <1>2, SerialInvariance, PTL DEF SerialSpec, ImplementsVoteBook
=============================================================================
