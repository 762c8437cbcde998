----------------------------- MODULE CacheAside -----------------------------
(***************************************************************************)
(* One Redis key in front of PostgreSQL: lookups that fill it on a miss,   *)
(* and writers that commit first and delete the key afterwards.            *)
(*                                                                         *)
(* cache_svc.go, video_svc.go, channel_svc.go and their Python twins.      *)
(* What a commit changes is a new version of the two tables a lookup reads *)
(* (videos and video_categories), which it reads one after the other.      *)
(***************************************************************************)
EXTENDS Integers

CONSTANTS Readers,       \* lookups in flight
          Writers,       \* vote requests, score workers, channel workers
          SilentWriters, \* those that never delete the key
          MaxVersion,    \* bound on commits
          MaxFaults      \* bound on failed calls

ASSUME WritersAssumption == SilentWriters \subseteq Writers
ASSUME BoundsAssumption  == MaxVersion \in Nat \ {0} /\ MaxFaults \in Nat

VARIABLES version,       \* version of what PostgreSQL has committed
          redis,         \* the cached answer, or Nothing
          lookup,        \* lookup[r]: what lookup r does next and has read
          due,           \* writers that have committed and not yet deleted
          leaked,        \* history: the key may hold an answer nobody deletes
          faults         \* failed calls so far

vars == <<version, redis, lookup, due, leaked, faults>>

Answer  == [row : 1..MaxVersion, categories : 1..MaxVersion]
Nothing == [row |-> 0, categories |-> 0]
Fresh   == [row |-> version, categories |-> version]

Idle == [stage |-> "idle", row |-> 0, categories |-> 0]

Found(r) == [row |-> lookup[r].row, categories |-> lookup[r].categories]

TypeOK ==
  /\ version \in 1..MaxVersion
  /\ redis \in Answer \cup {Nothing}
  /\ lookup \in [Readers -> [stage : {"idle", "row", "categories", "set"},
                             row : 0..MaxVersion, categories : 0..MaxVersion]]
  /\ due \subseteq Writers \ SilentWriters
  /\ leaked \in BOOLEAN
  /\ faults \in 0..MaxFaults
  /\ \A r \in Readers : lookup[r].stage = "set" =>
       Found(r) \in Answer /\ Found(r).row <= Found(r).categories

Init == /\ version = 1
        /\ redis = Nothing
        /\ lookup = [r \in Readers |-> Idle]
        /\ due = {}
        /\ leaked = FALSE
        /\ faults = 0

Stale(answer) == answer # Nothing /\ answer # Fresh

(* A commit came after lookup r's first read. *)
Overtaken(r) == lookup[r].row < version

-----------------------------------------------------------------------------
(* GetVideo, GetChannel: a hit is the answer, so only a miss goes on. *)
Miss(r) ==
  /\ lookup[r] = Idle
  /\ redis = Nothing
  /\ lookup' = [lookup EXCEPT ![r].stage = "row"]
  /\ UNCHANGED <<version, redis, due, leaked, faults>>

(* An error of Redis counts as a miss. *)
GetFails(r) ==
  /\ lookup[r] = Idle
  /\ redis # Nothing
  /\ faults < MaxFaults /\ faults' = faults + 1
  /\ lookup' = [lookup EXCEPT ![r].stage = "row"]
  /\ UNCHANGED <<version, redis, due, leaked>>

(* FindByVideoID *)
ReadRow(r) ==
  /\ lookup[r].stage = "row"
  /\ lookup' = [lookup EXCEPT ![r] = [@ EXCEPT !.stage = "categories", !.row = version]]
  /\ UNCHANGED <<version, redis, due, leaked, faults>>

(* GetCategories: another query, in no transaction with the first. *)
ReadCategories(r) ==
  /\ lookup[r].stage = "categories"
  /\ lookup' = [lookup EXCEPT ![r] = [@ EXCEPT !.stage = "set", !.categories = version]]
  /\ UNCHANGED <<version, redis, due, leaked, faults>>

(* A query fails, or finds no visible row: nothing is stored. *)
ReadFails(r) ==
  /\ lookup[r].stage \in {"row", "categories"}
  /\ faults < MaxFaults /\ faults' = faults + 1
  /\ lookup' = [lookup EXCEPT ![r] = Idle]
  /\ UNCHANGED <<version, redis, due, leaked>>

(***************************************************************************)
(* SetVideo, SetChannel: whatever has been committed and deleted since the *)
(* reads.  An answer no commit has overtaken makes good what leaked.        *)
(***************************************************************************)
Set(r) ==
  /\ lookup[r].stage = "set"
  /\ redis' = Found(r)
  /\ leaked' = Overtaken(r)
  /\ lookup' = [lookup EXCEPT ![r] = Idle]
  /\ UNCHANGED <<version, due, faults>>

SetFails(r) ==
  /\ lookup[r].stage = "set"
  /\ faults < MaxFaults /\ faults' = faults + 1
  /\ lookup' = [lookup EXCEPT ![r] = Idle]
  /\ UNCHANGED <<version, redis, due, leaked>>

-----------------------------------------------------------------------------
(* Mutant of Commit: a vote path that leaves the key to expire. *)
CommitAlone(w) ==
  /\ version < MaxVersion /\ version' = version + 1
  /\ w \notin due
  /\ leaked' = (leaked \/ (w \in SilentWriters /\ redis # Nothing))
  /\ UNCHANGED <<redis, lookup, due, faults>>

(***************************************************************************)
(* A vote, a recalculation or a channel update commits.  The channel       *)
(* workers stop here: they call neither InvalidateVideo for the videos     *)
(* they re-score nor InvalidateChannel.                                    *)
(***************************************************************************)
Commit(w) ==
  /\ version < MaxVersion /\ version' = version + 1
  /\ w \notin due
  /\ due' = due \cup ({w} \ SilentWriters)
  /\ leaked' = (leaked \/ (w \in SilentWriters /\ redis # Nothing))
  /\ UNCHANGED <<redis, lookup, faults>>

(* InvalidateVideo, after the commit and in no transaction with it. *)
Invalidate(w) ==
  /\ w \in due /\ due' = due \ {w}
  /\ redis' = Nothing
  /\ leaked' = FALSE
  /\ UNCHANGED <<version, lookup, faults>>

(* Redis refuses, or the process stops between the commit and the delete. *)
InvalidateFails(w) ==
  /\ w \in due /\ due' = due \ {w}
  /\ faults < MaxFaults /\ faults' = faults + 1
  /\ leaked' = (leaked \/ redis # Nothing)
  /\ UNCHANGED <<version, redis, lookup>>

(* Mutant of Expire: the key is stored without a time to live. *)
NeverExpires == redis # Nothing /\ FALSE /\ UNCHANGED vars

(* VideoCacheTTL, ChannelCacheTTL: every Set gives the key one. *)
Expire ==
  /\ redis # Nothing
  /\ redis' = Nothing
  /\ leaked' = FALSE
  /\ UNCHANGED <<version, lookup, due, faults>>

Lookup(r) == \/ Miss(r) \/ GetFails(r)
             \/ ReadRow(r) \/ ReadCategories(r) \/ ReadFails(r)
             \/ Set(r) \/ SetFails(r)

Write(w) == Commit(w) \/ Invalidate(w) \/ InvalidateFails(w)

Next == \/ \E r \in Readers : Lookup(r)
        \/ \E w \in Writers : Write(w)
        \/ Expire

Spec == Init /\ [][Next]_vars

(***************************************************************************)
(* A lookup that has begun answers its client, a request that has          *)
(* committed gets to its delete, and Redis expires what it was told to.    *)
(* Nothing obliges a client to look anything up or to vote.                *)
(***************************************************************************)
FairSpec ==
  /\ Spec
  /\ \A r \in Readers : WF_vars(ReadRow(r) \/ ReadCategories(r) \/ Set(r))
  /\ \A w \in Writers : WF_vars(Invalidate(w))
  /\ WF_vars(Expire)

-----------------------------------------------------------------------------
(***************************************************************************)
(* An out-of-date answer under the key has a cause: a writer that is still *)
(* on its way to delete it, or one of the three leaks (a failed delete, a  *)
(* writer that never deletes, a lookup that stored what it read before a   *)
(* commit).  Whatever order lookups and writers take, there is no fourth.  *)
(***************************************************************************)
StaleOnlyByLeak == Stale(redis) => leaked \/ due # {}

(***************************************************************************)
(* Once commits stop, what the key holds is what PostgreSQL holds, however *)
(* it leaked: the time to live of SetVideo and SetChannel is the one       *)
(* repair that always works.                                               *)
(***************************************************************************)
CacheSettles == <>[]~Stale(redis)
=============================================================================
