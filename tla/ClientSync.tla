----------------------------- MODULE ClientSync -----------------------------
(***************************************************************************)
(* The extension's copy of the server's data: delta and full sync, the     *)
(* cache-first lookup CHECK_VIDEOS, and the two server queries behind them.*)
(*                                                                         *)
(* sync.ts, the video, channel and meta stores of cache.ts, CHECK_VIDEOS   *)
(* and SYNC_DELTA of background.ts, sync_svc.go / sync.py, and the         *)
(* NGINX cache of /api/sync/full.  An action runs from one await (of the   *)
(* worker) or statement (of the server) to the next.  The content of an    *)
(* item is the second in which it last changed; Absent is no content.      *)
(***************************************************************************)
EXTENDS Naturals, FiniteSets

CONSTANTS Videos, Channels,
          Published,   \* items whose changes a delta lists: the channels, and
                       \* the videos with rows in sync_cache
          GoServes,    \* Go answers the syncs, as NGINX has it, not Python
          AutoSyncs,   \* runs of autoSync in flight at once
          PopupSyncs,  \* messages SYNC_DELTA in flight at once
          MaxTime,     \* bound on the clock, in seconds
          MaxEvents    \* bound on changes, messages SYNC_DELTA, failed requests and
                       \* restarts, together

Items == Videos \cup Channels
Syncs == AutoSyncs \cup PopupSyncs
Absent == 0

ASSUME ItemsAssumption == Videos \cap Channels = {} /\ Published \subseteq Items
ASSUME GoAssumption == GoServes \in BOOLEAN
ASSUME SyncsAssumption == AutoSyncs \cap PopupSyncs = {}
ASSUME BoundsAssumption == MaxTime \in Nat \ {0} /\ MaxEvents \in Nat

VARIABLES now,       \* the second it is
          at,        \* at[i]: when the server's row of i changed, 0 without row
          flagged,   \* the items with score > 0 that are not hidden
          store,     \* store[i]: what IndexedDB has of i
          lastDelta, lastFull,  \* the store meta, 0 when missing
          dayOver,   \* lastFull is more than FULL_SYNC_INTERVAL_MS ago
          op,        \* op[s]: the sync s, see Op
          lookup,    \* lookup[v]: an API lookup of CHECK_VIDEOS for v
          nginx,     \* the cached answer of /api/sync/full
          leaked,    \* history: a hazard that may hide a change has struck
          events     \* events so far

server == <<now, at, flagged>>
client == <<store, lastDelta, lastFull>>
vars   == <<server, client, dayOver, op, lookup, nginx, leaked, events>>

Stages == {"off", "since", "videos", "channels", "stamp", "clear", "clear channels",
           "put", "put channels", "set full", "set delta"}

Time == 0..MaxTime

(* What an answer says of an item: content, nothing (Absent), to remove    *)
(* it, or that it has changed but not its score.                           *)
Remove   == MaxTime + 1
Unscored == MaxTime + 2
(* late (history): it misses a change that is older than its stamp.        *)
Answer == [rows : [Items -> Time \cup {Remove, Unscored}], stamp : Time, late : BOOLEAN]
Empty  == [rows |-> [i \in Items |-> Absent], stamp |-> 0, late |-> FALSE]

(* alone: no other sync or lookup has been in flight meanwhile. *)
Op  == [stage : Stages, full : BOOLEAN, since : Time, answer : Answer, alone : BOOLEAN]
Off == [stage |-> "off", full |-> FALSE, since |-> 0, answer |-> Empty, alone |-> TRUE]

NoLookup == [stage |-> "off", found |-> Absent]

TypeOK ==
  /\ now \in Time /\ at \in [Items -> Time] /\ flagged \subseteq Items
  /\ store \in [Items -> Time]
  /\ lastDelta \in Time /\ lastFull \in Time
  /\ dayOver \in BOOLEAN /\ leaked \in BOOLEAN
  /\ op \in [Syncs -> Op]
  /\ lookup \in [Videos -> [stage : {"off", "miss", "found"}, found : Time]]
  /\ nginx \in Answer
  /\ events \in 0..MaxEvents
  /\ \A s \in Syncs : op[s].stage \in {"clear", "clear channels", "set full"} => op[s].full

Init ==
  /\ now = 1 /\ at = [i \in Items |-> 0] /\ flagged = {}
  /\ store = [i \in Items |-> Absent]
  /\ lastDelta = 0 /\ lastFull = 0 /\ dayOver = TRUE
  /\ op = [s \in Syncs |-> Off]
  /\ lookup = [v \in Videos |-> NoLookup]
  /\ nginx = Empty
  /\ leaked = FALSE /\ events = 0

-----------------------------------------------------------------------------
(***************************************************************************)
(* Outside: time, and the writers of videos and channels.                  *)
(***************************************************************************)
(* What nothing makes happen is bounded. *)
Event == events < MaxEvents /\ events' = events + 1

Tick ==
  /\ now < MaxTime
  /\ now' = now + 1
  /\ UNCHANGED <<at, flagged, client, dayOver, op, lookup, nginx, leaked, events>>

(* A recalculation or a moderator changes i, at most once in a second. *)
Change(i) ==
  /\ at[i] < now /\ Event
  /\ at' = [at EXCEPT ![i] = now]
  /\ \/ flagged' = flagged \cup {i}
     \/ flagged' = flagged \ {i}
  /\ UNCHANGED <<now, client, dayOver, op, lookup, nginx, leaked>>

DayPasses ==
  /\ ~dayOver
  /\ dayOver' = TRUE
  /\ UNCHANGED <<server, client, op, lookup, nginx, leaked, events>>

-----------------------------------------------------------------------------
(***************************************************************************)
(* performDeltaSync and performFullSync.                                   *)
(***************************************************************************)
Idle == (\A s \in Syncs : op[s].stage = "off")
           /\ (\A v \in Videos : lookup[v].stage = "off")

(* Whatever starts next to something else may overtake it. *)
Starts(s, o) ==
  op' = [r \in Syncs |-> IF r = s THEN [o EXCEPT !.alone = Idle]
                                  ELSE [op[r] EXCEPT !.alone = FALSE]]

Steps(s, stage) == op' = [op EXCEPT ![s].stage = stage]

(* Mutant of NeedsFull: the age of lastFull is not looked at. *)
NeedsFullOnce == lastFull = 0

NeedsFull == lastFull = 0 \/ dayOver

(* autoSync, by the timer of startSyncSchedule. *)
AutoSync(s) ==
  /\ op[s].stage = "off"
  /\ Starts(s, [Off EXCEPT !.full = NeedsFull,
                           !.stage = IF NeedsFull THEN "videos" ELSE "since"])
  /\ UNCHANGED <<server, client, dayOver, lookup, nginx, leaked, events>>

(* The message SYNC_DELTA of the popup. *)
SyncDelta(s) ==
  /\ op[s].stage = "off" /\ Event
  /\ Starts(s, [Off EXCEPT !.stage = "since"])
  /\ UNCHANGED <<server, client, dayOver, lookup, nginx, leaked>>

ReadSince(s) ==
  /\ op[s].stage = "since"
  /\ op' = [op EXCEPT ![s].since = lastDelta, ![s].stage = "videos"]
  /\ UNCHANGED <<server, client, dayOver, lookup, nginx, leaked, events>>

(***************************************************************************)
(* The answer's row of i.  A full sync lists what is flagged; a delta what *)
(* changed since, with "remove" for videos only.  Go leaves a score of 0   *)
(* out of a delta.  The stamps are cut to the second, so a change of the   *)
(* second `since` counts as later.                                         *)
(***************************************************************************)
Row(i, o) ==
  IF o.full THEN IF i \in flagged THEN at[i] ELSE Absent
  ELSE IF i \notin Published \/ at[i] < o.since THEN Absent
  ELSE IF i \in flagged THEN at[i]
  ELSE IF i \in Videos THEN Remove
  ELSE IF GoServes THEN Unscored ELSE at[i]

Query(s, items, stage) ==
  op' = [op EXCEPT ![s].answer.rows =
                      [i \in Items |-> IF i \in items /\ at[i] > 0
                                         THEN Row(i, op[s]) ELSE @[i]],
                   ![s].stage = stage]

QueryVideos(s) ==
  /\ op[s].stage = "videos"
  /\ Query(s, Videos, "channels")
  /\ UNCHANGED <<server, client, dayOver, lookup, nginx, leaked, events>>

QueryChannels(s) ==
  /\ op[s].stage = "channels"
  /\ Query(s, Channels, "stamp")
  /\ UNCHANGED <<server, client, dayOver, lookup, nginx, leaked, events>>

Late(s) == \E i \in Items : /\ 0 < at[i] /\ at[i] < now
                            /\ op[s].answer.rows[i] # Row(i, op[s])

(* Mutant of Stamp: a delta empties the store like a full sync. *)
StampAndClear(s) ==
  /\ op[s].stage = "stamp"
  /\ op' = [op EXCEPT ![s].answer.stamp = now, ![s].answer.late = Late(s),
                      ![s].since = 0, ![s].stage = "clear"]
  /\ nginx' = IF op[s].full THEN op'[s].answer ELSE nginx
  /\ UNCHANGED <<server, client, dayOver, lookup, leaked, events>>

(* syncTimestamp or generatedAt, after the queries. *)
Stamp(s) ==
  /\ op[s].stage = "stamp"
  /\ op' = [op EXCEPT ![s].answer.stamp = now, ![s].answer.late = Late(s),
                      ![s].since = 0,
                      ![s].stage = IF op[s].full THEN "clear" ELSE "put"]
  /\ nginx' = IF op[s].full THEN op'[s].answer ELSE nginx
  /\ UNCHANGED <<server, client, dayOver, lookup, leaked, events>>

(* NGINX answers a full sync from its cache. *)
CachedAnswer(s) ==
  /\ op[s].stage = "videos" /\ op[s].full
  /\ nginx # Empty
  /\ op' = [op EXCEPT ![s].answer = nginx, ![s].stage = "clear"]
  /\ UNCHANGED <<server, client, dayOver, lookup, nginx, leaked, events>>

NginxExpires ==
  /\ nginx # Empty
  /\ nginx' = Empty
  /\ UNCHANGED <<server, client, dayOver, op, lookup, leaked, events>>


(* 429, another status or no connection after the retries: nothing is written. *)
SyncFails(s) ==
  /\ op[s].stage \in {"videos", "channels", "stamp"}
  /\ Event
  /\ op' = [op EXCEPT ![s] = Off]
  /\ UNCHANGED <<server, client, dayOver, lookup, nginx, leaked>>

Clear(s) ==
  /\ op[s].stage = "clear"
  /\ store' = [i \in Items |-> IF i \in Videos THEN Absent ELSE store[i]]
  /\ Steps(s, "clear channels")
  /\ UNCHANGED <<server, lastDelta, lastFull, dayOver, lookup, nginx, leaked, events>>

ClearChannels(s) ==
  /\ op[s].stage = "clear channels"
  /\ store' = [i \in Items |-> IF i \in Channels THEN Absent ELSE store[i]]
  /\ Steps(s, "put")
  /\ UNCHANGED <<server, lastDelta, lastFull, dayOver, lookup, nginx, leaked, events>>

(* Mutant of DeleteVideo: "remove" is skipped like a row without a score. *)
SkipRemoved(s) ==
  \E v \in Videos :
    /\ op[s].stage = "put" /\ op[s].answer.rows[v] = Remove
    /\ op' = [op EXCEPT ![s].answer.rows[v] = Absent]
    /\ UNCHANGED <<server, client, dayOver, lookup, nginx, leaked, events>>

(* deleteVideo, one transaction for each row. *)
DeleteVideo(s) ==
  \E v \in Videos :
    /\ op[s].stage = "put" /\ op[s].answer.rows[v] = Remove
    /\ store' = [store EXCEPT ![v] = Absent]
    /\ op' = [op EXCEPT ![s].answer.rows[v] = Absent]
    /\ UNCHANGED <<server, lastDelta, lastFull, dayOver, lookup, nginx, leaked, events>>

(* One transaction for the rows with a score; they are then done with. *)
Put(s, items, stage) ==
  /\ store' = [i \in Items |-> IF i \in items /\ op[s].answer.rows[i] \notin {Absent, Unscored}
                                 THEN op[s].answer.rows[i] ELSE store[i]]
  /\ op' = [op EXCEPT ![s].stage = stage,
                      ![s].answer.rows = [i \in Items |-> IF i \in items THEN Absent ELSE @[i]]]

PutVideos(s) ==
  /\ op[s].stage = "put"
  /\ \A v \in Videos : op[s].answer.rows[v] # Remove
  /\ Put(s, Videos, "put channels")
  /\ UNCHANGED <<server, lastDelta, lastFull, dayOver, lookup, nginx, leaked, events>>

PutChannels(s) ==
  /\ op[s].stage = "put channels"
  /\ Put(s, Channels, IF op[s].full THEN "set full" ELSE "set delta")
  /\ UNCHANGED <<server, lastDelta, lastFull, dayOver, lookup, nginx, leaked, events>>

SetLastFull(s) ==
  /\ op[s].stage = "set full"
  /\ lastFull' = op[s].answer.stamp
  /\ dayOver' = FALSE
  /\ Steps(s, "set delta")
  /\ UNCHANGED <<server, store, lastDelta, lookup, nginx, leaked, events>>

(* A rebuild that ran alone makes up for what was lost before. *)
LeakedBy(s) == ~op[s].alone \/ op[s].answer.late \/ (leaked /\ ~op[s].full)

SetLastDelta(s) ==
  /\ op[s].stage = "set delta"
  /\ lastDelta' = op[s].answer.stamp
  /\ op' = [op EXCEPT ![s] = Off]
  /\ leaked' = LeakedBy(s)
  /\ UNCHANGED <<server, store, lastFull, dayOver, lookup, nginx, events>>

-----------------------------------------------------------------------------
(***************************************************************************)
(* CHECK_VIDEOS: what the store has is not asked for.                      *)
(***************************************************************************)
CheckVideo(v) ==
  /\ lookup[v].stage = "off"
  /\ store[v] = Absent
  /\ lookup' = [lookup EXCEPT ![v].stage = "miss"]
  /\ op' = [s \in Syncs |-> [op[s] EXCEPT !.alone = FALSE]]
  /\ UNCHANGED <<server, client, dayOver, nginx, leaked, events>>

LookupVideo(v) ==
  /\ lookup[v].stage = "miss"
  /\ lookup' = [lookup EXCEPT ![v] = IF at[v] = 0 THEN NoLookup
                                     ELSE [stage |-> "found", found |-> at[v]]]
  /\ UNCHANGED <<server, client, dayOver, op, nginx, leaked, events>>

LookupFails(v) ==
  /\ lookup[v].stage = "miss"
  /\ Event
  /\ lookup' = [lookup EXCEPT ![v] = NoLookup]
  /\ UNCHANGED <<server, client, dayOver, op, nginx, leaked>>

PutVideo(v) ==
  /\ lookup[v].stage = "found"
  /\ store' = [store EXCEPT ![v] = lookup[v].found]
  /\ lookup' = [lookup EXCEPT ![v] = NoLookup]
  /\ UNCHANGED <<server, lastDelta, lastFull, dayOver, op, nginx, leaked, events>>

-----------------------------------------------------------------------------
Rebuilds(s) == op[s].full /\ op[s].stage \in
                 {"clear channels", "put", "put channels", "set full", "set delta"}

Rebuilding == \E s \in Syncs : Rebuilds(s)

(* The browser ends the worker, which starts again with its timers. *)
Restart ==
  /\ ~Idle /\ Event
  /\ op' = [s \in Syncs |-> Off]
  /\ lookup' = [v \in Videos |-> NoLookup]
  /\ leaked' = (leaked \/ Rebuilding)
  /\ UNCHANGED <<server, client, dayOver, nginx>>

Sync(s) ==
  \/ ReadSince(s) \/ QueryVideos(s) \/ QueryChannels(s) \/ Stamp(s) \/ CachedAnswer(s)
  \/ Clear(s) \/ ClearChannels(s) \/ DeleteVideo(s) \/ PutVideos(s) \/ PutChannels(s)
  \/ SetLastFull(s) \/ SetLastDelta(s)

Next == \/ Tick \/ DayPasses \/ NginxExpires \/ Restart
        \/ \E i \in Items : Change(i)
        \/ \E s \in Syncs : Sync(s) \/ SyncFails(s)
        \/ \E s \in AutoSyncs : AutoSync(s)
        \/ \E s \in PopupSyncs : SyncDelta(s)
        \/ \E v \in Videos : \/ CheckVideo(v) \/ LookupVideo(v)
                             \/ LookupFails(v) \/ PutVideo(v)

Spec == Init /\ [][Next]_vars

(***************************************************************************)
(* Requests are answered and transactions commit, so that every sync and   *)
(* lookup ends; the timer of autoSync fires again and again, days pass and *)
(* NGINX lets its answers expire.                                          *)
(***************************************************************************)
FairSpec == /\ Spec
            /\ \A s \in Syncs : []<>(op[s].stage = "off")
            /\ \A v \in Videos : []<>(lookup[v].stage = "off")
            /\ \A s \in AutoSyncs : WF_vars(AutoSync(s))
            /\ WF_vars(DayPasses) /\ WF_vars(NginxExpires)

-----------------------------------------------------------------------------
(* What the store should have: an item without a flag may be missing. *)
Current(i) == store[i] = at[i] \/ (i \notin flagged /\ store[i] = Absent)

(* The stored timestamp that vouches for i. *)
VouchedUntil(i) == IF i \in Published THEN lastDelta ELSE lastFull

(***************************************************************************)
(* A channel whose score fell to 0: Go's delta lists it without a score,   *)
(* performDeltaSync skips it and stores the stamp all the same, so that    *)
(* the old score stays until a rebuild.                                    *)
(***************************************************************************)
Skipped(i) == GoServes /\ i \in Channels \ flagged

(***************************************************************************)
(* The timestamps run ahead of the store for skipped channels only: any    *)
(* other change older than the stamp that vouches for it is stored, so     *)
(* that no later delta needs to list it again.  This survives failed       *)
(* requests, answers from NGINX's cache and a worker that ends during a    *)
(* delta; it does not survive a change between query and stamp,            *)
(* overlapping syncs and lookups, or a worker that ends during a rebuild,  *)
(* and holds again after the next undisturbed rebuild (performDeltaSync,   *)
(* performFullSync).                                                       *)
(***************************************************************************)
StampVouches ==
  leaked \/ Rebuilding \/ \A i \in Items :
    0 < at[i] /\ at[i] < VouchedUntil(i) => Current(i) \/ Skipped(i)

(***************************************************************************)
(* Once the server's data no longer changes, the store agrees with it for  *)
(* good, except while it is rebuilt: the full refresh "every 24 hours"     *)
(* repairs whatever a delta skipped and a delta or a lookup got wrong.     *)
(***************************************************************************)
StoreConverges == <>[](Rebuilding \/ \A i \in Items : Current(i))
=============================================================================
