----------------------------- MODULE CacheProofs ----------------------------
(***************************************************************************)
(* Proofs about the two caches of the servers' answers.                    *)
(*                                                                         *)
(* ClientSync, the extension's copy.  A stamp vouches for what is older    *)
(* than it.  That is kept because a delta that is alone asks from the      *)
(* stored stamp, so that its answer and the store have everything older    *)
(* than the answer's stamp, and a rebuild that is alone stores what its    *)
(* answer lists; a sync that was not alone leaks when it stores its stamp. *)
(*                                                                         *)
(* CacheAside (K), the key in Redis, for any number of lookups, writers,   *)
(* commits and faults.  K is an instance of its module; the two have no    *)
(* steps together.                                                         *)
(***************************************************************************)
EXTENDS ClientSync, TLAPS

(* Of CacheAside, which has lookup and leaked too. *)
CONSTANTS Readers, Writers, SilentWriters, MaxVersion, MaxFaults
VARIABLES version, redis, due, faults

K == INSTANCE CacheAside

-----------------------------------------------------------------------------
Rows == [Items -> Time \cup {Remove, Unscored}]

(* The fields of the sync s after a step that leaves the others alone. *)
Becomes(s, stage, since, rows, stamp, late) ==
  /\ op' \in [Syncs -> Op]
  /\ \A r \in Syncs \ {s} : op'[r] = op[r]
  /\ op'[s].stage = stage /\ op'[s].full = op[s].full /\ op'[s].alone = op[s].alone
  /\ op'[s].since = since
  /\ op'[s].answer.rows = rows /\ op'[s].answer.stamp = stamp /\ op'[s].answer.late = late

(* The fields of a sync have their types. *)
LEMMA OpFields ==
  ASSUME TypeOK, NEW s \in Syncs
  PROVE  /\ op[s] \in Op /\ op[s].stage \in Stages
         /\ op[s].full \in BOOLEAN /\ op[s].alone \in BOOLEAN
         /\ op[s].since \in Time /\ op[s].answer \in Answer /\ op[s].answer.rows \in Rows
         /\ op[s].answer.stamp \in Time /\ op[s].answer.late \in BOOLEAN
BY DEF TypeOK, Op, Answer, Rows

(* A step that changes the stage, ... *)
LEMMA BecomesStage ==
  ASSUME TypeOK, NEW s \in Syncs, NEW stage \in Stages, op' = [op EXCEPT ![s].stage = stage]
  PROVE  Becomes(s, stage, op[s].since, op[s].answer.rows, op[s].answer.stamp, op[s].answer.late)
BY DEF TypeOK, Op, Answer, Becomes

(* ... the rows of the answer, too, ... *)
LEMMA BecomesRows ==
  ASSUME TypeOK, NEW s \in Syncs, NEW stage \in Stages, NEW rows \in Rows,
         op' = [op EXCEPT ![s].answer.rows = rows, ![s].stage = stage]
  PROVE  Becomes(s, stage, op[s].since, rows, op[s].answer.stamp, op[s].answer.late)
<1> DEFINE answer == [op[s].answer EXCEPT !.rows = rows]
           new == [op[s] EXCEPT !.answer = answer, !.stage = stage]
<1>1. /\ answer \in Answer /\ answer.rows = rows
      /\ answer.stamp = op[s].answer.stamp /\ answer.late = op[s].answer.late
  BY OpFields DEF Answer, Rows
<1>2. op' = [op EXCEPT ![s] = new]
  OBVIOUS
<1>3. /\ new \in Op /\ new.stage = stage /\ new.full = op[s].full /\ new.alone = op[s].alone
      /\ new.since = op[s].since /\ new.answer = answer
  <2> HIDE DEF answer
  <2> QED BY <1>1, OpFields DEF Op
<1> HIDE DEF answer, new
<1>4. op \in [Syncs -> Op]
  BY DEF TypeOK
<1>5. op' \in [Syncs -> Op] /\ op'[s] = new /\ \A r \in Syncs \ {s} : op'[r] = op[r]
  BY ONLY <1>2, <1>3, <1>4, s \in Syncs
<1> QED BY ONLY <1>1, <1>3, <1>5 DEF Becomes

(* ... or its stamp. *)
LEMMA BecomesStamped ==
  ASSUME TypeOK, NEW s \in Syncs, NEW stage \in Stages, NEW stamp \in Time, NEW late \in BOOLEAN,
         op' = [op EXCEPT ![s].answer.stamp = stamp, ![s].answer.late = late,
                          ![s].since = 0, ![s].stage = stage]
  PROVE  Becomes(s, stage, 0, op[s].answer.rows, stamp, late)
<1>1. 0 \in Time
  BY BoundsAssumption DEF Time
<1> DEFINE answer == [op[s].answer EXCEPT !.stamp = stamp, !.late = late]
           new == [op[s] EXCEPT !.answer = answer, !.since = 0, !.stage = stage]
<1>2. answer \in Answer /\ answer.rows = op[s].answer.rows
                        /\ answer.stamp = stamp /\ answer.late = late
  BY OpFields DEF Answer
<1>3. op' = [op EXCEPT ![s] = new]
  OBVIOUS
<1>4. /\ new \in Op /\ new.stage = stage /\ new.full = op[s].full /\ new.alone = op[s].alone
      /\ new.since = 0 /\ new.answer = answer
  <2> HIDE DEF answer
  <2> QED BY <1>1, <1>2, OpFields DEF Op
<1> HIDE DEF answer, new
<1>5. op \in [Syncs -> Op]
  BY DEF TypeOK
<1>6. op' \in [Syncs -> Op] /\ op'[s] = new /\ \A r \in Syncs \ {s} : op'[r] = op[r]
  BY ONLY <1>3, <1>4, <1>5, s \in Syncs
<1> QED BY ONLY <1>2, <1>4, <1>6 DEF Becomes

-----------------------------------------------------------------------------
(* A row that may be stored, for the type of a delta's and a rebuild's rows. *)
NoRemoveOfChannels ==
  \A c \in Channels : /\ nginx.rows[c] # Remove
                      /\ \A s \in Syncs : op[s].answer.rows[c] # Remove

TimeFacts == /\ 0 \in Time /\ Absent \in Time /\ now \in Time
             /\ Remove \notin Time /\ Unscored \notin Time /\ Remove # Unscored

(* Stamps and what an answer may say of a row are told apart. *)
LEMMA TimeIs == ASSUME TypeOK PROVE TimeFacts
<1>1. now \in Time
  BY DEF TypeOK
<1>2. MaxTime \in Nat
  BY BoundsAssumption
<1> QED BY <1>1, <1>2 DEF TimeFacts, Time, Remove, Unscored, Absent

(* What is off holds nothing. *)
LEMMA EmptyTypes == Off \in Op /\ Empty \in Answer /\ Empty.rows = [i \in Items |-> Absent]
                    /\ Off.answer = Empty /\ Off.stage = "off" /\ ~Off.full
BY BoundsAssumption DEF Off, Op, Empty, Answer, Time, Stages, Absent, Remove, Unscored

(* A row of an answer is a stamp or says what to do. *)
LEMMA RowType ==
  ASSUME TypeOK, NEW s \in Syncs, NEW i \in Items
  PROVE  /\ Row(i, op[s]) \in Time \cup {Remove, Unscored}
         /\ i \in Channels => Row(i, op[s]) # Remove
<1>1. at[i] \in Time
  BY DEF TypeOK
<1>2. i \in Channels => i \notin Videos
  BY ItemsAssumption
<1> QED BY <1>1, <1>2, TimeIs DEF Row, TimeFacts

Queried(s, items) == [i \in Items |-> IF i \in items /\ at[i] > 0
                                         THEN Row(i, op[s]) ELSE op[s].answer.rows[i]]
Emptied(s, items) == [i \in Items |-> IF i \in items THEN Absent ELSE op[s].answer.rows[i]]

(* A query fills the rows of its items, ... *)
LEMMA QueryStep ==
  ASSUME TypeOK, NEW s \in Syncs, NEW items \in SUBSET Items, NEW stage \in Stages,
         Query(s, items, stage)
  PROVE  /\ Queried(s, items) \in Rows
         /\ Becomes(s, stage, op[s].since, Queried(s, items), op[s].answer.stamp, op[s].answer.late)
<1>1. op[s].answer.rows \in Rows
  BY OpFields
<1>2. Queried(s, items) \in Rows
  BY <1>1, RowType DEF Queried, Rows
<1>3. op' = [op EXCEPT ![s].answer.rows = Queried(s, items), ![s].stage = stage]
  BY ZenonT(60) DEF Query, Queried, TypeOK
<1> QED BY <1>2, <1>3, BecomesRows

(* ... a put writes and drops them, ... *)
LEMMA PutStep ==
  ASSUME TypeOK, NEW s \in Syncs, NEW items \in SUBSET Items, NEW stage \in Stages,
         Put(s, items, stage)
  PROVE  Becomes(s, stage, op[s].since, Emptied(s, items), op[s].answer.stamp, op[s].answer.late)
<1>1. op[s].answer.rows \in Rows
  BY OpFields
<1>2. Emptied(s, items) \in Rows
  BY <1>1, TimeIs DEF Emptied, Rows, TimeFacts
<1>3. op' = [op EXCEPT ![s].answer.rows = Emptied(s, items), ![s].stage = stage]
  BY ZenonT(60) DEF Put, Emptied, TypeOK
<1> QED BY <1>2, <1>3, BecomesRows

(* ... a removal drops one, ... *)
LEMMA DeleteStep ==
  ASSUME TypeOK, NEW s \in Syncs, NEW v \in Videos,
         op' = [op EXCEPT ![s].answer.rows[v] = Absent]
  PROVE  Becomes(s, op[s].stage, op[s].since, [op[s].answer.rows EXCEPT ![v] = Absent],
                 op[s].answer.stamp, op[s].answer.late)
<1> DEFINE rows == [op[s].answer.rows EXCEPT ![v] = Absent]
<1>1. rows \in Rows
  BY OpFields, TimeIs DEF Rows, TimeFacts
<1>2. op' = [op EXCEPT ![s].answer.rows = rows, ![s].stage = op[s].stage]
  BY DEF TypeOK, Op
<1>3. op[s].stage \in Stages
  BY OpFields
<1> QED BY <1>1, <1>2, <1>3, BecomesRows

(* ... nginx gives all at once, ... *)
LEMMA CachedStep ==
  ASSUME TypeOK, NEW s \in Syncs, op' = [op EXCEPT ![s].answer = nginx, ![s].stage = "clear"]
  PROVE  Becomes(s, "clear", op[s].since, nginx.rows, nginx.stamp, nginx.late)
<1>1. nginx \in Answer /\ op \in [Syncs -> Op]
  BY DEF TypeOK
<1> DEFINE new == [op[s] EXCEPT !.answer = nginx, !.stage = "clear"]
<1>2. new \in Op /\ new.stage = "clear" /\ new.full = op[s].full /\ new.alone = op[s].alone
      /\ new.since = op[s].since /\ new.answer = nginx
  BY <1>1, OpFields DEF Op, Stages
<1>3. op' = [op EXCEPT ![s] = new]
  OBVIOUS
<1> HIDE DEF new
<1>4. op' \in [Syncs -> Op] /\ op'[s] = new /\ \A r \in Syncs \ {s} : op'[r] = op[r]
  BY <1>1, <1>2, <1>3
<1> QED BY <1>2, <1>4 DEF Becomes

(* ... and the end drops everything. *)
LEMMA EndStep ==
  ASSUME TypeOK, NEW s \in Syncs, op' = [op EXCEPT ![s] = Off]
  PROVE  op' \in [Syncs -> Op] /\ op'[s] = Off /\ \A r \in Syncs \ {s} : op'[r] = op[r]
BY EmptyTypes DEF TypeOK

(* The others stay as they are but are alone no more. *)
Joined == \A r \in Syncs : /\ op'[r].stage = op[r].stage /\ op'[r].full = op[r].full
                           /\ op'[r].since = op[r].since /\ op'[r].answer = op[r].answer
                           /\ ~op'[r].alone

(* A lookup or change next to the syncs. *)
LEMMA JoinStep ==
  ASSUME TypeOK, op' = [s \in Syncs |-> [op[s] EXCEPT !.alone = FALSE]]
  PROVE  op' \in [Syncs -> Op] /\ Joined
BY DEF TypeOK, Op, Joined

-----------------------------------------------------------------------------
(* A new sync is alone if nothing else was in flight; the others are so no more. *)
StartedAs(s, stage, full) ==
  /\ op' \in [Syncs -> Op]
  /\ op'[s].stage = stage /\ op'[s].full = full /\ op'[s].alone = Idle
  /\ op'[s].answer = Empty
  /\ \A r \in Syncs \ {s} :
       /\ op'[r].stage = op[r].stage /\ op'[r].full = op[r].full
       /\ op'[r].since = op[r].since /\ op'[r].answer = op[r].answer
       /\ ~op'[r].alone

(* A sync starts. *)
LEMMA StartStep ==
  ASSUME TypeOK, NEW s \in Syncs, NEW o \in Op, o.answer = Empty, Starts(s, o)
  PROVE  StartedAs(s, o.stage, o.full)
<1>1. Idle \in BOOLEAN
  BY DEF Idle
<1> DEFINE new == [o EXCEPT !.alone = Idle]
<1>2. new \in Op /\ new.stage = o.stage /\ new.full = o.full /\ new.alone = Idle
      /\ new.answer = Empty
  BY <1>1 DEF Op
<1>3. op' = [r \in Syncs |-> IF r = s THEN new ELSE [op[r] EXCEPT !.alone = FALSE]]
  BY DEF Starts
<1> HIDE DEF new
<1> QED BY <1>2, <1>3 DEF TypeOK, Op, StartedAs

(* Its fields, and those of the others. *)
LEMMA Started ==
  ASSUME TypeOK, NEW s \in Syncs, AutoSync(s) \/ SyncDelta(s)
  PROVE  /\ op[s].stage = "off"
         /\ \E stage \in {"videos", "since"} : \E full \in BOOLEAN :
              StartedAs(s, stage, full) /\ (stage = "videos" => full)
<1>1. CASE AutoSync(s)
  <2> DEFINE o == [Off EXCEPT !.full = NeedsFull,
                              !.stage = IF NeedsFull THEN "videos" ELSE "since"]
  <2>1. NeedsFull \in BOOLEAN
    BY DEF NeedsFull
  <2>2. /\ o \in Op /\ o.full = NeedsFull /\ o.answer = Empty
        /\ o.stage = IF NeedsFull THEN "videos" ELSE "since"
    BY <2>1, EmptyTypes DEF Off, Op, Stages
  <2>3. Starts(s, o)
    BY <1>1 DEF AutoSync
  <2> HIDE DEF o
  <2>4. StartedAs(s, o.stage, o.full)
    BY <2>2, <2>3, StartStep
  <2> QED BY <1>1, <2>1, <2>2, <2>4 DEF AutoSync
<1>2. CASE SyncDelta(s)
  <2> DEFINE o == [Off EXCEPT !.stage = "since"]
  <2>1. o \in Op /\ o.full = FALSE /\ o.answer = Empty /\ o.stage = "since"
    BY EmptyTypes DEF Off, Op, Stages
  <2>2. Starts(s, o)
    BY <1>2 DEF SyncDelta
  <2> HIDE DEF o
  <2>3. StartedAs(s, "since", FALSE)
    BY <2>1, <2>2, StartStep
  <2> QED BY <1>2, <2>3 DEF SyncDelta
<1> QED BY <1>1, <1>2

(* TypeOK, in the parts that the actions disturb. *)
ServerTypes == now \in Time /\ at \in [Items -> Time] /\ flagged \subseteq Items
StoreTypes  == /\ store \in [Items -> Time] /\ lastDelta \in Time /\ lastFull \in Time
               /\ dayOver \in BOOLEAN /\ leaked \in BOOLEAN
OpTypes     == /\ op \in [Syncs -> Op] /\ nginx \in Answer
               /\ \A s \in Syncs : op[s].stage \in {"clear", "clear channels", "set full"}
                                     => op[s].full
LookupTypes == /\ lookup \in [Videos -> [stage : {"off", "miss", "found"}, found : Time]]
               /\ events \in 0..MaxEvents

(* TypeOK by what it is about. *)
LEMMA TypeParts == TypeOK <=> ServerTypes /\ StoreTypes /\ OpTypes /\ LookupTypes
BY DEF TypeOK, ServerTypes, StoreTypes, OpTypes, LookupTypes

(* The actions. *)
LEMMA ActionCases ==
  ASSUME Next
  PROVE  \/ Tick \/ DayPasses \/ NginxExpires \/ Restart
         \/ \E i \in Items : Change(i)
         \/ \E s \in Syncs :
              \/ ReadSince(s) \/ QueryVideos(s) \/ QueryChannels(s) \/ Stamp(s)
              \/ CachedAnswer(s) \/ Clear(s) \/ ClearChannels(s) \/ DeleteVideo(s)
              \/ PutVideos(s) \/ PutChannels(s) \/ SetLastFull(s) \/ SetLastDelta(s)
              \/ SyncFails(s) \/ AutoSync(s) \/ SyncDelta(s)
         \/ \E v \in Videos : CheckVideo(v) \/ LookupVideo(v) \/ LookupFails(v) \/ PutVideo(v)
BY DEF Next, Sync, Syncs

(* Types: the servers. *)
LEMMA ServerTypesKept ==
  ASSUME TypeOK, [Next]_vars PROVE ServerTypes'
<1> USE DEF TypeOK, ServerTypes
<1>1. CASE UNCHANGED server
  BY <1>1 DEF server
<1>2. CASE Tick
  <2>1. now \in 0..MaxTime /\ MaxTime \in Nat /\ now < MaxTime /\ now' = now + 1
    BY <1>2, BoundsAssumption DEF Tick, Time
  <2>2. now' \in Time
    BY ONLY <2>1 DEF Time
  <2> QED BY <1>2, <2>2 DEF Tick
<1>3. ASSUME NEW i \in Items, Change(i) PROVE ServerTypes'
  BY <1>3 DEF Change
<1>4. Next => Tick \/ UNCHANGED server \/ \E i \in Items : Change(i)
  BY Zenon, ActionCases DEF DayPasses, NginxExpires, Restart, ReadSince, QueryVideos,
                            QueryChannels,
       Stamp, CachedAnswer, Clear, ClearChannels, DeleteVideo, PutVideos, PutChannels, SetLastFull,
       SetLastDelta, SyncFails, AutoSync, SyncDelta, CheckVideo, LookupVideo, LookupFails, PutVideo
<1> QED BY <1>1, <1>2, <1>3, <1>4 DEF vars

(* Types: the store of the extension. *)
LEMMA StoreTypesKept ==
  ASSUME TypeOK, NoRemoveOfChannels, [Next]_vars PROVE StoreTypes'
<1> USE DEF StoreTypes
<1>1. StoreTypes /\ TimeFacts
  BY TypeParts, TimeIs
<1>2. ASSUME NEW s \in Syncs, SetLastFull(s) PROVE StoreTypes'
  BY <1>1, <1>2, OpFields DEF SetLastFull
<1>3. ASSUME NEW s \in Syncs, SetLastDelta(s) PROVE StoreTypes'
  <2>1. LeakedBy(s) \in BOOLEAN
    BY DEF LeakedBy
  <2> QED BY <1>1, <1>3, <2>1, OpFields DEF SetLastDelta
<1>4. CASE Restart
  BY <1>1, <1>4 DEF Restart, Rebuilding, client
<1>5. ASSUME NEW s \in Syncs, Clear(s) \/ ClearChannels(s) \/ DeleteVideo(s) PROVE StoreTypes'
  BY <1>1, <1>5 DEF Clear, ClearChannels, DeleteVideo, TimeFacts
<1>6. ASSUME NEW s \in Syncs, PutVideos(s) \/ PutChannels(s) PROVE StoreTypes'
  <2>1. PICK items \in {Videos, Channels} :
          /\ \A i \in items : op[s].answer.rows[i] # Remove
          /\ store' = [i \in Items |-> IF i \in items /\ op[s].answer.rows[i] \notin {Absent, Unscored}
                                         THEN op[s].answer.rows[i] ELSE store[i]]
    BY <1>6 DEF PutVideos, PutChannels, Put, NoRemoveOfChannels
  <2>2. UNCHANGED <<lastDelta, lastFull, dayOver, leaked>>
    BY <1>6 DEF PutVideos, PutChannels
  <2>3. op[s].answer.rows \in [Items -> Time \cup {Remove, Unscored}]
    BY OpFields DEF Rows
  <2>4. store' \in [Items -> Time]
    BY <1>1, <2>1, <2>3
  <2> QED BY <1>1, <2>2, <2>4
<1>7. ASSUME NEW v \in Videos, PutVideo(v) PROVE StoreTypes'
  BY <1>1, <1>7 DEF PutVideo, TypeOK
<1>8. CASE DayPasses
  BY <1>1, <1>8 DEF DayPasses, client
<1>9. CASE UNCHANGED <<client, dayOver, leaked>>
  BY <1>1, <1>9 DEF client
<1>10. Next => \/ DayPasses \/ Restart \/ UNCHANGED <<client, dayOver, leaked>>
               \/ \E s \in Syncs : \/ SetLastFull(s) \/ SetLastDelta(s) \/ Clear(s)
                                   \/ ClearChannels(s) \/ DeleteVideo(s) \/ PutVideos(s)
                                   \/ PutChannels(s)
               \/ \E v \in Videos : PutVideo(v)
  BY Zenon, ActionCases DEF Tick, Change, NginxExpires, ReadSince, QueryVideos, QueryChannels,
       Stamp, CachedAnswer, SyncFails, AutoSync, SyncDelta, CheckVideo, LookupVideo, LookupFails
<1> QED BY <1>2, <1>3, <1>4, <1>5, <1>6, <1>7, <1>8, <1>9, <1>10 DEF vars

(* Types: the lookups. *)
LEMMA LookupTypesKept ==
  ASSUME TypeOK, [Next]_vars PROVE LookupTypes'
<1> USE DEF LookupTypes
<1>1. LookupTypes /\ TimeFacts
  BY TypeParts, TimeIs
<1>2. Event => events' \in 0..MaxEvents
  BY <1>1, BoundsAssumption DEF Event
<1>3. NoLookup \in [stage : {"off", "miss", "found"}, found : Time]
  BY <1>1 DEF NoLookup, TimeFacts
<1>4. ASSUME NEW v \in Videos, CheckVideo(v) \/ LookupVideo(v) \/ PutVideo(v) PROVE LookupTypes'
  <2>1. at[v] \in Time
    BY DEF TypeOK, Items
  <2> QED BY <1>1, <1>3, <1>4, <2>1 DEF CheckVideo, LookupVideo, PutVideo
<1>5. ASSUME NEW v \in Videos, LookupFails(v) PROVE LookupTypes'
  BY <1>1, <1>2, <1>3, <1>5 DEF LookupFails
<1>6. CASE Restart
  BY <1>1, <1>2, <1>3, <1>6 DEF Restart
<1>7. CASE UNCHANGED lookup /\ (Event \/ UNCHANGED events)
  BY <1>1, <1>2, <1>7
<1>8. Next => \/ Restart \/ (UNCHANGED lookup /\ (Event \/ UNCHANGED events))
              \/ \E v \in Videos : CheckVideo(v) \/ LookupVideo(v) \/ LookupFails(v) \/ PutVideo(v)
  BY Zenon, ActionCases DEF Tick, Change, DayPasses, NginxExpires, ReadSince, QueryVideos,
       QueryChannels, Stamp, CachedAnswer, Clear, ClearChannels, DeleteVideo, PutVideos, PutChannels,
       SetLastFull, SetLastDelta, SyncFails, AutoSync, SyncDelta
<1> QED BY <1>4, <1>5, <1>6, <1>7, <1>8 DEF vars

(* A delta reads the stamp it asks from. *)
LEMMA ReadSinceStep ==
  ASSUME TypeOK, NEW s \in Syncs, ReadSince(s)
  PROVE  Becomes(s, "videos", lastDelta, op[s].answer.rows, op[s].answer.stamp, op[s].answer.late)
<1>1. lastDelta \in Time /\ "videos" \in Stages
  BY DEF TypeOK, Stages
<1>2. op' = [op EXCEPT ![s].since = lastDelta, ![s].stage = "videos"]
  BY DEF ReadSince
<1> QED BY ZenonT(60), <1>1, <1>2 DEF TypeOK, Op, Answer, Becomes

(* The servers stamp an answer. *)
LEMMA StampStep ==
  ASSUME TypeOK, NEW s \in Syncs, Stamp(s)
  PROVE  Becomes(s, IF op[s].full THEN "clear" ELSE "put", 0, op[s].answer.rows, now, Late(s))
<1>1. now \in Time /\ Late(s) \in BOOLEAN /\ (IF op[s].full THEN "clear" ELSE "put") \in Stages
  BY TimeIs DEF TimeFacts, Late, Stages
<1>2. op' = [op EXCEPT ![s].answer.stamp = now, ![s].answer.late = Late(s), ![s].since = 0,
                       ![s].stage = IF op[s].full THEN "clear" ELSE "put"]
  BY DEF Stamp
<1> QED BY <1>1, <1>2, BecomesStamped

(* Types: the syncs. *)
LEMMA OpTypesKept ==
  ASSUME TypeOK, NoRemoveOfChannels, [Next]_vars PROVE OpTypes' /\ NoRemoveOfChannels'
<1>1. OpTypes /\ TimeFacts
  BY TypeParts, TimeIs
<1>2. ASSUME NEW s \in Syncs, NEW stage, NEW since, NEW rows, NEW stamp, NEW late,
             Becomes(s, stage, since, rows, stamp, late),
             stage \in {"clear", "clear channels", "set full"} => op[s].full,
             \A c \in Channels : rows[c] # Remove,
             nginx' = nginx \/ nginx' = op'[s].answer
      PROVE  OpTypes' /\ NoRemoveOfChannels'
  <2>1. nginx' \in Answer
    BY <1>1, <1>2 DEF OpTypes, Becomes, Op
  <2> QED BY <1>1, <1>2, <2>1 DEF OpTypes, Becomes, NoRemoveOfChannels
<1>3. ASSUME NEW s \in Syncs PROVE \A c \in Channels : op[s].answer.rows[c] # Remove
  BY DEF NoRemoveOfChannels
<1>4. Absent # Remove
  BY <1>1 DEF TimeFacts
<1>5. ASSUME NEW s \in Syncs, ReadSince(s) PROVE OpTypes' /\ NoRemoveOfChannels'
  <2>1. Becomes(s, "videos", lastDelta, op[s].answer.rows, op[s].answer.stamp, op[s].answer.late)
    BY <1>5, ReadSinceStep
  <2>2. nginx' = nginx
    BY <1>5 DEF ReadSince
  <2> QED BY <1>2, <1>3, <2>1, <2>2
<1>6. ASSUME NEW s \in Syncs, QueryVideos(s) \/ QueryChannels(s)
      PROVE  OpTypes' /\ NoRemoveOfChannels'
  <2>1. PICK items \in SUBSET Items, stage \in {"channels", "stamp"} : Query(s, items, stage)
    BY <1>6 DEF QueryVideos, QueryChannels, Items
  <2>2. Becomes(s, stage, op[s].since, Queried(s, items), op[s].answer.stamp, op[s].answer.late)
    BY <2>1, QueryStep DEF Stages
  <2>3. \A c \in Channels : Queried(s, items)[c] # Remove
    BY <1>3, RowType DEF Queried, Items
  <2> QED BY <1>2, <1>6, <2>2, <2>3 DEF QueryVideos, QueryChannels
<1>7. ASSUME NEW s \in Syncs, Stamp(s) PROVE OpTypes' /\ NoRemoveOfChannels'
  BY <1>2, <1>3, <1>7, StampStep DEF Stamp
<1>8. ASSUME NEW s \in Syncs, CachedAnswer(s) PROVE OpTypes' /\ NoRemoveOfChannels'
  BY <1>2, <1>8, CachedStep DEF CachedAnswer, NoRemoveOfChannels
<1>9. ASSUME NEW s \in Syncs, Clear(s) \/ ClearChannels(s) \/ SetLastFull(s)
      PROVE  OpTypes' /\ NoRemoveOfChannels'
  <2>1. PICK stage \in {"clear channels", "put", "set delta"} :
          Steps(s, stage) /\ (stage = "clear channels" => op[s].stage = "clear")
    BY <1>9 DEF Clear, ClearChannels, SetLastFull
  <2>2. Becomes(s, stage, op[s].since, op[s].answer.rows, op[s].answer.stamp, op[s].answer.late)
    BY <2>1, BecomesStage DEF Steps, Stages
  <2>3. stage = "clear channels" => op[s].full
    BY <1>1, <2>1 DEF OpTypes
  <2> QED BY <1>2, <1>3, <1>9, <2>2, <2>3 DEF Clear, ClearChannels, SetLastFull
<1>10. ASSUME NEW s \in Syncs, DeleteVideo(s) PROVE OpTypes' /\ NoRemoveOfChannels'
  <2>1. PICK v \in Videos : op' = [op EXCEPT ![s].answer.rows[v] = Absent]
    BY <1>10 DEF DeleteVideo
  <2> DEFINE rows == [op[s].answer.rows EXCEPT ![v] = Absent]
  <2>2. Becomes(s, op[s].stage, op[s].since, rows, op[s].answer.stamp, op[s].answer.late)
    BY <2>1, DeleteStep
  <2>3. \A c \in Channels : rows[c] # Remove
    <3>1. op[s].answer.rows \in Rows
      BY OpFields
    <3> QED BY <1>3, <1>4, <3>1 DEF Rows, Items
  <2>4. op[s].stage = "put" /\ nginx' = nginx
    BY <1>10 DEF DeleteVideo
  <2> HIDE DEF rows
  <2> QED BY <1>2, <2>2, <2>3, <2>4
<1>11. ASSUME NEW s \in Syncs, PutVideos(s) \/ PutChannels(s)
       PROVE  OpTypes' /\ NoRemoveOfChannels'
  <2>1. PICK items \in SUBSET Items, stage \in {"put channels", "set full", "set delta"} :
          Put(s, items, stage) /\ (stage = "set full" => op[s].full)
    BY <1>11 DEF PutVideos, PutChannels, Items
  <2>2. Becomes(s, stage, op[s].since, Emptied(s, items), op[s].answer.stamp, op[s].answer.late)
    BY <2>1, PutStep DEF Stages
  <2>3. \A c \in Channels : Emptied(s, items)[c] # Remove
    BY <1>3, <1>4 DEF Emptied, Items
  <2> QED BY <1>2, <1>11, <2>1, <2>2, <2>3 DEF PutVideos, PutChannels
<1>12. ASSUME NEW s \in Syncs, op' = [op EXCEPT ![s] = Off], nginx' = nginx
       PROVE  OpTypes' /\ NoRemoveOfChannels'
  BY <1>1, <1>4, <1>12, EndStep, EmptyTypes DEF OpTypes, NoRemoveOfChannels, Items
<1>13. ASSUME NEW s \in Syncs, AutoSync(s) \/ SyncDelta(s)
       PROVE  OpTypes' /\ NoRemoveOfChannels'
  <2>1. PICK stage \in {"videos", "since"} : \E full \in BOOLEAN : StartedAs(s, stage, full)
    BY <1>13, Started
  <2>2. nginx' = nginx
    BY <1>13 DEF AutoSync, SyncDelta
  <2>3. /\ op' \in [Syncs -> Op] /\ op'[s].stage = stage /\ op'[s].answer = Empty
        /\ \A r \in Syncs \ {s} : /\ op'[r].stage = op[r].stage /\ op'[r].full = op[r].full
                                  /\ op'[r].answer = op[r].answer
    BY <2>1 DEF StartedAs
  <2>4. OpTypes'
    BY <1>1, <2>2, <2>3 DEF OpTypes
  <2>5. \A c \in Channels : Empty.rows[c] # Remove
    BY <1>4, EmptyTypes DEF Items
  <2> QED BY <2>2, <2>3, <2>4, <2>5 DEF NoRemoveOfChannels
<1>14. ASSUME NEW v \in Videos, CheckVideo(v) PROVE OpTypes' /\ NoRemoveOfChannels'
  <2>1. op' \in [Syncs -> Op] /\ Joined /\ nginx' = nginx
    BY <1>14, JoinStep DEF CheckVideo
  <2> QED BY <1>1, <2>1 DEF OpTypes, NoRemoveOfChannels, Joined
<1>15. CASE Restart
  BY <1>1, <1>4, <1>15, EmptyTypes DEF Restart, OpTypes, NoRemoveOfChannels, Items
<1>16. CASE NginxExpires
  BY <1>1, <1>4, <1>16, EmptyTypes DEF NginxExpires, OpTypes, NoRemoveOfChannels, Items
<1>17. CASE UNCHANGED <<op, nginx>>
  BY <1>1, <1>17 DEF OpTypes, NoRemoveOfChannels
<1>18. Next => \/ Restart \/ NginxExpires \/ UNCHANGED <<op, nginx>>
               \/ \E s \in Syncs :
                    \/ ReadSince(s) \/ QueryVideos(s) \/ QueryChannels(s) \/ Stamp(s)
                    \/ CachedAnswer(s) \/ Clear(s) \/ ClearChannels(s) \/ DeleteVideo(s)
                    \/ PutVideos(s) \/ PutChannels(s) \/ SetLastFull(s)
                    \/ (op' = [op EXCEPT ![s] = Off] /\ nginx' = nginx)
                    \/ AutoSync(s) \/ SyncDelta(s)
               \/ \E v \in Videos : CheckVideo(v)
  BY Zenon, ActionCases DEF Tick, Change, DayPasses, SetLastDelta, SyncFails, LookupVideo,
                            LookupFails,
     PutVideo
<1> QED BY <1>5, <1>6, <1>7, <1>8, <1>9, <1>10, <1>11, <1>12, <1>13, <1>14, <1>15, <1>16, <1>17,
           <1>18 DEF vars

(* Every step keeps the types. *)
LEMMA TypeKept ==
  ASSUME TypeOK, NoRemoveOfChannels, [Next]_vars PROVE TypeOK' /\ NoRemoveOfChannels'
<1>1. ServerTypes' /\ StoreTypes' /\ LookupTypes' /\ OpTypes' /\ NoRemoveOfChannels'
  BY ServerTypesKept, StoreTypesKept, LookupTypesKept, OpTypesKept
<1> QED BY <1>1 DEF TypeOK, ServerTypes, StoreTypes, LookupTypes, OpTypes

-----------------------------------------------------------------------------
(***************************************************************************)
(* The invariant.  No stamp or change is of the future.                    *)
(***************************************************************************)
Stamps == /\ lastDelta <= now /\ lastFull <= now /\ nginx.stamp <= now
          /\ \A i \in Items : at[i] <= now
          /\ \A s \in Syncs : op[s].answer.stamp <= now

(* A sync that is alone has nothing else in flight. *)
Exclusive(s) == op[s].alone /\ op[s].stage # "off" =>
                  /\ \A r \in Syncs \ {s} : op[r].stage = "off"
                  /\ \A v \in Videos : lookup[v].stage = "off"

(* Rows that were written are not there any more. *)
UsedRows(s) ==
  /\ op[s].stage = "off" => op[s].answer = Empty
  /\ op[s].stage = "put channels" => \A v \in Videos : op[s].answer.rows[v] = Absent
  /\ op[s].stage \in {"set full", "set delta"} => \A i \in Items : op[s].answer.rows[i] = Absent

(* Deltas list the score of what changed, unless they skip it. *)
Scored(i)    == ~GoServes \/ i \notin Channels \/ i \in flagged
Vouched(i)   == 0 < at[i] /\ at[i] < VouchedUntil(i) /\ Scored(i)
Agrees(i, x) == x = at[i] \/ (i \notin flagged /\ x = Absent)

(* Whatever may be written next to what is stored is as good as that. *)
StoreClean     == \A i \in Items : Vouched(i) => Agrees(i, store[i])
LookupsClean   == \A v \in Videos : Vouched(v) /\ lookup[v].stage = "found"
                                     => Agrees(v, lookup[v].found)
AnswerClean(s) == ~op[s].full => \A i \in Items :
                    Vouched(i) => \/ op[s].answer.rows[i] \in {at[i], Absent}
                                  \/ op[s].answer.rows[i] = Remove /\ i \notin flagged

Clean == leaked \/ Rebuilding \/
           (StoreClean /\ LookupsClean /\ \A s \in Syncs : AnswerClean(s))

Older(i, a) == 0 < at[i] /\ at[i] < a.stamp
Exact(s)    == op[s].alone /\ ~op[s].answer.late

(* A delta that is alone asks for what the store does not vouch for, ...   *)
SinceKnown(s) == op[s].alone /\ ~op[s].full /\ op[s].stage \in {"videos", "channels", "stamp"}
                   => op[s].since = lastDelta

(* ... so that its answer and the store have all that is older than its stamp. *)
DeltaCovers(s) ==
  Exact(s) /\ ~op[s].full /\ ~leaked /\ op[s].stage \in {"put", "put channels", "set delta"} =>
    \A i \in Published : Older(i, op[s].answer) /\ Scored(i) =>
      \/ op[s].answer.rows[i] = Absent /\ Agrees(i, store[i])
      \/ op[s].answer.rows[i] = at[i]
      \/ op[s].answer.rows[i] = Remove /\ i \notin flagged

(* The answer of a rebuild lists all that is flagged and older than its stamp. *)
Lists(i, a) == Older(i, a) => a.rows[i] = IF i \in flagged THEN at[i] ELSE Absent

NginxCovers   == ~nginx.late => \A i \in Items : Lists(i, nginx)
FullCovers(s) ==
  op[s].full /\ ~op[s].answer.late =>
    /\ op[s].stage \in {"clear", "clear channels", "put"} => \A i \in Items : Lists(i, op[s].answer)
    /\ op[s].stage = "put channels" => \A c \in Channels : Lists(c, op[s].answer)

(* What a rebuild that is alone has done so far. *)
Rebuilt(s) ==
  op[s].full /\ Exact(s) =>
    /\ op[s].stage \in {"clear channels", "put"} => \A v \in Videos : store[v] = Absent
    /\ op[s].stage \in {"put", "put channels"} => \A c \in Channels : store[c] = Absent
    /\ op[s].stage = "put channels" =>
         \A v \in Videos : Older(v, op[s].answer) => Agrees(v, store[v])
    /\ op[s].stage \in {"set full", "set delta"} =>
         \A i \in Items : Older(i, op[s].answer) => Agrees(i, store[i])
    /\ op[s].stage = "set delta" => lastFull = op[s].answer.stamp

Own(s) == /\ Exclusive(s) /\ UsedRows(s) /\ SinceKnown(s)
          /\ DeltaCovers(s) /\ FullCovers(s) /\ Rebuilt(s)

Inv == /\ TypeOK /\ NoRemoveOfChannels /\ Stamps /\ Clean /\ NginxCovers
       /\ \A s \in Syncs : Own(s)

-----------------------------------------------------------------------------
(* What a step of the sync s is, seen from the others and from the store. *)
LEMMA SyncSteps ==
  ASSUME TypeOK, NEW s \in Syncs
  PROVE  /\ ReadSince(s) => Becomes(s, "videos", lastDelta, op[s].answer.rows,
                                    op[s].answer.stamp, op[s].answer.late)
         /\ QueryVideos(s) => Becomes(s, "channels", op[s].since, Queried(s, Videos),
                                      op[s].answer.stamp, op[s].answer.late)
         /\ QueryChannels(s) => Becomes(s, "stamp", op[s].since, Queried(s, Channels),
                                        op[s].answer.stamp, op[s].answer.late)
         /\ Stamp(s) => Becomes(s, IF op[s].full THEN "clear" ELSE "put", 0, op[s].answer.rows,
                                now, Late(s))
         /\ CachedAnswer(s) => Becomes(s, "clear", op[s].since, nginx.rows, nginx.stamp, nginx.late)
         /\ Clear(s) => Becomes(s, "clear channels", op[s].since, op[s].answer.rows,
                                op[s].answer.stamp, op[s].answer.late)
         /\ ClearChannels(s) => Becomes(s, "put", op[s].since, op[s].answer.rows,
                                        op[s].answer.stamp, op[s].answer.late)
         /\ DeleteVideo(s) => \E v \in Videos :
              /\ op[s].answer.rows[v] = Remove /\ store' = [store EXCEPT ![v] = Absent]
              /\ Becomes(s, "put", op[s].since, [op[s].answer.rows EXCEPT ![v] = Absent],
                         op[s].answer.stamp, op[s].answer.late)
         /\ PutVideos(s) => Becomes(s, "put channels", op[s].since, Emptied(s, Videos),
                                    op[s].answer.stamp, op[s].answer.late)
         /\ PutChannels(s) => Becomes(s, IF op[s].full THEN "set full" ELSE "set delta",
                                      op[s].since, Emptied(s, Channels),
                                      op[s].answer.stamp, op[s].answer.late)
         /\ SetLastFull(s) => Becomes(s, "set delta", op[s].since, op[s].answer.rows,
                                      op[s].answer.stamp, op[s].answer.late)
<1>1. Videos \in SUBSET Items /\ Channels \in SUBSET Items
  BY DEF Items
<1>2. DeleteVideo(s) => \E v \in Videos :
        /\ op[s].answer.rows[v] = Remove /\ store' = [store EXCEPT ![v] = Absent]
        /\ Becomes(s, "put", op[s].since, [op[s].answer.rows EXCEPT ![v] = Absent],
                   op[s].answer.stamp, op[s].answer.late)
  <2> HAVE DeleteVideo(s)
  <2>1. PICK v \in Videos : /\ op[s].stage = "put" /\ op[s].answer.rows[v] = Remove
                            /\ store' = [store EXCEPT ![v] = Absent]
                            /\ op' = [op EXCEPT ![s].answer.rows[v] = Absent]
    BY Zenon DEF DeleteVideo
  <2> QED BY <2>1, DeleteStep
<1>3. QueryVideos(s) => Becomes(s, "channels", op[s].since, Queried(s, Videos),
                                op[s].answer.stamp, op[s].answer.late)
  BY <1>1, QueryStep DEF QueryVideos, Stages
<1>4. QueryChannels(s) => Becomes(s, "stamp", op[s].since, Queried(s, Channels),
                                  op[s].answer.stamp, op[s].answer.late)
  BY <1>1, QueryStep DEF QueryChannels, Stages
<1>5. PutVideos(s) => Becomes(s, "put channels", op[s].since, Emptied(s, Videos),
                              op[s].answer.stamp, op[s].answer.late)
  BY <1>1, PutStep DEF PutVideos, Stages
<1>6. PutChannels(s) => Becomes(s, IF op[s].full THEN "set full" ELSE "set delta",
                                op[s].since, Emptied(s, Channels),
                                op[s].answer.stamp, op[s].answer.late)
  BY <1>1, PutStep DEF PutChannels, Stages
<1>7. ASSUME NEW stage \in {"clear channels", "put", "set delta"}, Steps(s, stage)
      PROVE  Becomes(s, stage, op[s].since, op[s].answer.rows, op[s].answer.stamp,
                     op[s].answer.late)
  BY <1>7, BecomesStage DEF Steps, Stages
<1>8. Clear(s) => Steps(s, "clear channels")
  BY Zenon DEF Clear
<1>9. ClearChannels(s) => Steps(s, "put")
  BY Zenon DEF ClearChannels
<1>10. SetLastFull(s) => Steps(s, "set delta")
  BY Zenon DEF SetLastFull
<1>11. CachedAnswer(s) => Becomes(s, "clear", op[s].since, nginx.rows, nginx.stamp, nginx.late)
  BY CachedStep DEF CachedAnswer
<1> QED BY <1>2, <1>3, <1>4, <1>5, <1>6, <1>7, <1>8, <1>9, <1>10, <1>11, ReadSinceStep, StampStep

(***************************************************************************)
(* Time goes on, and stamps are of the time when they are made.            *)
(***************************************************************************)
LEMMA StampsKept ==
  ASSUME TypeOK, TypeOK', Stamps, [Next]_vars PROVE Stamps'
<1> DEFINE Known == {nginx.stamp, now, 0}
<1>0. Time \subseteq Nat
  BY BoundsAssumption DEF Time
<1>1. /\ now \in Nat /\ lastDelta \in Nat /\ lastFull \in Nat /\ nginx.stamp \in Nat
      /\ \A i \in Items : at[i] \in Nat
      /\ \A s \in Syncs : op[s].answer.stamp \in Nat
  <2>1. now \in Time /\ lastDelta \in Time /\ lastFull \in Time /\ nginx \in Answer
        /\ at \in [Items -> Time] /\ op \in [Syncs -> Op]
    BY DEF TypeOK
  <2>2. \A o \in Op : o.answer \in Answer
    BY DEF Op
  <2>3. \A a \in Answer : a.stamp \in Time
    BY DEF Answer
  <2> QED BY <1>0, <2>1, <2>2, <2>3
<1>2. now' \in Nat /\ now <= now'
  <2>1. now' \in Nat
    BY <1>0 DEF TypeOK
  <2>2. Next => now' = now \/ now' = now + 1
    BY Zenon, ActionCases DEF Tick, Change, DayPasses, NginxExpires, Restart, ReadSince,
                              QueryVideos,
       QueryChannels, Stamp, CachedAnswer, Clear, ClearChannels, DeleteVideo, PutVideos, PutChannels,
       SetLastFull, SetLastDelta, SyncFails, AutoSync, SyncDelta, CheckVideo, LookupVideo, LookupFails,
       PutVideo, server
  <2> QED BY <1>1, <2>1, <2>2 DEF vars, server
<1>3. \A i \in Items : at'[i] \in {at[i], now}
  <2>1. ASSUME NEW i \in Items, Change(i) PROVE \A j \in Items : at'[j] \in {at[j], now}
    BY <2>1 DEF Change, TypeOK
  <2>2. Next => UNCHANGED at \/ \E i \in Items : Change(i)
    BY Zenon, ActionCases DEF Tick, DayPasses, NginxExpires, Restart, ReadSince, QueryVideos,
       QueryChannels, Stamp, CachedAnswer, Clear, ClearChannels, DeleteVideo, PutVideos, PutChannels,
       SetLastFull, SetLastDelta, SyncFails, AutoSync, SyncDelta, CheckVideo, LookupVideo, LookupFails,
       PutVideo, server
  <2> QED BY <2>1, <2>2 DEF vars, server
<1>4. \A r \in Syncs : op'[r].answer.stamp \in {op[r].answer.stamp} \cup Known
  <2>1. ASSUME NEW s \in Syncs, NEW stage, NEW since, NEW rows, NEW stamp, NEW late,
               Becomes(s, stage, since, rows, stamp, late),
               stamp \in {op[s].answer.stamp} \cup Known
        PROVE  \A r \in Syncs : op'[r].answer.stamp \in {op[r].answer.stamp} \cup Known
    BY <2>1 DEF Becomes
  <2>2. Empty.stamp = 0
    BY DEF Empty
  <2>3. ASSUME NEW s \in Syncs, op' = [op EXCEPT ![s] = Off] \/ AutoSync(s) \/ SyncDelta(s)
        PROVE  \A r \in Syncs : op'[r].answer.stamp \in {op[r].answer.stamp} \cup Known
    BY <2>2, <2>3, EndStep, EmptyTypes, Started DEF StartedAs
  <2>4. ASSUME NEW v \in Videos, CheckVideo(v)
        PROVE  \A r \in Syncs : op'[r].answer.stamp \in {op[r].answer.stamp} \cup Known
    BY <2>4, JoinStep DEF CheckVideo, Joined
  <2>5. CASE Restart
    BY <2>2, <2>5, EmptyTypes DEF Restart
  <2>6. ASSUME NEW s \in Syncs,
               \/ ReadSince(s) \/ QueryVideos(s) \/ QueryChannels(s) \/ Stamp(s)
               \/ CachedAnswer(s) \/ Clear(s) \/ ClearChannels(s) \/ DeleteVideo(s)
               \/ PutVideos(s) \/ PutChannels(s) \/ SetLastFull(s)
        PROVE  \A r \in Syncs : op'[r].answer.stamp \in {op[r].answer.stamp} \cup Known
    <3> HIDE DEF Known
    <3>1. nginx.stamp \in Known /\ now \in Known
      BY DEF Known
    <3>2. CASE ReadSince(s)
      BY ZenonT(60), <2>1, <3>2, <3>1, SyncSteps
    <3>3. CASE QueryVideos(s)
      BY ZenonT(60), <2>1, <3>3, <3>1, SyncSteps
    <3>4. CASE QueryChannels(s)
      BY ZenonT(60), <2>1, <3>4, <3>1, SyncSteps
    <3>5. CASE Stamp(s)
      BY ZenonT(60), <2>1, <3>5, <3>1, SyncSteps
    <3>6. CASE CachedAnswer(s)
      BY <2>1, <3>6, <3>1, SyncSteps
    <3>7. CASE Clear(s)
      BY ZenonT(60), <2>1, <3>7, <3>1, SyncSteps
    <3>8. CASE ClearChannels(s)
      BY ZenonT(60), <2>1, <3>8, <3>1, SyncSteps
    <3>9. CASE DeleteVideo(s)
      <4>1. PICK rows : Becomes(s, "put", op[s].since, rows, op[s].answer.stamp, op[s].answer.late)
        BY <3>9, SyncSteps
      <4> QED BY <2>1, <4>1
    <3>10. CASE PutVideos(s)
      BY ZenonT(60), <2>1, <3>10, <3>1, SyncSteps
    <3>11. CASE PutChannels(s)
      BY ZenonT(60), <2>1, <3>11, <3>1, SyncSteps
    <3>12. CASE SetLastFull(s)
      BY ZenonT(60), <2>1, <3>12, <3>1, SyncSteps
    <3> QED BY <2>6, <3>2, <3>3, <3>4, <3>5, <3>6, <3>7, <3>8, <3>9, <3>10, <3>11, <3>12
  <2>7. CASE UNCHANGED op
    BY <2>7
  <2>8. Next => \/ Restart \/ UNCHANGED op
                \/ \E v \in Videos : CheckVideo(v)
                \/ \E s \in Syncs : \/ op' = [op EXCEPT ![s] = Off] \/ AutoSync(s) \/ SyncDelta(s)
                                    \/ ReadSince(s) \/ QueryVideos(s) \/ QueryChannels(s)
                                    \/ Stamp(s) \/ CachedAnswer(s) \/ Clear(s) \/ ClearChannels(s)
                                    \/ DeleteVideo(s) \/ PutVideos(s) \/ PutChannels(s)
                                    \/ SetLastFull(s)
    BY Zenon, ActionCases DEF Tick, Change, DayPasses, NginxExpires, SetLastDelta, SyncFails,
       LookupVideo, LookupFails, PutVideo
  <2> HIDE DEF Known
  <2> QED BY <2>3, <2>4, <2>5, <2>6, <2>7, <2>8 DEF vars
<1>5. nginx'.stamp \in Known
  <2>1. ASSUME NEW s \in Syncs, Stamp(s) PROVE nginx'.stamp \in Known
    BY <2>1, SyncSteps DEF Stamp, Becomes
  <2>2. CASE NginxExpires
    BY <2>2 DEF NginxExpires, Empty
  <2>3. CASE UNCHANGED nginx
    BY <2>3
  <2>4. Next => UNCHANGED nginx \/ NginxExpires \/ \E s \in Syncs : Stamp(s)
    BY Zenon, ActionCases DEF Tick, Change, DayPasses, Restart, ReadSince, QueryVideos,
       QueryChannels, CachedAnswer, Clear, ClearChannels, DeleteVideo, PutVideos, PutChannels,
       SetLastFull, SetLastDelta, SyncFails, AutoSync, SyncDelta, CheckVideo, LookupVideo, LookupFails,
       PutVideo
  <2> QED BY <2>1, <2>2, <2>3, <2>4 DEF vars
<1>6. \A x \in {lastDelta', lastFull'} :
        x \in {lastDelta, lastFull} \/ \E s \in Syncs : x = op[s].answer.stamp
  <2>1. Next => \/ UNCHANGED <<lastDelta, lastFull>>
                \/ \E s \in Syncs : \/ lastFull' = op[s].answer.stamp /\ lastDelta' = lastDelta
                                    \/ lastDelta' = op[s].answer.stamp /\ lastFull' = lastFull
    BY Zenon, ActionCases DEF Tick, Change, DayPasses, NginxExpires, Restart, ReadSince,
                              QueryVideos,
       QueryChannels, Stamp, CachedAnswer, Clear, ClearChannels, DeleteVideo, PutVideos, PutChannels,
       SetLastFull, SetLastDelta, SyncFails, AutoSync, SyncDelta, CheckVideo, LookupVideo, LookupFails,
       PutVideo, client
  <2> QED BY <2>1 DEF vars, client
<1>7. \A n \in Nat : n <= now => n <= now'
  BY <1>1, <1>2
<1>8. \A s \in Syncs : op[s].answer.stamp \in Nat /\ op[s].answer.stamp <= now
  BY <1>1 DEF Stamps
<1>9. \A n \in Known : n \in Nat /\ n <= now
  BY <1>1 DEF Stamps
<1> HIDE DEF Known
<1>10. lastDelta' <= now' /\ lastFull' <= now'
  BY <1>1, <1>6, <1>7, <1>8 DEF Stamps
<1>11. \A i \in Items : at'[i] <= now'
  BY <1>1, <1>3, <1>7 DEF Stamps
<1>12. nginx'.stamp <= now' /\ \A s \in Syncs : op'[s].answer.stamp <= now'
  BY <1>4, <1>5, <1>7, <1>8, <1>9
<1> QED BY <1>10, <1>11, <1>12 DEF Stamps

-----------------------------------------------------------------------------
(* What a sync keeps while another one steps: it is as it was, or alone no more. *)
Stays(r) == /\ op'[r].stage = op[r].stage /\ op'[r].full = op[r].full
            /\ op'[r].since = op[r].since /\ op'[r].answer = op[r].answer
            /\ op'[r].alone => op[r].alone

(* A step of a sync leaves the others alone. *)
LEMMA OthersStay ==
  ASSUME NEW s \in Syncs, NEW stage, NEW since, NEW rows, NEW stamp, NEW late,
         Becomes(s, stage, since, rows, stamp, late)
  PROVE  \A r \in Syncs \ {s} : Stays(r)
BY DEF Becomes, Stays

(* Next to a step of s, all that is in flight is not alone. *)
LEMMA NotAlone ==
  ASSUME NEW s \in Syncs, op[s].stage # "off", NEW r \in Syncs \ {s}, Exclusive(r)
  PROVE  ~op[r].alone \/ op[r].stage = "off"
BY DEF Exclusive

(* What a sync keeps next to a step that leaves the store alone. *)
LEMMA BesideSync ==
  ASSUME NEW r \in Syncs, Own(r), Stays(r), UNCHANGED <<at, flagged>>,
         ~op[r].alone \/ op[r].stage = "off"
  PROVE  Own(r)'
<1> USE DEF Stays, Own
<1>1. Exclusive(r)' /\ SinceKnown(r)' /\ DeltaCovers(r)' /\ Rebuilt(r)'
  BY DEF Exclusive, SinceKnown, DeltaCovers, Rebuilt, Exact
<1>2. UsedRows(r)' /\ FullCovers(r)'
  BY DEF UsedRows, FullCovers, Lists, Older
<1> QED BY <1>1, <1>2

(* A step that leaves the store to itself disturbs no sync but its own. *)
LEMMA BesideStore ==
  ASSUME NEW r \in Syncs, Own(r), Stays(r),
         UNCHANGED <<at, flagged, store, lastDelta, lastFull, leaked>>,
         op'[r].alone => Exclusive(r)'
  PROVE  Own(r)'
<1> USE DEF Stays, Own
<1>1. Exclusive(r)'
  BY DEF Exclusive
<1>2. SinceKnown(r)'
  BY DEF SinceKnown
<1>3. DeltaCovers(r)'
  BY DEF DeltaCovers, Exact, Agrees, Older, Scored
<1>4. UsedRows(r)' /\ FullCovers(r)'
  BY DEF UsedRows, FullCovers, Lists, Older
<1>5. Rebuilt(r)'
  BY DEF Rebuilt, Exact, Agrees, Older
<1> QED BY <1>1, <1>2, <1>3, <1>4, <1>5

(* What is clean stays so beside the store. *)
LEMMA CleanBeside ==
  ASSUME Clean, UNCHANGED <<at, flagged, store, lastDelta, lastFull, leaked, lookup>>,
         Rebuilding => Rebuilding',
         \A r \in Syncs : \/ Stays(r) \/ (leaked \/ Rebuilding \/ AnswerClean(r)')
  PROVE  Clean'
<1>1. CASE leaked \/ Rebuilding
  BY <1>1 DEF Clean
<1>2. CASE ~leaked /\ ~Rebuilding
  <2>1. StoreClean' /\ LookupsClean'
    BY <1>2 DEF Clean, StoreClean, LookupsClean, Vouched, Scored, VouchedUntil, Agrees
  <2>2. ASSUME NEW r \in Syncs, Stays(r) PROVE AnswerClean(r)'
    BY <1>2, <2>2 DEF Clean, AnswerClean, Vouched, Scored, VouchedUntil, Stays
  <2> QED BY <1>2, <2>1, <2>2 DEF Clean
<1> QED BY <1>1, <1>2

(* What nginx has cached lists the same rows. *)
LEMMA NginxStays ==
  ASSUME NginxCovers, UNCHANGED <<at, flagged, nginx>> PROVE NginxCovers'
BY DEF NginxCovers, Lists, Older

(* A rebuild goes on. *)
LEMMA StillRebuilding ==
  ASSUME NEW s \in Syncs, ~Rebuilds(s), \A r \in Syncs \ {s} : Stays(r)
  PROVE  Rebuilding => Rebuilding'
BY DEF Rebuilding, Rebuilds, Stays

Kept == Clean /\ NginxCovers /\ \A s \in Syncs : Own(s)

(* A sync that goes on without the store keeps what the others know. *)
LEMMA GoesOn ==
  ASSUME Kept, NEW s \in Syncs, op[s].stage # "off", ~Rebuilds(s),
         NEW stage, NEW since, NEW rows, NEW stamp, NEW late,
         Becomes(s, stage, since, rows, stamp, late),
         UNCHANGED <<at, flagged, store, lastDelta, lastFull, leaked, lookup>>
  PROVE  /\ \A r \in Syncs \ {s} : Own(r)'
         /\ Exclusive(s)'
         /\ (leaked \/ Rebuilding \/ AnswerClean(s)') => Clean'
<1>1. \A r \in Syncs \ {s} : Stays(r)
  BY OthersStay
<1>2. \A r \in Syncs \ {s} : ~op[r].alone \/ op[r].stage = "off"
  BY NotAlone DEF Kept, Own
<1>3. \A r \in Syncs \ {s} : Own(r)'
  BY <1>1, <1>2, BesideSync DEF Kept
<1>4. Exclusive(s)'
  <2>1. Exclusive(s)
    BY DEF Kept, Own
  <2>2. op'[s].alone = op[s].alone
    BY DEF Becomes
  <2> QED BY <1>1, <2>1, <2>2 DEF Exclusive, Stays
<1>5. Rebuilding => Rebuilding'
  BY <1>1, StillRebuilding
<1> QED BY <1>1, <1>3, <1>4, <1>5, CleanBeside DEF Kept

(* readSince: the delta will ask from what the store vouches for. *)
LEMMA ReadSinceKeeps ==
  ASSUME TypeOK, Kept, NEW s \in Syncs, ReadSince(s) PROVE Kept'
<1>1. Becomes(s, "videos", lastDelta, op[s].answer.rows, op[s].answer.stamp, op[s].answer.late)
  BY SyncSteps
<1>2. /\ op[s].stage = "since"
      /\ UNCHANGED <<at, flagged, store, lastDelta, lastFull, leaked, lookup, nginx>>
  BY DEF ReadSince, server, client
<1>3. ~Rebuilds(s)
  BY <1>2 DEF Rebuilds
<1>4. /\ \A r \in Syncs \ {s} : Own(r)'
      /\ Exclusive(s)'
      /\ (leaked \/ Rebuilding \/ AnswerClean(s)') => Clean'
  BY <1>1, <1>2, <1>3, GoesOn
<1>5. Own(s)'
  BY <1>1, <1>2, <1>4 DEF Becomes, Own, UsedRows, SinceKnown, DeltaCovers, FullCovers, Rebuilt
<1>6. leaked \/ Rebuilding \/ AnswerClean(s)'
  BY <1>1, <1>2 DEF Kept, Clean, AnswerClean, Becomes, Vouched, Scored, VouchedUntil
<1>7. NginxCovers'
  BY <1>2, NginxStays DEF Kept
<1> QED BY <1>4, <1>5, <1>6, <1>7 DEF Kept

(* Rows that a query adds are those of the servers. *)
LEMMA QueryKeeps ==
  ASSUME TypeOK, Kept, NEW s \in Syncs, QueryVideos(s) \/ QueryChannels(s) PROVE Kept'
<1>1. PICK items \in SUBSET Items, stage \in {"channels", "stamp"} :
        Becomes(s, stage, op[s].since, Queried(s, items), op[s].answer.stamp, op[s].answer.late)
  BY SyncSteps DEF Items
<1>2. /\ op[s].stage \in {"videos", "channels"}
      /\ UNCHANGED <<at, flagged, store, lastDelta, lastFull, leaked, lookup, nginx>>
  BY DEF QueryVideos, QueryChannels, server, client
<1>3. ~Rebuilds(s)
  BY <1>2 DEF Rebuilds
<1>4. /\ \A r \in Syncs \ {s} : Own(r)'
      /\ Exclusive(s)'
      /\ (leaked \/ Rebuilding \/ AnswerClean(s)') => Clean'
  BY <1>1, <1>2, <1>3, GoesOn
<1>5. Own(s)'
  BY <1>1, <1>2, <1>4 DEF Kept, Becomes, Own, UsedRows, SinceKnown, DeltaCovers, FullCovers,
                          Rebuilt
<1>6. leaked \/ Rebuilding \/ AnswerClean(s)'
  <2> SUFFICES ASSUME ~leaked, ~Rebuilding, ~op'[s].full, NEW i \in Items, Vouched(i)'
               PROVE  \/ op'[s].answer.rows[i] \in {at'[i], Absent}
                      \/ op'[s].answer.rows[i] = Remove /\ i \notin flagged'
    BY DEF AnswerClean
  <2>1. ~op[s].full /\ Vouched(i) /\ AnswerClean(s)
    BY <1>1, <1>2 DEF Becomes, Kept, Clean, Vouched, Scored, VouchedUntil
  <2>2. op[s].answer.rows[i] \in {at[i], Absent} \/ (op[s].answer.rows[i] = Remove /\ i \notin flagged)
    BY <2>1 DEF AnswerClean
  <2>3. Row(i, op[s]) \in {at[i], Absent} \/ (Row(i, op[s]) = Remove /\ i \notin flagged)
    BY <2>1 DEF Row, Vouched, Scored, Items
  <2>4. op'[s].answer.rows[i] \in {Row(i, op[s]), op[s].answer.rows[i]}
    BY <1>1 DEF Becomes, Queried
  <2> QED BY <1>2, <2>2, <2>3, <2>4
<1>7. NginxCovers'
  BY <1>2, NginxStays DEF Kept
<1> QED BY <1>4, <1>5, <1>6, <1>7 DEF Kept

(* The heart of it: what a stamped answer leaves out, the store has already. *)
LEMMA StampKeeps ==
  ASSUME TypeOK, Kept, NEW s \in Syncs, Stamp(s) PROVE Kept'
<1> DEFINE stage == IF op[s].full THEN "clear" ELSE "put"
<1>1. Becomes(s, stage, 0, op[s].answer.rows, now, Late(s))
  BY SyncSteps
<1>2. /\ op[s].stage = "stamp"
      /\ UNCHANGED <<at, flagged, store, lastDelta, lastFull, leaked, lookup>>
  BY DEF Stamp, server, client
<1>3. ~Rebuilds(s)
  BY <1>2 DEF Rebuilds
<1>4. /\ \A r \in Syncs \ {s} : Own(r)'
      /\ Exclusive(s)'
      /\ (leaked \/ Rebuilding \/ AnswerClean(s)') => Clean'
  BY <1>1, <1>2, <1>3, GoesOn
<1>5. ~op'[s].answer.late =>
        \A i \in Items : Older(i, op'[s].answer) => op'[s].answer.rows[i] = Row(i, op[s])
  BY <1>1 DEF Becomes, Late, Older
<1>6. DeltaCovers(s)'
  <2> SUFFICES ASSUME op'[s].alone, ~op'[s].answer.late, ~op'[s].full, ~leaked',
                      NEW i \in Published, Older(i, op[s].answer)', Scored(i)'
               PROVE  (\/ op[s].answer.rows[i] = Absent /\ Agrees(i, store[i])
                       \/ op[s].answer.rows[i] = at[i]
                       \/ op[s].answer.rows[i] = Remove /\ i \notin flagged)'
    BY DEF DeltaCovers, Exact
  <2>1. /\ op[s].alone /\ ~op[s].full /\ ~leaked /\ i \in Items /\ 0 < at[i]
        /\ Scored(i)
    BY <1>1, <1>2, ItemsAssumption DEF Becomes, Older, Scored
  <2>2. op'[s].answer.rows[i] = Row(i, op[s])
    BY <1>2, <1>5, <2>1 DEF Older
  <2>3. ~Rebuilding
    BY <2>1, <1>2 DEF Rebuilding, Rebuilds, Kept, Own, Exclusive
  <2>4. op[s].since = lastDelta
    BY <1>2, <2>1 DEF Kept, Own, SinceKnown
  <2>5. at[i] < op[s].since => Agrees(i, store[i])
    BY <2>1, <2>3, <2>4 DEF Kept, Clean, StoreClean, Vouched, VouchedUntil
  <2> QED BY <1>2, <2>1, <2>2, <2>5 DEF Row, Agrees, Scored, Items
<1>7. op'[s].full /\ ~op'[s].answer.late => \A i \in Items : Lists(i, op[s].answer)'
  <2> SUFFICES ASSUME op'[s].full, ~op'[s].answer.late, NEW i \in Items, Older(i, op[s].answer)'
               PROVE  op'[s].answer.rows[i] = IF i \in flagged' THEN at'[i] ELSE Absent
    BY DEF Lists
  <2>1. op'[s].answer.rows[i] = Row(i, op[s])
    BY <1>2, <1>5 DEF Older
  <2> QED BY <1>1, <1>2, <2>1 DEF Row, Becomes
<1>8. Own(s)'
  BY <1>1, <1>2, <1>4, <1>6, <1>7 DEF Becomes, Own, UsedRows, SinceKnown, FullCovers, Rebuilt
<1>9. leaked \/ Rebuilding \/ AnswerClean(s)'
  BY <1>1, <1>2 DEF Kept, Clean, AnswerClean, Becomes, Vouched, Scored, VouchedUntil
<1>10. NginxCovers'
  <2>1. CASE op[s].full
    <3>1. nginx' = op'[s].answer
      BY <2>1 DEF Stamp
    <3>2. op'[s].full
      BY <1>1, <2>1 DEF Becomes
    <3> QED BY <1>7, <3>1, <3>2 DEF NginxCovers, Lists, Older
  <2>2. CASE ~op[s].full
    BY <1>2, <2>2, NginxStays DEF Stamp, Kept
  <2> QED BY <2>1, <2>2
<1> QED BY <1>4, <1>8, <1>9, <1>10 DEF Kept

(* The answer nginx has lists what is older than its stamp. *)
LEMMA CachedKeeps ==
  ASSUME TypeOK, Kept, NEW s \in Syncs, CachedAnswer(s) PROVE Kept'
<1>1. Becomes(s, "clear", op[s].since, nginx.rows, nginx.stamp, nginx.late)
  BY SyncSteps
<1>2. /\ op[s].stage = "videos" /\ op[s].full
      /\ UNCHANGED <<at, flagged, store, lastDelta, lastFull, leaked, lookup, nginx>>
  BY DEF CachedAnswer, server, client
<1>3. ~Rebuilds(s)
  BY <1>2 DEF Rebuilds
<1>4. /\ \A r \in Syncs \ {s} : Own(r)'
      /\ Exclusive(s)'
      /\ (leaked \/ Rebuilding \/ AnswerClean(s)') => Clean'
  BY <1>1, <1>2, <1>3, GoesOn
<1>5. FullCovers(s)'
  BY <1>1, <1>2 DEF Kept, NginxCovers, FullCovers, Lists, Older, Becomes
<1>6. Own(s)'
  BY <1>1, <1>2, <1>4, <1>5 DEF Becomes, Own, UsedRows, SinceKnown, DeltaCovers, Rebuilt
<1>7. AnswerClean(s)'
  BY <1>1, <1>2 DEF AnswerClean, Becomes
<1>8. NginxCovers'
  BY <1>2, NginxStays DEF Kept
<1> QED BY <1>4, <1>6, <1>7, <1>8 DEF Kept

(***************************************************************************)
(* A sync that writes: no other one that is alone is in flight, and while  *)
(* it rebuilds, or after a leak, nothing is said of the store.             *)
(***************************************************************************)
LEMMA Writes ==
  ASSUME Kept, NEW s \in Syncs, op[s].stage # "off",
         NEW stage, NEW since, NEW rows, NEW stamp, NEW late,
         Becomes(s, stage, since, rows, stamp, late),
         UNCHANGED <<at, flagged, lookup, nginx>>
  PROVE  /\ \A r \in Syncs \ {s} : Own(r)' /\ Stays(r)
         /\ Exclusive(s)'
         /\ NginxCovers'
         /\ Rebuilds(s)' => Clean'
<1>1. \A r \in Syncs \ {s} : Stays(r)
  BY OthersStay
<1>2. \A r \in Syncs \ {s} : ~op[r].alone \/ op[r].stage = "off"
  BY NotAlone DEF Kept, Own
<1>3. \A r \in Syncs \ {s} : Own(r)'
  BY <1>1, <1>2, BesideSync DEF Kept
<1>4. Exclusive(s)'
  <2>1. Exclusive(s)
    BY DEF Kept, Own
  <2>2. op'[s].alone = op[s].alone
    BY DEF Becomes
  <2> QED BY <1>1, <2>1, <2>2 DEF Exclusive, Stays
<1>5. NginxCovers'
  BY NginxStays DEF Kept
<1>6. Rebuilds(s)' => Clean'
  BY DEF Clean, Rebuilding
<1> QED BY <1>1, <1>3, <1>4, <1>5, <1>6

(* A rebuild clears one store after the other. *)
LEMMA ClearKeeps ==
  ASSUME TypeOK, Kept, NEW s \in Syncs, Clear(s) \/ ClearChannels(s) PROVE Kept'
<1>1. /\ op[s].stage \in {"clear", "clear channels"} /\ op[s].full
      /\ UNCHANGED <<at, flagged, lookup, nginx>>
  BY DEF TypeOK, Clear, ClearChannels, server
<1>2. PICK stage \in {"clear channels", "put"} :
        /\ Becomes(s, stage, op[s].since, op[s].answer.rows, op[s].answer.stamp, op[s].answer.late)
        /\ \/ stage = "clear channels" /\ op[s].stage = "clear" /\ \A v \in Videos : store'[v] = Absent
           \/ /\ stage = "put" /\ op[s].stage = "clear channels"
              /\ \A v \in Videos : store'[v] = store[v]
              /\ \A c \in Channels : store'[c] = Absent
  BY SyncSteps, ItemsAssumption DEF Clear, ClearChannels, Items
<1>3. /\ \A r \in Syncs \ {s} : Own(r)'
      /\ Exclusive(s)' /\ NginxCovers'
      /\ Rebuilds(s)' => Clean'
  BY <1>1, <1>2, Writes
<1>4. Rebuilds(s)'
  BY <1>1, <1>2 DEF Rebuilds, Becomes
<1>5. Rebuilt(s)'
  BY <1>1, <1>2 DEF Kept, Own, Rebuilt, Exact, Becomes
<1>6. FullCovers(s)'
  BY ZenonT(60), <1>1, <1>2 DEF Kept, Own, FullCovers, Lists, Older, Becomes
<1>7. Own(s)'
  BY <1>1, <1>2, <1>3, <1>5, <1>6 DEF Becomes, Own, UsedRows, SinceKnown, DeltaCovers
<1> QED BY <1>3, <1>4, <1>7 DEF Kept

(* A delta writes what is clean; a rebuild leaves what its answer lists. *)
LEMMA DeltaWrites ==
  ASSUME Kept, NEW s \in Syncs, ~op[s].full, ~op'[s].full,
         \A r \in Syncs \ {s} : Stays(r),
         UNCHANGED <<at, flagged, lookup, lastDelta, lastFull, leaked>>,
         \A i \in Items : \/ /\ store'[i] = store[i]
                             /\ op'[s].answer.rows[i] \in {op[s].answer.rows[i], Absent}
                         \/ /\ op[s].answer.rows[i] # Absent /\ store'[i] = op[s].answer.rows[i]
                            /\ op'[s].answer.rows[i] = Absent
                         \/ /\ op[s].answer.rows[i] = Remove /\ store'[i] = Absent
                            /\ op'[s].answer.rows[i] = Absent,
         \A i \in Items : store'[i] # Remove /\ at[i] # Remove
  PROVE  Clean'
<1>1. CASE leaked \/ Rebuilding
  <2>1. Rebuilding => Rebuilding'
    BY StillRebuilding DEF Rebuilds
  <2> QED BY <1>1, <2>1 DEF Clean
<1>2. CASE ~leaked /\ ~Rebuilding
  <2>1. StoreClean /\ LookupsClean /\ \A r \in Syncs : AnswerClean(r)
    BY <1>2 DEF Kept, Clean
  <2>2. LookupsClean'
    BY <2>1 DEF LookupsClean, Vouched, Scored, VouchedUntil, Agrees
  <2>3. \A r \in Syncs \ {s} : AnswerClean(r)'
    BY <2>1 DEF AnswerClean, Vouched, Scored, VouchedUntil, Stays
  <2>4. AnswerClean(s)'
    BY <2>1 DEF AnswerClean, Vouched, Scored, VouchedUntil
  <2>5. StoreClean'
    <3> SUFFICES ASSUME NEW i \in Items, Vouched(i)' PROVE Agrees(i, store[i])'
      BY DEF StoreClean
    <3>1. Vouched(i)
      BY DEF Vouched, Scored, VouchedUntil
    <3>2. Agrees(i, store[i])
      BY <2>1, <3>1 DEF StoreClean
    <3>3. \/ op[s].answer.rows[i] \in {at[i], Absent}
          \/ op[s].answer.rows[i] = Remove /\ i \notin flagged
      BY <2>1, <3>1 DEF AnswerClean
    <3>4. store'[i] = store[i] \/ store'[i] = at[i] \/ (store'[i] = Absent /\ i \notin flagged)
      BY <3>3
    <3> QED BY <3>2, <3>4 DEF Agrees
  <2> QED BY <2>2, <2>3, <2>4, <2>5 DEF Clean
<1> QED BY <1>1, <1>2

(* A delta removes what it was told to. *)
LEMMA DeleteKeeps ==
  ASSUME TypeOK, TypeOK', Kept, NEW s \in Syncs, DeleteVideo(s) PROVE Kept'
<1>1. op[s].stage = "put" /\ UNCHANGED <<at, flagged, lastDelta, lastFull, leaked, lookup, nginx>>
  BY Zenon DEF DeleteVideo, server
<1>2. PICK v \in Videos :
        /\ op[s].answer.rows[v] = Remove /\ store' = [store EXCEPT ![v] = Absent]
        /\ Becomes(s, "put", op[s].since, [op[s].answer.rows EXCEPT ![v] = Absent],
                   op[s].answer.stamp, op[s].answer.late)
  BY SyncSteps
<1> DEFINE rows == [op[s].answer.rows EXCEPT ![v] = Absent]
<1>3. /\ \A r \in Syncs \ {s} : Own(r)' /\ Stays(r)
      /\ Exclusive(s)' /\ NginxCovers'
      /\ Rebuilds(s)' => Clean'
  BY <1>1, <1>2, Writes
<1>4. /\ v \in Items /\ rows[v] = Absent /\ store'[v] = Absent
      /\ \A i \in Items \ {v} : rows[i] = op[s].answer.rows[i] /\ store'[i] = store[i]
  BY <1>2, OpFields DEF TypeOK, Rows, Items
<1>5. /\ \A i \in Items : at[i] # Remove /\ at[i] # Unscored /\ store'[i] # Remove
      /\ Absent # Remove /\ Remove # Unscored /\ Absent # Unscored
  <2>1. at \in [Items -> Time] /\ store' \in [Items -> Time]
    BY DEF TypeOK
  <2> QED BY <2>1, TimeIs DEF TimeFacts
<1> HIDE DEF rows
<1>6. /\ op'[s].stage = "put" /\ op'[s].full = op[s].full /\ op'[s].alone = op[s].alone
      /\ op'[s].answer.rows = rows /\ op'[s].answer.stamp = op[s].answer.stamp
      /\ op'[s].answer.late = op[s].answer.late
  BY <1>2 DEF Becomes, rows
<1>7. Clean'
  <2>1. CASE op[s].full
    BY <1>3, <1>6, <2>1 DEF Rebuilds
  <2>2. CASE ~op[s].full
    BY <1>1, <1>2, <1>3, <1>4, <1>5, <1>6, <2>2, DeltaWrites
  <2> QED BY <2>1, <2>2
<1>8. DeltaCovers(s)'
  <2> SUFFICES ASSUME op'[s].alone, ~op'[s].answer.late, ~op'[s].full, ~leaked',
                      NEW i \in Published, Older(i, op[s].answer)', Scored(i)'
               PROVE  (\/ op[s].answer.rows[i] = Absent /\ Agrees(i, store[i])
                       \/ op[s].answer.rows[i] = at[i]
                       \/ op[s].answer.rows[i] = Remove /\ i \notin flagged)'
    BY DEF DeltaCovers, Exact
  <2>1. i \in Items /\ Older(i, op[s].answer) /\ Scored(i)
    BY <1>1, <1>6, ItemsAssumption DEF Older, Scored
  <2>2. \/ op[s].answer.rows[i] = Absent /\ Agrees(i, store[i])
        \/ op[s].answer.rows[i] = at[i]
        \/ op[s].answer.rows[i] = Remove /\ i \notin flagged
    BY <1>1, <1>6, <2>1 DEF Kept, Own, DeltaCovers, Exact
  <2>3. CASE i = v
    BY <1>1, <1>2, <1>4, <1>5, <1>6, <2>1, <2>2, <2>3 DEF Agrees
  <2>4. CASE i # v
    BY <1>1, <1>4, <1>6, <2>1, <2>2, <2>4 DEF Agrees
  <2> QED BY <2>3, <2>4
<1>9. FullCovers(s)'
  <2> SUFFICES ASSUME op'[s].full, ~op'[s].answer.late, NEW i \in Items, Older(i, op[s].answer)'
               PROVE  op'[s].answer.rows[i] = IF i \in flagged' THEN at'[i] ELSE Absent
    BY <1>6 DEF FullCovers, Lists
  <2>1. Older(i, op[s].answer)
    BY <1>1, <1>6 DEF Older
  <2>2. op[s].answer.rows[i] = IF i \in flagged THEN at[i] ELSE Absent
    BY <1>1, <1>6, <2>1 DEF Kept, Own, FullCovers, Lists
  <2> QED BY <1>1, <1>2, <1>4, <1>5, <1>6, <2>2
<1>10. Rebuilt(s)'
  BY <1>1, <1>4, <1>6, ItemsAssumption DEF Kept, Own, Rebuilt, Exact, Items
<1>11. Own(s)'
  BY <1>3, <1>6, <1>8, <1>9, <1>10 DEF Own, UsedRows, SinceKnown
<1> QED BY <1>3, <1>7, <1>11 DEF Kept

(* The videos are written, ... *)
LEMMA PutVideosKeeps ==
  ASSUME TypeOK, TypeOK', Kept, NEW s \in Syncs, PutVideos(s) PROVE Kept'
<1> DEFINE rows == Emptied(s, Videos)
<1>1. /\ op[s].stage = "put" /\ \A v \in Videos : op[s].answer.rows[v] # Remove
      /\ UNCHANGED <<at, flagged, lastDelta, lastFull, leaked, lookup, nginx>>
      /\ store' = [i \in Items |-> IF i \in Videos /\ op[s].answer.rows[i] \notin {Absent, Unscored}
                                   THEN op[s].answer.rows[i] ELSE store[i]]
  BY Zenon DEF PutVideos, Put, server
<1>2. Becomes(s, "put channels", op[s].since, rows, op[s].answer.stamp, op[s].answer.late)
  BY SyncSteps
<1>3. /\ \A r \in Syncs \ {s} : Own(r)' /\ Stays(r)
      /\ Exclusive(s)' /\ NginxCovers'
      /\ Rebuilds(s)' => Clean'
  BY <1>1, <1>2, Writes
<1>4. \A i \in Items : /\ i \in Videos => rows[i] = Absent
                       /\ i \notin Videos => rows[i] = op[s].answer.rows[i] /\ store'[i] = store[i]
                       /\ store'[i] = IF i \in Videos /\ op[s].answer.rows[i] \notin {Absent, Unscored}
                                        THEN op[s].answer.rows[i] ELSE store[i]
  BY <1>1 DEF Emptied
<1>5. /\ \A i \in Items : at[i] # Remove /\ at[i] # Unscored /\ store'[i] # Remove
      /\ Absent # Remove /\ Remove # Unscored /\ Absent # Unscored
  <2>1. at \in [Items -> Time] /\ store' \in [Items -> Time]
    BY DEF TypeOK
  <2> QED BY <2>1, TimeIs DEF TimeFacts
<1> HIDE DEF rows
<1>6. /\ op'[s].stage = "put channels" /\ op'[s].full = op[s].full /\ op'[s].alone = op[s].alone
      /\ op'[s].answer.rows = rows /\ op'[s].answer.stamp = op[s].answer.stamp
      /\ op'[s].answer.late = op[s].answer.late
  BY <1>2 DEF Becomes
<1>7. Clean'
  <2>1. CASE op[s].full
    BY <1>3, <1>6, <2>1 DEF Rebuilds
  <2>2. CASE ~op[s].full
    BY <1>1, <1>3, <1>4, <1>5, <1>6, <2>2, DeltaWrites
  <2> QED BY <2>1, <2>2
<1>8. DeltaCovers(s)'
  <2> SUFFICES ASSUME Exact(s)', ~op'[s].full, ~leaked', NEW i \in Published,
                      Older(i, op[s].answer)', Scored(i)'
               PROVE  \/ rows[i] = Absent /\ Agrees(i, store[i])'
                      \/ rows[i] = at'[i]
                      \/ rows[i] = Remove /\ i \notin flagged'
    BY <1>6 DEF DeltaCovers
  <2>1. i \in Items /\ Older(i, op[s].answer) /\ Scored(i) /\ Exact(s)
    BY <1>1, <1>6, ItemsAssumption DEF Older, Scored, Exact
  <2>2. \/ op[s].answer.rows[i] = Absent /\ Agrees(i, store[i])
        \/ op[s].answer.rows[i] = at[i]
        \/ op[s].answer.rows[i] = Remove /\ i \notin flagged
    BY <1>1, <1>6, <2>1 DEF Kept, Own, DeltaCovers
  <2> QED BY <1>1, <1>4, <1>5, <2>1, <2>2 DEF Agrees
<1>9. FullCovers(s)'
  <2> SUFFICES ASSUME op'[s].full, ~op'[s].answer.late, NEW c \in Channels,
                      Older(c, op[s].answer)'
               PROVE  op'[s].answer.rows[c] = IF c \in flagged' THEN at'[c] ELSE Absent
    BY <1>6 DEF FullCovers, Lists
  <2>1. c \in Items /\ c \notin Videos /\ Older(c, op[s].answer)
    BY <1>1, <1>6, ItemsAssumption DEF Older, Items
  <2>2. op[s].answer.rows[c] = IF c \in flagged THEN at[c] ELSE Absent
    BY <1>1, <1>6, <2>1 DEF Kept, Own, FullCovers, Lists
  <2> QED BY <1>1, <1>4, <1>6, <2>1, <2>2
<1>10. Rebuilt(s)'
  <2> SUFFICES ASSUME op'[s].full, Exact(s)'
               PROVE  /\ \A c \in Channels : store'[c] = Absent
                      /\ \A v \in Videos : Older(v, op[s].answer)' => Agrees(v, store[v])'
    BY <1>6 DEF Rebuilt, Older
  <2>1. /\ op[s].full /\ Exact(s)
        /\ \A v \in Videos : store[v] = Absent
        /\ \A c \in Channels : store[c] = Absent
        /\ \A i \in Items : Lists(i, op[s].answer)
    BY <1>1, <1>6 DEF Kept, Own, Rebuilt, FullCovers, Exact
  <2>2. \A c \in Channels : store'[c] = Absent
    BY <1>4, <2>1, ItemsAssumption DEF Items
  <2>3. ASSUME NEW v \in Videos, Older(v, op[s].answer)' PROVE Agrees(v, store[v])'
    <3>1. v \in Items /\ Older(v, op[s].answer)
      BY <1>1, <1>6, <2>3 DEF Items, Older
    <3>2. op[s].answer.rows[v] = IF v \in flagged THEN at[v] ELSE Absent
      BY <2>1, <3>1 DEF Lists
    <3> QED BY <1>1, <1>4, <1>5, <2>1, <3>1, <3>2 DEF Agrees
  <2> QED BY <2>2, <2>3
<1>11. UsedRows(s)'
  BY <1>4, <1>6 DEF UsedRows, Items
<1>12. Own(s)'
  BY <1>3, <1>6, <1>8, <1>9, <1>10, <1>11 DEF Own, SinceKnown
<1> QED BY <1>3, <1>7, <1>12 DEF Kept

(* ... and the channels. *)
LEMMA PutChannelsKeeps ==
  ASSUME TypeOK, TypeOK', Kept, NEW s \in Syncs, PutChannels(s) PROVE Kept'
<1> DEFINE rows == Emptied(s, Channels)
           stage == IF op[s].full THEN "set full" ELSE "set delta"
<1>1. /\ op[s].stage = "put channels"
      /\ UNCHANGED <<at, flagged, lastDelta, lastFull, leaked, lookup, nginx>>
      /\ store' = [i \in Items |-> IF i \in Channels /\ op[s].answer.rows[i] \notin {Absent, Unscored}
                                   THEN op[s].answer.rows[i] ELSE store[i]]
  BY Zenon DEF PutChannels, Put, server
<1>2. Becomes(s, stage, op[s].since, rows, op[s].answer.stamp, op[s].answer.late)
  BY SyncSteps
<1>3. /\ \A r \in Syncs \ {s} : Own(r)' /\ Stays(r)
      /\ Exclusive(s)' /\ NginxCovers'
      /\ Rebuilds(s)' => Clean'
  BY <1>1, <1>2, Writes
<1>4. \A i \in Items : /\ i \in Channels => rows[i] = Absent
                       /\ i \notin Channels => rows[i] = op[s].answer.rows[i] /\ store'[i] = store[i]
                       /\ store'[i] = IF i \in Channels /\ op[s].answer.rows[i] \notin {Absent, Unscored}
                                        THEN op[s].answer.rows[i] ELSE store[i]
  BY <1>1 DEF Emptied
<1>5. /\ \A i \in Items : at[i] # Remove /\ at[i] # Unscored /\ store'[i] # Remove
      /\ Absent # Remove /\ Remove # Unscored /\ Absent # Unscored
  <2>1. at \in [Items -> Time] /\ store' \in [Items -> Time]
    BY DEF TypeOK
  <2> QED BY <2>1, TimeIs DEF TimeFacts
<1> HIDE DEF rows
<1>6. /\ op'[s].stage = stage /\ op'[s].full = op[s].full /\ op'[s].alone = op[s].alone
      /\ op'[s].answer.rows = rows /\ op'[s].answer.stamp = op[s].answer.stamp
      /\ op'[s].answer.late = op[s].answer.late
  BY <1>2 DEF Becomes
<1>7. Clean'
  <2>1. CASE op[s].full
    BY <1>3, <1>6, <2>1 DEF Rebuilds
  <2>2. CASE ~op[s].full
    BY <1>1, <1>3, <1>4, <1>5, <1>6, <2>2, DeltaWrites
  <2> QED BY <2>1, <2>2
<1>8. DeltaCovers(s)'
  <2> SUFFICES ASSUME Exact(s)', ~op'[s].full, ~leaked', NEW i \in Published,
                      Older(i, op[s].answer)', Scored(i)'
               PROVE  \/ rows[i] = Absent /\ Agrees(i, store[i])'
                      \/ rows[i] = at'[i]
                      \/ rows[i] = Remove /\ i \notin flagged'
    BY <1>6 DEF DeltaCovers
  <2>1. i \in Items /\ Older(i, op[s].answer) /\ Scored(i) /\ Exact(s)
    BY <1>1, <1>6, ItemsAssumption DEF Older, Scored, Exact
  <2>2. \/ op[s].answer.rows[i] = Absent /\ Agrees(i, store[i])
        \/ op[s].answer.rows[i] = at[i]
        \/ op[s].answer.rows[i] = Remove /\ i \notin flagged
    BY <1>1, <1>6, <2>1 DEF Kept, Own, DeltaCovers
  <2> QED BY <1>1, <1>4, <1>5, <2>1, <2>2 DEF Agrees
<1>9. \A i \in Items : rows[i] = Absent
  BY <1>1, <1>4 DEF Kept, Own, UsedRows, Items
<1>10. Rebuilt(s)'
  <2> SUFFICES ASSUME op'[s].full, Exact(s)', NEW i \in Items, Older(i, op[s].answer)'
               PROVE  Agrees(i, store[i])'
    BY <1>6 DEF Rebuilt, Older
  <2>1. op[s].full /\ Exact(s) /\ Older(i, op[s].answer)
    BY <1>1, <1>6 DEF Exact, Older
  <2>2. CASE i \in Channels
    <3>1. op[s].answer.rows[i] = (IF i \in flagged THEN at[i] ELSE Absent) /\ store[i] = Absent
      BY <1>1, <2>1, <2>2 DEF Kept, Own, Rebuilt, FullCovers, Lists, Exact
    <3> QED BY <1>1, <1>4, <1>5, <2>1, <2>2, <3>1 DEF Agrees
  <2>3. CASE i \in Videos
    <3>1. i \notin Channels /\ Agrees(i, store[i])
      BY <1>1, <2>1, <2>3, ItemsAssumption DEF Kept, Own, Rebuilt
    <3> QED BY <1>1, <1>4, <2>3, <3>1 DEF Agrees
  <2> QED BY <2>2, <2>3 DEF Items
<1>11. UsedRows(s)' /\ FullCovers(s)'
  BY <1>6, <1>9 DEF UsedRows, FullCovers
<1>12. Own(s)'
  BY <1>3, <1>6, <1>8, <1>10, <1>11 DEF Own, SinceKnown
<1> QED BY <1>3, <1>7, <1>12 DEF Kept

(* A rebuild stores its first stamp. *)
LEMMA SetLastFullKeeps ==
  ASSUME TypeOK, Kept, NEW s \in Syncs, SetLastFull(s) PROVE Kept'
<1>1. /\ op[s].stage = "set full" /\ op[s].full /\ lastFull' = op[s].answer.stamp
      /\ UNCHANGED <<at, flagged, store, lookup, nginx>>
  BY DEF TypeOK, SetLastFull, server
<1>2. Becomes(s, "set delta", op[s].since, op[s].answer.rows, op[s].answer.stamp, op[s].answer.late)
  BY SyncSteps
<1>3. /\ \A r \in Syncs \ {s} : Own(r)'
      /\ Exclusive(s)' /\ NginxCovers'
      /\ Rebuilds(s)' => Clean'
  BY <1>1, <1>2, Writes
<1>4. Rebuilds(s)'
  BY <1>1, <1>2 DEF Rebuilds, Becomes
<1>5. Rebuilt(s)'
  BY <1>1, <1>2 DEF Kept, Own, Rebuilt, Exact, Older, Agrees, Becomes
<1>6. UsedRows(s)'
  BY <1>1, <1>2 DEF Kept, Own, UsedRows, Becomes
<1>7. Own(s)'
  BY <1>1, <1>2, <1>3, <1>5, <1>6 DEF Becomes, Own, SinceKnown, DeltaCovers, FullCovers
<1> QED BY <1>3, <1>4, <1>7 DEF Kept

(* A sync that is over holds nothing. *)
LEMMA OffKeeps ==
  ASSUME NEW s \in Syncs, op'[s] = Off
  PROVE  Own(s)' /\ AnswerClean(s)' /\ ~Rebuilds(s)'
<1>1. /\ op'[s].stage = "off" /\ ~op'[s].full /\ op'[s].answer = Empty
      /\ \A i \in Items : op'[s].answer.rows[i] = Absent
  BY EmptyTypes
<1> QED BY <1>1 DEF Own, Exclusive, UsedRows, SinceKnown, DeltaCovers, FullCovers, Rebuilt,
           AnswerClean, Rebuilds

(***************************************************************************)
(* A sync that ends with nothing leaked vouches for what its answer and    *)
(* the store had before.                                                   *)
(***************************************************************************)
LEMMA SetLastDeltaKeeps ==
  ASSUME TypeOK, Kept, NEW s \in Syncs, SetLastDelta(s) PROVE Kept'
<1>1. /\ op[s].stage = "set delta" /\ lastDelta' = op[s].answer.stamp /\ leaked' = LeakedBy(s)
      /\ UNCHANGED <<at, flagged, store, lastFull, lookup, nginx>>
  BY DEF SetLastDelta, server
<1>2. op'[s] = Off /\ \A r \in Syncs \ {s} : op'[r] = op[r]
  BY EndStep DEF SetLastDelta
<1>3. \A r \in Syncs \ {s} : Stays(r) /\ (~op[r].alone \/ op[r].stage = "off")
  BY <1>1, <1>2, NotAlone DEF Kept, Own, Stays
<1>4. \A r \in Syncs \ {s} : Own(r)'
  BY <1>1, <1>3, BesideSync DEF Kept
<1>5. Own(s)' /\ AnswerClean(s)'
  BY <1>2, OffKeeps
<1>6. NginxCovers'
  BY <1>1, NginxStays DEF Kept
<1>7. Clean'
  <2> SUFFICES ASSUME ~leaked'
               PROVE  StoreClean' /\ LookupsClean' /\ \A r \in Syncs : AnswerClean(r)'
    BY DEF Clean
  <2>1. Exact(s) /\ (~leaked \/ op[s].full)
    BY <1>1 DEF LeakedBy, Exact
  <2>2. /\ \A r \in Syncs \ {s} : op[r].stage = "off"
        /\ \A v \in Videos : lookup[v].stage = "off"
    BY <1>1, <2>1 DEF Kept, Own, Exclusive, Exact
  <2>3. LookupsClean'
    BY <1>1, <2>2 DEF LookupsClean
  <2>4. ASSUME NEW r \in Syncs \ {s} PROVE AnswerClean(r)'
    <3>1. \A i \in Items : op'[r].answer.rows[i] = Absent
      <4>1. op[r].answer = Empty
        BY <2>2 DEF Kept, Own, UsedRows
      <4> QED BY <1>2, <4>1, EmptyTypes
    <3> QED BY <3>1 DEF AnswerClean
  <2>5. ASSUME NEW i \in Items, Vouched(i)' PROVE Agrees(i, store[i])
    <3>1. op[s].answer.rows[i] = Absent
      BY <1>1 DEF Kept, Own, UsedRows
    <3>2. CASE op[s].full
      <4>1. lastFull = op[s].answer.stamp
        BY <1>1, <2>1, <3>2 DEF Kept, Own, Rebuilt
      <4>2. Older(i, op[s].answer)
        BY <1>1, <2>5, <4>1 DEF Vouched, Scored, VouchedUntil, Older
      <4> QED BY <1>1, <2>1, <3>2, <4>2 DEF Kept, Own, Rebuilt
    <3>3. CASE ~op[s].full /\ i \in Published
      <4>1. Older(i, op[s].answer) /\ 0 < at[i] /\ Scored(i)
        BY <1>1, <2>5, <3>3 DEF Vouched, Scored, VouchedUntil, Older
      <4>2. \/ op[s].answer.rows[i] = Absent /\ Agrees(i, store[i])
            \/ op[s].answer.rows[i] = at[i]
            \/ op[s].answer.rows[i] = Remove /\ i \notin flagged
        BY <1>1, <2>1, <3>3, <4>1 DEF Kept, Own, DeltaCovers
      <4>3. at[i] # Absent /\ Remove # Absent
        BY <4>1, TimeIs DEF Absent, TimeFacts
      <4> QED BY <3>1, <4>2, <4>3
    <3>4. CASE ~op[s].full /\ i \notin Published
      <4>1. ~Rebuilding
        BY <2>2, <3>4 DEF Rebuilding, Rebuilds
      <4>2. Vouched(i)
        BY <1>1, <2>5, <3>4 DEF Vouched, Scored, VouchedUntil
      <4> QED BY <2>1, <3>4, <4>1, <4>2 DEF Kept, Clean, StoreClean
    <3> QED BY <3>2, <3>3, <3>4
  <2>6. StoreClean'
    BY <1>1, <2>5 DEF StoreClean, Agrees
  <2> QED BY <1>5, <2>3, <2>4, <2>6
<1> QED BY <1>4, <1>5, <1>6, <1>7 DEF Kept

(* A sync that fails drops its answer. *)
LEMMA SyncFailsKeeps ==
  ASSUME TypeOK, Kept, NEW s \in Syncs, SyncFails(s) PROVE Kept'
<1>1. /\ op[s].stage \in {"videos", "channels", "stamp"}
      /\ UNCHANGED <<at, flagged, store, lastDelta, lastFull, leaked, lookup, nginx>>
  BY DEF SyncFails, server, client
<1>2. op'[s] = Off /\ \A r \in Syncs \ {s} : op'[r] = op[r]
  BY EndStep DEF SyncFails
<1>3. \A r \in Syncs \ {s} : Stays(r) /\ (~op[r].alone \/ op[r].stage = "off")
  BY <1>1, <1>2, NotAlone DEF Kept, Own, Stays
<1>4. \A r \in Syncs \ {s} : Own(r)'
  BY <1>1, <1>3, BesideSync DEF Kept
<1>5. Own(s)' /\ AnswerClean(s)'
  BY <1>2, OffKeeps
<1>6. NginxCovers'
  BY <1>1, NginxStays DEF Kept
<1>7. Rebuilding => Rebuilding'
  BY <1>1, <1>3, StillRebuilding DEF Rebuilds
<1>8. Clean'
  BY <1>1, <1>3, <1>5, <1>7, CleanBeside DEF Kept
<1> QED BY <1>4, <1>5, <1>6, <1>8 DEF Kept

(* A new sync has done nothing yet. *)
LEMMA StartKeeps ==
  ASSUME TypeOK, Kept, NEW s \in Syncs, AutoSync(s) \/ SyncDelta(s) PROVE Kept'
<1>1. UNCHANGED <<at, flagged, store, lastDelta, lastFull, leaked, lookup, nginx>>
  BY DEF AutoSync, SyncDelta, server, client
<1>2. PICK stage \in {"videos", "since"}, full \in BOOLEAN :
        op[s].stage = "off" /\ StartedAs(s, stage, full) /\ (stage = "videos" => full)
  BY Started
<1>3. \A r \in Syncs \ {s} : Stays(r) /\ ~op'[r].alone
  BY <1>2 DEF StartedAs, Stays
<1>4. ASSUME NEW r \in Syncs \ {s} PROVE Own(r)'
  <2>1. op'[r].alone => Exclusive(r)'
    BY <1>3
  <2> QED BY <1>1, <1>3, <2>1, BesideStore DEF Kept
<1>5. /\ op'[s].stage = stage /\ op'[s].full = full /\ op'[s].alone = Idle
      /\ \A i \in Items : op'[s].answer.rows[i] = Absent
  BY <1>2, EmptyTypes DEF StartedAs
<1>6. Exclusive(s)'
  BY <1>1, <1>3, <1>5 DEF Exclusive, Idle, Stays
<1>7. Own(s)'
  BY <1>2, <1>5, <1>6 DEF Own, UsedRows, SinceKnown, DeltaCovers, FullCovers, Rebuilt
<1>8. AnswerClean(s)'
  BY <1>5 DEF AnswerClean
<1>9. NginxCovers'
  BY <1>1, NginxStays DEF Kept
<1>10. Rebuilding => Rebuilding'
  BY <1>2, <1>3, StillRebuilding DEF Rebuilds
<1>11. Clean'
  BY <1>1, <1>3, <1>8, <1>10, CleanBeside DEF Kept
<1> QED BY <1>4, <1>7, <1>9, <1>11 DEF Kept

(* A lookup that is under way leaves no sync alone. *)
LEMMA LookupKeeps ==
  ASSUME TypeOK, Kept, NEW v \in Videos,
         CheckVideo(v) \/ LookupVideo(v) \/ LookupFails(v) \/ PutVideo(v)
  PROVE  Kept'
<1>1. UNCHANGED <<at, flagged, lastDelta, lastFull, leaked, nginx>>
  BY DEF CheckVideo, LookupVideo, LookupFails, PutVideo, server, client
<1>2. \A r \in Syncs : Stays(r) /\ (~op'[r].alone \/ op[r].stage = "off")
  <2>1. CASE CheckVideo(v)
    BY <2>1, JoinStep DEF CheckVideo, Joined, Stays
  <2>2. CASE LookupVideo(v) \/ LookupFails(v) \/ PutVideo(v)
    <3>1. op' = op /\ lookup[v].stage # "off"
      BY <2>2 DEF LookupVideo, LookupFails, PutVideo
    <3> QED BY <3>1 DEF Kept, Own, Exclusive, Stays
  <2> QED BY <2>1, <2>2
<1>3. ASSUME NEW r \in Syncs PROVE Own(r)'
  <2>1. UsedRows(r) /\ FullCovers(r)
    BY DEF Kept, Own
  <2>2. UsedRows(r)' /\ FullCovers(r)'
    BY ZenonT(60), <1>1, <1>2, <2>1 DEF UsedRows, FullCovers, Lists, Older, Stays
  <2> QED BY <1>2, <2>2 DEF Own, Exclusive, SinceKnown, DeltaCovers, Rebuilt, Exact, Stays
<1>4. NginxCovers'
  BY <1>1, NginxStays DEF Kept
<1>5. Rebuilding => Rebuilding'
  BY <1>2 DEF Rebuilding, Rebuilds, Stays
<1>6. CASE leaked \/ Rebuilding
  BY <1>1, <1>3, <1>4, <1>5, <1>6 DEF Kept, Clean
<1>7. CASE ~leaked /\ ~Rebuilding
  <2>1. StoreClean /\ LookupsClean /\ \A r \in Syncs : AnswerClean(r)
    BY <1>7 DEF Kept, Clean
  <2>2. \A r \in Syncs : AnswerClean(r)'
    BY <1>1, <1>2, <2>1 DEF AnswerClean, Vouched, Scored, VouchedUntil, Stays
  <2>3. \A i \in Items : store'[i] = store[i]
                         \/ (i = v /\ lookup[v].stage = "found" /\ store'[i] = lookup[v].found)
    BY DEF TypeOK, CheckVideo, LookupVideo, LookupFails, PutVideo, client
  <2>4. StoreClean'
    BY <1>1, <2>1, <2>3 DEF StoreClean, LookupsClean, Vouched, Scored, VouchedUntil, Agrees
  <2>5. \A w \in Videos : lookup'[w].stage = "found" =>
          lookup'[w].found = at[w] \/ (lookup[w].stage = "found" /\ lookup'[w].found = lookup[w].found)
    <3>1. lookup \in [Videos -> [stage : {"off", "miss", "found"}, found : Time]]
      BY DEF TypeOK
    <3>2. ASSUME NEW l, l.stage = "found" => l.found = at[v], lookup' = [lookup EXCEPT ![v] = l]
          PROVE  \A w \in Videos : lookup'[w].stage = "found" =>
                   \/ lookup'[w].found = at[w]
                   \/ lookup[w].stage = "found" /\ lookup'[w].found = lookup[w].found
      BY <3>1, <3>2
    <3>3. NoLookup.stage # "found"
      BY DEF NoLookup
    <3>4. CASE CheckVideo(v)
      <4>1. lookup' = [lookup EXCEPT ![v].stage = "miss"]
        BY <3>4 DEF CheckVideo
      <4> QED BY <3>1, <4>1
    <3>5. CASE LookupVideo(v)
      <4>1. lookup' = [lookup EXCEPT ![v] = IF at[v] = 0 THEN NoLookup
                                            ELSE [stage |-> "found", found |-> at[v]]]
        BY <3>5 DEF LookupVideo
      <4> QED BY <3>2, <3>3, <4>1
    <3>6. CASE LookupFails(v) \/ PutVideo(v)
      BY <3>2, <3>3, <3>6 DEF LookupFails, PutVideo
    <3> QED BY <3>4, <3>5, <3>6
  <2>6. LookupsClean'
    BY <1>1, <2>1, <2>5 DEF LookupsClean, Vouched, Scored, VouchedUntil, Agrees
  <2>7. Clean'
    BY <2>2, <2>4, <2>6 DEF Clean
  <2> QED BY <1>3, <1>4, <2>7 DEF Kept
<1> QED BY <1>6, <1>7

(* The end of the worker leaks if it cuts a rebuild short. *)
LEMMA RestartKeeps == ASSUME TypeOK, Kept, Restart PROVE Kept'
<1>1. /\ leaked' = (leaked \/ Rebuilding)
      /\ UNCHANGED <<at, flagged, store, lastDelta, lastFull, nginx>>
      /\ \A v \in Videos : lookup'[v].stage = "off"
  BY DEF Restart, server, client, NoLookup
<1>2. ASSUME NEW r \in Syncs PROVE Own(r)' /\ AnswerClean(r)'
  <2>1. op'[r] = Off
    BY DEF Restart
  <2> QED BY <2>1, OffKeeps
<1>3. NginxCovers'
  BY <1>1, NginxStays DEF Kept
<1>4. Clean'
  <2> SUFFICES ASSUME ~leaked' PROVE StoreClean' /\ LookupsClean'
    BY <1>2 DEF Clean
  <2>1. StoreClean
    BY <1>1 DEF Kept, Clean
  <2> QED BY <1>1, <2>1 DEF StoreClean, LookupsClean, Vouched, Scored, VouchedUntil, Agrees
<1> QED BY <1>2, <1>3, <1>4 DEF Kept

(* A change is not older than any stamp, so nothing vouches for it yet. *)
LEMMA ChangeKeeps ==
  ASSUME TypeOK, Stamps, Kept, NEW i \in Items, Change(i) PROVE Kept'
<1>1. /\ at' = [at EXCEPT ![i] = now]
      /\ UNCHANGED <<store, lastDelta, lastFull, op, lookup, nginx, leaked>>
      /\ \A j \in Items \ {i} : j \in flagged' <=> j \in flagged
  BY DEF Change, client
<1>2. /\ at'[i] = now /\ \A j \in Items \ {i} : at'[j] = at[j]
  BY <1>1 DEF TypeOK
<1>3. /\ ~(now < lastDelta) /\ ~(now < lastFull) /\ ~(now < nginx.stamp)
      /\ \A s \in Syncs : ~(now < op[s].answer.stamp)
  <2>1. now \in Nat /\ lastDelta \in Nat /\ lastFull \in Nat /\ nginx.stamp \in Nat
        /\ \A s \in Syncs : op[s].answer.stamp \in Nat
    <3>1. Time \subseteq Nat
      BY BoundsAssumption DEF Time
    <3>2. nginx.stamp \in Time
      BY DEF TypeOK, Answer
    <3> QED BY <3>1, <3>2, OpFields DEF TypeOK
  <2> QED BY <2>1 DEF Stamps
<1> USE DEF Vouched, Scored, VouchedUntil, Older, Lists, Agrees
<1>4. /\ op' = op /\ store' = store /\ lastDelta' = lastDelta /\ lastFull' = lastFull
      /\ lookup' = lookup /\ nginx' = nginx /\ leaked' = leaked
  BY <1>1
<1>5. ASSUME NEW s \in Syncs PROVE Own(s)'
  <2>1. Own(s)
    BY DEF Kept
  <2>2. Exclusive(s)' /\ UsedRows(s)' /\ SinceKnown(s)'
    BY <1>1, <2>1 DEF Own, Exclusive, UsedRows, SinceKnown
  <2>3. DeltaCovers(s)'
    <3> SUFFICES ASSUME DeltaCovers(s), NEW j \in Published,
                        op[s].alone, ~op[s].answer.late, ~op[s].full, ~leaked,
                        op[s].stage \in {"put", "put channels", "set delta"},
                        0 < at'[j], at'[j] < op[s].answer.stamp, Scored(j)'
                 PROVE  \/ op[s].answer.rows[j] = Absent
                           /\ (store[j] = at'[j] \/ (j \notin flagged' /\ store[j] = Absent))
                        \/ op[s].answer.rows[j] = at'[j]
                        \/ op[s].answer.rows[j] = Remove /\ j \notin flagged'
      BY <1>4, <2>1 DEF Own, DeltaCovers, Exact
    <3>1. j # i /\ j \in Items
      BY <1>2, <1>3, ItemsAssumption
    <3> QED BY <1>1, <1>2, <3>1 DEF DeltaCovers, Exact
  <2>4. FullCovers(s)'
    BY ZenonT(60), <1>1, <1>2, <1>3, <1>4, <2>1 DEF Own, FullCovers, Items
  <2>5. Rebuilt(s)'
    BY ZenonT(60), <1>1, <1>2, <1>3, <1>4, <2>1 DEF Own, Rebuilt, Exact, Items
  <2> QED BY <2>2, <2>3, <2>4, <2>5 DEF Own
<1>6. NginxCovers'
  BY <1>1, <1>2, <1>3, <1>4 DEF Kept, NginxCovers
<1>7. Clean'
  <2>1. Rebuilding' <=> Rebuilding
    BY <1>1 DEF Rebuilding, Rebuilds
  <2>2. CASE leaked \/ Rebuilding
    BY <1>1, <2>1, <2>2 DEF Clean
  <2>3. CASE ~leaked /\ ~Rebuilding
    <3>1. StoreClean /\ LookupsClean /\ \A r \in Syncs : AnswerClean(r)
      BY <2>3 DEF Kept, Clean
    <3>2. StoreClean'
      BY <1>1, <1>2, <1>3, <1>4, <3>1 DEF StoreClean
    <3>3. LookupsClean'
      BY <1>1, <1>2, <1>3, <1>4, <3>1 DEF LookupsClean, Items
    <3>4. \A r \in Syncs : AnswerClean(r)'
      BY <1>1, <1>2, <1>3, <1>4, <3>1 DEF AnswerClean
    <3> QED BY <3>2, <3>3, <3>4 DEF Clean
  <2> QED BY <2>2, <2>3
<1> QED BY <1>5, <1>6, <1>7 DEF Kept

(* Neither the clock nor the age of the last rebuild is part of the rest. *)
LEMMA OutsideKeeps ==
  ASSUME Kept, UNCHANGED <<at, flagged, client, op, lookup, leaked>>,
         nginx' = nginx \/ nginx' = Empty, TypeOK
  PROVE  Kept'
<1>1. UNCHANGED <<at, flagged, store, lastDelta, lastFull, leaked, op, lookup>>
  BY DEF client
<1>2. ASSUME NEW s \in Syncs PROVE Own(s)'
  <2>1. Stays(s) /\ Exclusive(s)'
    BY <1>1 DEF Kept, Own, Exclusive, Stays
  <2> QED BY <1>1, <2>1, BesideStore DEF Kept
<1>3. Clean'
  <2>1. Rebuilding => Rebuilding'
    BY <1>1 DEF Rebuilding, Rebuilds
  <2> QED BY <1>1, <2>1, CleanBeside DEF Kept, Stays
<1>4. NginxCovers'
  <2>1. CASE nginx' = nginx
    BY <1>1, <2>1, NginxStays DEF Kept
  <2>2. CASE nginx' = Empty
    <3>1. nginx'.stamp = 0
      BY <2>2 DEF Empty
    <3>2. ASSUME NEW i \in Items PROVE ~(0 < at[i] /\ at[i] < 0)
      <4>1. at[i] \in Nat
        <5>1. at[i] \in Time
          BY DEF TypeOK
        <5> QED BY <5>1, BoundsAssumption DEF Time
      <4> QED BY <4>1
    <3> QED BY <1>1, <3>1, <3>2 DEF NginxCovers, Lists, Older
  <2> QED BY <2>1, <2>2
<1> QED BY <1>2, <1>3, <1>4 DEF Kept

(* Nothing is stored and nothing stamped. *)
LEMMA InitSync == ASSUME Init PROVE Inv
<1>1. /\ at = [i \in Items |-> 0] /\ store = [i \in Items |-> 0]
      /\ op = [s \in Syncs |-> Off] /\ nginx = Empty
      /\ lookup = [v \in Videos |-> NoLookup]
      /\ now = 1 /\ flagged = {} /\ lastDelta = 0 /\ lastFull = 0
      /\ dayOver = TRUE /\ leaked = FALSE /\ events = 0
  BY DEF Init, Absent
<1>2. 0 \in Time /\ 1 \in Time /\ Remove \notin Time /\ 0 \in 0..MaxEvents
  BY BoundsAssumption DEF Time, Remove
<1>3. TypeOK
  <2>1. NoLookup \in [stage : {"off", "miss", "found"}, found : Time]
    BY <1>2 DEF NoLookup, Absent
  <2> QED BY <1>1, <1>2, <2>1, EmptyTypes DEF TypeOK
<1>4. NoRemoveOfChannels
  BY <1>1, <1>2, EmptyTypes DEF NoRemoveOfChannels, Items, Absent
<1>5. Empty.stamp = 0
  BY DEF Empty
<1>6. Stamps
  BY <1>1, <1>5, EmptyTypes DEF Stamps
<1>7. Clean /\ NginxCovers
  <2>1. \A i \in Items : at[i] = 0 /\ ~(0 < at[i])
    BY <1>1
  <2> QED BY <2>1 DEF Clean, StoreClean, LookupsClean, AnswerClean, NginxCovers, Lists, Older,
            Vouched, Items
<1>8. \A s \in Syncs : Own(s)
  BY <1>1, EmptyTypes DEF Own, Exclusive, UsedRows, SinceKnown, DeltaCovers, FullCovers, Rebuilt
<1> QED BY <1>3, <1>4, <1>6, <1>7, <1>8 DEF Inv

(***************************************************************************)
(* The invariant holds initially and is kept by every step.                *)
(***************************************************************************)
LEMMA NextSync == ASSUME Inv, [Next]_vars PROVE Inv'
<1>1. TypeOK' /\ NoRemoveOfChannels'
  BY TypeKept DEF Inv
<1>2. Stamps'
  BY <1>1, StampsKept DEF Inv
<1>3. Kept'
  <2>1. TypeOK /\ Stamps /\ Kept
    BY DEF Inv, Kept
  <2>2. CASE Tick \/ DayPasses \/ NginxExpires \/ UNCHANGED vars
    <3>1. UNCHANGED <<at, flagged, client, op, lookup, leaked>> /\ (nginx' = nginx \/ nginx' = Empty)
      BY <2>2 DEF Tick, DayPasses, NginxExpires, vars, server
    <3> QED BY <2>1, <3>1, OutsideKeeps
  <2>3. CASE Restart
    BY <2>1, <2>3, RestartKeeps
  <2>4. ASSUME NEW i \in Items, Change(i) PROVE Kept'
    BY <2>1, <2>4, ChangeKeeps
  <2>5. ASSUME NEW s \in Syncs,
               \/ ReadSince(s) \/ QueryVideos(s) \/ QueryChannels(s) \/ Stamp(s)
               \/ CachedAnswer(s) \/ Clear(s) \/ ClearChannels(s) \/ DeleteVideo(s)
               \/ PutVideos(s) \/ PutChannels(s) \/ SetLastFull(s) \/ SetLastDelta(s)
               \/ SyncFails(s) \/ AutoSync(s) \/ SyncDelta(s)
        PROVE  Kept'
    BY Zenon, <1>1, <2>1, <2>5, ReadSinceKeeps, QueryKeeps, StampKeeps, CachedKeeps, ClearKeeps,
       DeleteKeeps,
       PutVideosKeeps, PutChannelsKeeps, SetLastFullKeeps, SetLastDeltaKeeps, SyncFailsKeeps,
       StartKeeps
  <2>6. ASSUME NEW v \in Videos,
               CheckVideo(v) \/ LookupVideo(v) \/ LookupFails(v) \/ PutVideo(v)
        PROVE  Kept'
    BY <2>1, <2>6, LookupKeeps
  <2> QED BY <2>2, <2>3, <2>4, <2>5, <2>6, ActionCases
<1> QED BY <1>1, <1>2, <1>3 DEF Inv, Kept

(* Stores, stamps and what is in flight stay within the invariant, however *)
(* syncs, lookups, changes and restarts of the worker interleave.          *)
THEOREM Invariance == Spec => []Inv
<1>1. Init => Inv
  BY InitSync
<1>2. Inv /\ [Next]_vars => Inv'
  BY NextSync
<1> QED BY <1>1, <1>2, PTL DEF Spec

(* Rows, stamps and the fields of every sync and lookup keep their types. *)
THEOREM TypeCorrect == Spec => []TypeOK
<1>1. Inv => TypeOK
  BY DEF Inv
<1> QED BY <1>1, Invariance, PTL

(***************************************************************************)
(* autoSync, SYNC_DELTA and setLastSyncTime: a change older than the stamp *)
(* the next delta asks from is stored, unless a named hazard struck or a   *)
(* rebuild is under way, for any number of items, syncs and seconds.       *)
(***************************************************************************)
THEOREM StampsVouch == Spec => []StampVouches
<1>1. Inv => StampVouches
  BY DEF Inv, Clean, StoreClean, StampVouches, Vouched, Scored, Agrees, Current, Skipped, Items
<1> QED BY <1>1, Invariance, PTL

-----------------------------------------------------------------------------
(***************************************************************************)
(* CacheAside.  What makes StaleOnlyByLeak inductive is the order of the   *)
(* two reads: the row is read before the categories and neither is newer   *)
(* than the committed version, so a lookup whose row is current has        *)
(* current categories, too.                                                *)
(***************************************************************************)
(* What lookup r has read so far. *)
ReadOrder(r) ==
  /\ lookup[r].row \in Nat /\ lookup[r].categories \in Nat
  /\ lookup[r].stage = "categories" => lookup[r].row <= version
  /\ lookup[r].stage = "set" => /\ lookup[r].row <= lookup[r].categories
                                /\ lookup[r].categories <= version

Reads == /\ version \in Nat
         /\ DOMAIN lookup = Readers
         /\ \A r \in Readers : ReadOrder(r)

KeyInv == Reads /\ K!StaleOnlyByLeak

(* A lookup no commit has overtaken stores what is committed. *)
LEMMA NotOvertaken ==
  ASSUME Reads, NEW r \in Readers, lookup[r].stage = "set", ~K!Overtaken(r)
  PROVE  K!Found(r) = K!Fresh
<1>1. ReadOrder(r) BY DEF Reads
<1>2. lookup[r].row = version /\ lookup[r].categories = version
  BY <1>1 DEF Reads, ReadOrder, K!Overtaken
<1> QED BY <1>2 DEF K!Found, K!Fresh

(* Nothing has been read and nothing is cached. *)
LEMMA InitKey == ASSUME K!Init PROVE KeyInv
BY DEF K!Init, KeyInv, Reads, ReadOrder, K!Idle, K!StaleOnlyByLeak, K!Stale

(* The reads of a lookup stay in order, whoever commits. *)
LEMMA NextReads == ASSUME Reads, [K!Next]_K!vars PROVE Reads'
<1> USE DEF Reads, ReadOrder
<1>1. ASSUME NEW r \in Readers, K!Miss(r) \/ K!GetFails(r) PROVE Reads'
  BY <1>1 DEF K!Miss, K!GetFails, K!Idle
<1>2. ASSUME NEW r \in Readers, K!ReadRow(r) PROVE Reads'
  BY <1>2 DEF K!ReadRow
<1>3. ASSUME NEW r \in Readers, K!ReadCategories(r) PROVE Reads'
  BY <1>3 DEF K!ReadCategories
<1>4. ASSUME NEW r \in Readers, K!ReadFails(r) \/ K!Set(r) \/ K!SetFails(r) PROVE Reads'
  BY <1>4 DEF K!ReadFails, K!Set, K!SetFails, K!Idle
<1>5. ASSUME NEW w \in Writers, K!Commit(w) PROVE Reads'
  BY <1>5 DEF K!Commit
<1>6. ASSUME NEW w \in Writers, K!Invalidate(w) \/ K!InvalidateFails(w) PROVE Reads'
  BY <1>6 DEF K!Invalidate, K!InvalidateFails
<1>7. CASE K!Expire
  BY <1>7 DEF K!Expire
<1>8. CASE UNCHANGED K!vars
  BY <1>8 DEF K!vars
<1> QED
  BY <1>1, <1>2, <1>3, <1>4, <1>5, <1>6, <1>7, <1>8 DEF K!Next, K!Lookup, K!Write

(* Every step that leaves the key out of date leaves a cause. *)
LEMMA NextStale == ASSUME KeyInv, [K!Next]_K!vars PROVE K!StaleOnlyByLeak'
<1> USE DEF K!StaleOnlyByLeak, K!Stale, K!Fresh
<1>0. Reads /\ K!StaleOnlyByLeak BY DEF KeyInv
<1>1. ASSUME NEW r \in Readers,
             \/ K!Miss(r) \/ K!GetFails(r) \/ K!ReadRow(r)
             \/ K!ReadCategories(r) \/ K!ReadFails(r) \/ K!SetFails(r)
      PROVE  K!StaleOnlyByLeak'
  BY <1>0, <1>1 DEF K!Miss, K!GetFails, K!ReadRow, K!ReadCategories, K!ReadFails, K!SetFails
<1>2. ASSUME NEW r \in Readers, K!Set(r) PROVE K!StaleOnlyByLeak'
  <2>1. version' = version /\ redis' = K!Found(r) /\ leaked' = K!Overtaken(r)
    BY <1>2 DEF K!Set
  <2>2. CASE K!Overtaken(r) BY <2>1, <2>2
  <2>3. CASE ~K!Overtaken(r)
    <3>1. lookup[r].stage = "set" BY <1>2 DEF K!Set
    <3>2. K!Found(r) = K!Fresh BY <1>0, <2>3, <3>1, NotOvertaken
    <3> QED BY <2>1, <3>2
  <2> QED BY <2>2, <2>3
<1>3. ASSUME NEW w \in Writers, K!Commit(w) PROVE K!StaleOnlyByLeak'
  <2>1. CASE redis = K!Nothing BY <1>3, <2>1 DEF K!Commit
  <2>2. CASE redis # K!Nothing /\ w \in SilentWriters BY <1>3, <2>2 DEF K!Commit
  <2>3. CASE w \notin SilentWriters BY <1>3, <2>3 DEF K!Commit
  <2> QED BY <2>1, <2>2, <2>3
<1>4. ASSUME NEW w \in Writers, K!Invalidate(w) PROVE K!StaleOnlyByLeak'
  BY <1>4 DEF K!Invalidate
<1>5. ASSUME NEW w \in Writers, K!InvalidateFails(w) PROVE K!StaleOnlyByLeak'
  BY <1>5 DEF K!InvalidateFails
<1>6. CASE K!Expire
  BY <1>6 DEF K!Expire
<1>7. CASE UNCHANGED K!vars
  BY <1>0, <1>7 DEF K!vars
<1> QED
  BY <1>1, <1>2, <1>3, <1>4, <1>5, <1>6, <1>7 DEF K!Next, K!Lookup, K!Write

(***************************************************************************)
(* Out-of-date answers in Redis come from a writer that has not deleted    *)
(* yet or from one of the three leaks, in every run of lookups and votes.  *)
(***************************************************************************)
THEOREM NoFourthLeak == K!Spec => []K!StaleOnlyByLeak
<1>1. K!Init => KeyInv BY InitKey
<1>2. KeyInv /\ [K!Next]_K!vars => KeyInv' BY NextReads, NextStale DEF KeyInv
<1>3. KeyInv => K!StaleOnlyByLeak BY DEF KeyInv
<1> QED BY <1>1, <1>2, <1>3, PTL DEF K!Spec
-----------------------------------------------------------------------------
(***************************************************************************)
(* The types of CacheAside: a lookup that has read a row has one.          *)
(***************************************************************************)
KeyAssumptions == K!WritersAssumption /\ K!BoundsAssumption

KeyTypes == /\ K!TypeOK
            /\ \A r \in Readers : lookup[r].stage = "categories" => lookup[r].row \in 1..version

LEMMA InitKeyTypes == ASSUME KeyAssumptions, K!Init PROVE KeyTypes
<1>1. 1 \in 1..MaxVersion /\ 0 \in 0..MaxVersion /\ 0 \in 0..MaxFaults
  BY DEF KeyAssumptions, K!BoundsAssumption
<1> QED BY <1>1 DEF K!Init, KeyTypes, K!TypeOK, K!Idle

Lookups == [stage : {"idle", "row", "categories", "set"},
            row : 0..MaxVersion, categories : 0..MaxVersion]

LookupAs(r, stage, row, categories) ==
  lookup' = [lookup EXCEPT ![r] = [stage |-> stage, row |-> row, categories |-> categories]]

(* The fields of a lookup after a read. *)
LEMMA LookupFields ==
  ASSUME KeyTypes, NEW r \in Readers, NEW n
  PROVE  /\ [lookup[r] EXCEPT !.stage = "categories", !.row = n]
              = [stage |-> "categories", row |-> n, categories |-> lookup[r].categories]
         /\ [lookup[r] EXCEPT !.stage = "set", !.categories = n]
              = [stage |-> "set", row |-> lookup[r].row, categories |-> n]
<1>1. lookup[r] \in Lookups
  BY DEF KeyTypes, K!TypeOK, Lookups
<1>2. ASSUME NEW l \in Lookups, NEW x
      PROVE  /\ [l EXCEPT !.stage = x] = [stage |-> x, row |-> l.row, categories |-> l.categories]
             /\ [l EXCEPT !.row = x] = [stage |-> l.stage, row |-> x, categories |-> l.categories]
             /\ [l EXCEPT !.categories = x] = [stage |-> l.stage, row |-> l.row, categories |-> x]
  BY <1>2 DEF Lookups
<1>3. ASSUME NEW stage \in {"categories", "set"}
      PROVE  /\ [[lookup[r] EXCEPT !.stage = stage] EXCEPT !.row = n]
                   = [stage |-> stage, row |-> n, categories |-> lookup[r].categories]
             /\ [[lookup[r] EXCEPT !.stage = stage] EXCEPT !.categories = n]
                   = [stage |-> stage, row |-> lookup[r].row, categories |-> n]
  <2> DEFINE l == [stage |-> stage, row |-> lookup[r].row, categories |-> lookup[r].categories]
  <2>1. [lookup[r] EXCEPT !.stage = stage] = l
    BY <1>1, <1>2
  <2>2. /\ l \in Lookups /\ l.stage = stage /\ l.row = lookup[r].row
        /\ l.categories = lookup[r].categories
    BY <1>1 DEF Lookups
  <2> HIDE DEF l
  <2>3. /\ [l EXCEPT !.row = n] = [stage |-> l.stage, row |-> n, categories |-> l.categories]
        /\ [l EXCEPT !.categories = n] = [stage |-> l.stage, row |-> l.row, categories |-> n]
    BY <1>2, <2>2
  <2> QED BY <2>1, <2>2, <2>3
<1> QED BY <1>3

(* A lookup has read a row or, after it, categories. *)
LEMMA LookupTypesAs ==
  ASSUME KeyAssumptions, KeyTypes, NEW r \in Readers, NEW stage \in {"categories", "set"},
         NEW row \in 1..version, NEW categories \in 0..MaxVersion,
         stage = "set" => categories = version,
         LookupAs(r, stage, row, categories),
         version' = version, redis' = redis, due' = due, leaked' = leaked, faults' = faults
  PROVE  KeyTypes'
<1>1. version \in 1..MaxVersion /\ MaxVersion \in Nat
  BY DEF KeyTypes, K!TypeOK, KeyAssumptions, K!BoundsAssumption
<1> DEFINE l == [stage |-> stage, row |-> row, categories |-> categories]
<1>2. l \in Lookups
  BY <1>1 DEF Lookups
<1>3. lookup \in [Readers -> Lookups] /\ lookup' = [lookup EXCEPT ![r] = l]
  BY DEF KeyTypes, K!TypeOK, Lookups, LookupAs
<1>4. lookup' \in [Readers -> Lookups] /\ lookup'[r] = l /\ \A q \in Readers \ {r} : lookup'[q] = lookup[q]
  <2> HIDE DEF l
  <2> QED BY <1>2, <1>3
<1>5. ASSUME NEW q \in Readers, lookup'[q].stage = "categories" PROVE lookup'[q].row \in 1..version'
  BY <1>4, <1>5 DEF KeyTypes
<1>6. ASSUME NEW q \in Readers, lookup'[q].stage = "set"
      PROVE  K!Found(q)' \in K!Answer /\ K!Found(q)'.row <= K!Found(q)'.categories
  <2>1. CASE q = r
    BY <1>1, <1>4, <1>6, <2>1 DEF K!Found, K!Answer
  <2>2. CASE q # r
    BY <1>4, <1>6, <2>2 DEF KeyTypes, K!TypeOK, K!Found
  <2> QED BY <2>1, <2>2
<1> QED BY <1>4, <1>5, <1>6 DEF KeyTypes, K!TypeOK, Lookups

LEMMA NextKeyTypes == ASSUME KeyAssumptions, KeyTypes, [K!Next]_K!vars PROVE KeyTypes'
<1>0. MaxVersion \in Nat /\ MaxFaults \in Nat
  BY DEF KeyAssumptions, K!BoundsAssumption
<1>1. ASSUME NEW r \in Readers, K!Miss(r) \/ K!GetFails(r) PROVE KeyTypes'
  BY <1>0, <1>1 DEF KeyTypes, K!TypeOK, K!Miss, K!GetFails, K!Idle, K!Found
<1>2. ASSUME NEW r \in Readers, K!ReadRow(r) PROVE KeyTypes'
  <2>1. /\ lookup' = [lookup EXCEPT ![r] = [lookup[r] EXCEPT !.stage = "categories", !.row = version]]
        /\ version' = version /\ redis' = redis /\ due' = due /\ leaked' = leaked /\ faults' = faults
    BY <1>2 DEF K!ReadRow
  <2>2. LookupAs(r, "categories", version, lookup[r].categories)
    BY <2>1, LookupFields DEF LookupAs
  <2>3. version \in 1..version /\ lookup[r].categories \in 0..MaxVersion
    BY DEF KeyTypes, K!TypeOK
  <2> QED BY <2>1, <2>2, <2>3, LookupTypesAs
<1>3. ASSUME NEW r \in Readers, K!ReadCategories(r) PROVE KeyTypes'
  <2>1. /\ lookup' = [lookup EXCEPT ![r] = [lookup[r] EXCEPT !.stage = "set", !.categories = version]]
        /\ version' = version /\ redis' = redis /\ due' = due /\ leaked' = leaked /\ faults' = faults
        /\ lookup[r].row \in 1..version
    BY <1>3 DEF K!ReadCategories, KeyTypes
  <2>2. LookupAs(r, "set", lookup[r].row, version)
    BY <2>1, LookupFields DEF LookupAs
  <2>3. version \in 0..MaxVersion
    BY DEF KeyTypes, K!TypeOK
  <2> QED BY <2>1, <2>2, <2>3, LookupTypesAs
<1>4. ASSUME NEW r \in Readers, K!ReadFails(r) \/ K!SetFails(r) PROVE KeyTypes'
  BY <1>0, <1>4 DEF KeyTypes, K!TypeOK, K!ReadFails, K!SetFails, K!Idle, K!Found
<1>5. ASSUME NEW r \in Readers, K!Set(r) PROVE KeyTypes'
  BY <1>0, <1>5 DEF KeyTypes, K!TypeOK, K!Set, K!Idle, K!Found, K!Overtaken
<1>6. ASSUME NEW w \in Writers, K!Commit(w) PROVE KeyTypes'
  BY <1>0, <1>6 DEF KeyTypes, K!TypeOK, K!Commit, K!Found
<1>7. ASSUME NEW w \in Writers, K!Invalidate(w) \/ K!InvalidateFails(w) PROVE KeyTypes'
  <2>1. /\ version' = version /\ lookup' = lookup /\ due' \subseteq due
        /\ redis' \in {redis, K!Nothing} /\ faults' \in 0..MaxFaults
        /\ leaked' \in BOOLEAN
    <3>1. leaked \in BOOLEAN /\ faults \in 0..MaxFaults
      BY DEF KeyTypes, K!TypeOK
    <3>2. CASE K!Invalidate(w)
      BY <3>1, <3>2 DEF K!Invalidate
    <3>3. CASE K!InvalidateFails(w)
      BY <1>0, <3>1, <3>3 DEF K!InvalidateFails
    <3> QED BY <1>7, <3>2, <3>3
  <2>2. redis' \in K!Answer \cup {K!Nothing} /\ due' \subseteq Writers \ SilentWriters
    BY <2>1 DEF KeyTypes, K!TypeOK
  <2>3. ASSUME NEW q \in Readers, lookup'[q].stage = "set"
        PROVE  K!Found(q)' \in K!Answer /\ K!Found(q)'.row <= K!Found(q)'.categories
    BY <2>1, <2>3 DEF KeyTypes, K!TypeOK, K!Found
  <2> QED BY <2>1, <2>2, <2>3 DEF KeyTypes, K!TypeOK
<1>8. CASE K!Expire
  BY <1>0, <1>8 DEF KeyTypes, K!TypeOK, K!Expire, K!Found
<1>9. CASE UNCHANGED K!vars
  BY <1>0, <1>9 DEF KeyTypes, K!TypeOK, K!vars, K!Found
<1> QED
  BY <1>1, <1>2, <1>3, <1>4, <1>5, <1>6, <1>7, <1>8, <1>9 DEF K!Next, K!Lookup, K!Write

(***************************************************************************)
(* What SetVideo and SetChannel store are answers, a row and categories    *)
(* that were read in this order; only writers that delete are due.         *)
(***************************************************************************)
THEOREM KeyTypeCorrect == ASSUME KeyAssumptions PROVE K!Spec => []K!TypeOK
<1>1. K!Init => KeyTypes BY InitKeyTypes
<1>2. KeyTypes /\ [K!Next]_K!vars => KeyTypes' BY NextKeyTypes
<1>3. KeyTypes => K!TypeOK BY DEF KeyTypes
<1> QED BY <1>1, <1>2, <1>3, PTL DEF K!Spec
=============================================================================
