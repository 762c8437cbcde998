---------------------------- MODULE OfflineQueue ----------------------------
(***************************************************************************)
(* The votes of one extension user: messages SUBMIT_VOTE and DELETE_VOTE   *)
(* handled by the background worker, the API client's retries, the pending *)
(* votes in IndexedDB and the flush that sends them later.                 *)
(*                                                                         *)
(* background.ts, offline-queue.ts, api-client.ts and the pendingVotes     *)
(* store of cache.ts.  An action runs from one await to the next.  The     *)
(* user acts one message at a time; the flush runs next to the messages.   *)
(***************************************************************************)
EXTENDS Integers, FiniteSets, FiniteSetsExt

CONSTANTS Videos,      \* video ids, ordered as the keys of the store are
          Categories,
          NoVote,      \* no vote, of a (video, user) pair or in the store
          Retries,     \* MAX_RETRIES
          MaxVotes,    \* bound on the submissions per video
          MaxFaults    \* bound on faults

ASSUME VideosAssumption == Videos \subseteq Int /\ IsFiniteSet(Videos)
ASSUME NoVoteAssumption == NoVote \notin Categories
ASSUME BoundsAssumption == Retries \in Nat /\ MaxVotes \in Nat /\ MaxFaults \in Nat

VARIABLES pending,     \* pending[v]: entry of the store pendingVotes
          timer,       \* flushTimer is set
          online,      \* navigator.onLine
          flush,       \* where flushPendingVotes is; isFlushing unless "off"
          batch,       \* batch[v]: what the flush read and has not dealt with
          call,        \* call[r]: the API request of r, see Call
          server,      \* server[v]: the user's vote in the backend
          last,        \* history: the vote the user last chose for v
          excused,     \* history: videos whose last choice may get lost, see
                       \* LatestVoteWins
          crossed,     \* history: voted on while an older vote was waiting
          votes,       \* submissions so far, per video
          faults       \* faults so far

store   == <<pending, timer>>
flusher == <<flush, batch>>
history == <<last, excused, crossed, votes>>
vars    == <<store, online, flusher, call, server, history, faults>>

Runners == {"message", "flush"}

Filed   == Categories \cup {NoVote}
NoEntry == [category |-> NoVote, old |-> FALSE]
Entry   == [category : Filed, old : BOOLEAN]

NoCall == [stage |-> "none"]
Call   == [stage : {"sent", "applied", "ok", "error"}, video : Videos,
           vote : Filed,              \* NoVote: DELETE /api/votes
           attempt : 0..Retries]

Queued(store_) == {v \in Videos : store_[v] # NoEntry}

TypeOK ==
  /\ pending \in [Videos -> Entry]
  /\ timer \in BOOLEAN /\ online \in BOOLEAN
  /\ flush \in {"off", "read", "next", "expire", "call", "remove"}
  /\ batch \in [Videos -> Entry]
  /\ call \in [Runners -> Call \cup {NoCall}]
  /\ server \in [Videos -> Filed]
  /\ last \in [Videos -> Filed]
  /\ excused \subseteq Videos /\ crossed \subseteq Videos
  /\ votes \in [Videos -> 0..MaxVotes]
  /\ faults \in 0..MaxFaults
  /\ flush = "call" <=> call["flush"] # NoCall
  /\ flush \in {"expire", "call", "remove"} => Queued(batch) # {}

Init ==
  /\ pending = [v \in Videos |-> NoEntry]
  /\ timer = TRUE /\ online = TRUE
  /\ flush = "off"
  /\ batch = [v \in Videos |-> NoEntry]
  /\ call = [r \in Runners |-> NoCall]
  /\ server = [v \in Videos |-> NoVote]
  /\ last = [v \in Videos |-> NoVote]
  /\ excused = {} /\ crossed = {}
  /\ votes = [v \in Videos |-> 0]
  /\ faults = 0

-----------------------------------------------------------------------------
(***************************************************************************)
(* fetchWithRetry against the backend.                                     *)
(***************************************************************************)
Request(v, vote) == [stage |-> "sent", video |-> v, vote |-> vote, attempt |-> 0]

Fault == faults < MaxFaults /\ faults' = faults + 1

(* The backend handles the request; deleting what is not there is a 404. *)
Arrives(r) ==
  LET v == call[r].video IN
  /\ call[r].stage = "sent" /\ online
  /\ server' = [server EXCEPT ![v] = call[r].vote]
  /\ call' = [call EXCEPT ![r].stage =
       IF call[r].vote = NoVote /\ server[v] = NoVote THEN "error" ELSE "applied"]
  /\ UNCHANGED <<store, online, flusher, history, faults>>

Answered(r) ==
  /\ call[r].stage = "applied"
  /\ call' = [call EXCEPT ![r].stage = "ok"]
  /\ UNCHANGED <<store, online, flusher, server, history, faults>>

(* A status that is not ok and not retried (4xx, 5xx). *)
Refused(r) ==
  /\ call[r].stage = "sent" /\ online
  /\ Fault
  /\ call' = [call EXCEPT ![r].stage = "error"]
  /\ UNCHANGED <<store, online, flusher, server, history>>

(* The request or its answer is lost, or the answer is 429: send again.    *)
Lost(r) ==
  /\ call[r].stage \in {"sent", "applied"}
  /\ Fault
  /\ call' = IF call[r].attempt < Retries
                THEN [call EXCEPT ![r].stage = "sent", ![r].attempt = @ + 1]
                ELSE [call EXCEPT ![r].stage = "error"]
  /\ UNCHANGED <<store, online, flusher, server, history>>

-----------------------------------------------------------------------------
(***************************************************************************)
(* handleMessage.                                                          *)
(***************************************************************************)
(* An older vote of the video is in the store or held by the flush. *)
Waiting(v) == v \in Queued(pending) \cup Queued(batch)

SubmitVote(v, c) ==
  /\ call["message"] = NoCall
  /\ votes[v] < MaxVotes
  /\ votes' = [votes EXCEPT ![v] = @ + 1]
  /\ last' = [last EXCEPT ![v] = c]
  /\ excused' = excused \ {v}
  /\ crossed' = IF Waiting(v) THEN crossed \cup {v} ELSE crossed \ {v}
  /\ call' = [call EXCEPT !["message"] = Request(v, c)]
  /\ UNCHANGED <<store, online, flusher, server, faults>>

(* Nothing is taken out of the store: a vote queued there will be filed again. *)
DeleteVote(v) ==
  /\ last[v] # NoVote
  /\ call["message"] = NoCall
  /\ last' = [last EXCEPT ![v] = NoVote]
  /\ excused' = IF v \in Queued(pending) THEN excused \cup {v} ELSE excused \ {v}
  /\ call' = [call EXCEPT !["message"] = Request(v, NoVote)]
  /\ UNCHANGED <<store, online, flusher, server, crossed, votes, faults>>

Confirm ==
  /\ call["message"].stage = "ok"
  /\ call' = [call EXCEPT !["message"] = NoCall]
  /\ UNCHANGED <<store, online, flusher, server, history, faults>>

(***************************************************************************)
(* The catch of SUBMIT_VOTE: whatever the error, enqueueVote puts the vote *)
(* over any other of the video, sets the timer, and the user is told that  *)
(* the vote is saved.  Unless the flush holds it, the other is gone.       *)
(***************************************************************************)
Enqueue ==
  LET v == call["message"].video IN
  /\ call["message"].stage = "error" /\ call["message"].vote # NoVote
  /\ pending' = [pending EXCEPT ![v] = [category |-> call["message"].vote, old |-> FALSE]]
  /\ timer' = TRUE
  /\ crossed' = IF v \in Queued(batch) THEN crossed ELSE crossed \ {v}
  /\ call' = [call EXCEPT !["message"] = NoCall]
  /\ UNCHANGED <<online, flusher, server, last, excused, votes, faults>>

(* A failed deletion is answered with the error; the vote may be gone. *)
DeleteFails ==
  LET v == call["message"].video IN
  /\ call["message"].stage = "error" /\ call["message"].vote = NoVote
  /\ excused' = excused \cup {v}
  /\ call' = [call EXCEPT !["message"] = NoCall]
  /\ UNCHANGED <<store, online, flusher, server, last, crossed, votes, faults>>

-----------------------------------------------------------------------------
(***************************************************************************)
(* flushPendingVotes.  A call while one is running returns at once.        *)
(***************************************************************************)
FlushCalled == flush' = IF flush = "off" THEN "read" ELSE flush

(* The timer is cleared before it is known whether there will be a flush.  *)
(* Offline it is set again, which is no step.                              *)
TimerFires ==
  /\ timer /\ online
  /\ timer' = FALSE
  /\ FlushCalled
  /\ UNCHANGED <<pending, online, batch, call, server, history, faults>>

(* The message FLUSH_PENDING_VOTES of the popup. *)
UserFlushes ==
  /\ flush = "off" /\ FlushCalled
  /\ UNCHANGED <<store, online, batch, call, server, history, faults>>

(* getPendingVotes: the loop works on this copy. *)
ReadPending ==
  /\ flush = "read"
  /\ batch' = pending
  /\ flush' = IF Queued(pending) = {} THEN "off" ELSE "next"
  /\ UNCHANGED <<store, online, call, server, history, faults>>

Current == Min(Queued(batch))

NextPending ==
  /\ flush = "next"
  /\ \/ /\ Queued(batch) = {}
        /\ flush' = "off" /\ UNCHANGED call
     \/ /\ Queued(batch) # {} /\ batch[Current].old
        /\ flush' = "expire" /\ UNCHANGED call
     \/ /\ Queued(batch) # {} /\ ~batch[Current].old
        /\ flush' = "call"
        /\ call' = [call EXCEPT !["flush"] = Request(Current, batch[Current].category)]
  /\ UNCHANGED <<store, online, batch, server, history, faults>>

FlushSent ==
  /\ call["flush"].stage = "ok"
  /\ flush' = "remove"
  /\ call' = [call EXCEPT !["flush"] = NoCall]
  /\ UNCHANGED <<store, online, batch, server, history, faults>>

(* Mutant of FlushFails: isFlushing is not reset when a vote fails. *)
FlushFailsBusy ==
  /\ call["flush"].stage = "error"
  /\ timer' = TRUE
  /\ call' = [call EXCEPT !["flush"] = NoCall]
  /\ UNCHANGED <<pending, online, flusher, server, history, faults>>

(* Mutant of FlushFails: the vote is removed from the store all the same. *)
FlushFailsAndDrops ==
  /\ call["flush"].stage = "error"
  /\ flush' = "off" /\ timer' = TRUE
  /\ pending' = [pending EXCEPT ![call["flush"].video] = NoEntry]
  /\ batch' = [v \in Videos |-> NoEntry]
  /\ call' = [call EXCEPT !["flush"] = NoCall]
  /\ UNCHANGED <<online, server, history, faults>>

(* The first failure ends the flush, whatever it was. *)
FlushFails ==
  /\ call["flush"].stage = "error"
  /\ flush' = "off" /\ timer' = TRUE
  /\ batch' = [v \in Videos |-> NoEntry]
  /\ call' = [call EXCEPT !["flush"] = NoCall]
  /\ UNCHANGED <<pending, online, server, history, faults>>

(* removePendingVote, by video id: for a vote that was sent or is too old. *)
RemovePending ==
  /\ flush \in {"remove", "expire"}
  /\ pending' = [pending EXCEPT ![Current] = NoEntry]
  /\ excused' = IF flush = "expire" THEN excused \cup {Current} ELSE excused
  /\ batch' = [batch EXCEPT ![Current] = NoEntry]
  /\ flush' = "next"
  /\ UNCHANGED <<timer, online, call, server, last, crossed, votes, faults>>

-----------------------------------------------------------------------------
GoOffline ==
  /\ online /\ Fault
  /\ online' = FALSE
  /\ UNCHANGED <<store, flusher, call, server, history>>

(* The event "online". *)
GoOnline ==
  /\ ~online
  /\ online' = TRUE
  /\ FlushCalled
  /\ UNCHANGED <<store, batch, call, server, history, faults>>

(* More than MAX_PENDING_AGE_MS go by. *)
Age(v) ==
  /\ v \in Queued(pending) /\ ~pending[v].old
  /\ Fault
  /\ pending' = [pending EXCEPT ![v].old = TRUE]
  /\ UNCHANGED <<timer, online, flusher, call, server, history>>

(***************************************************************************)
(* The browser ends the service worker and starts it again: only the store *)
(* survives, and startOfflineQueueListener sets the timer when online.  An *)
(* unanswered message is lost, and the user knows.                         *)
(***************************************************************************)
Restart ==
  /\ Fault
  /\ excused' = IF call["message"] = NoCall
                  THEN excused ELSE excused \cup {call["message"].video}
  /\ timer' = online
  /\ flush' = "off"
  /\ batch' = [v \in Videos |-> NoEntry]
  /\ call' = [r \in Runners |-> NoCall]
  /\ UNCHANGED <<pending, online, server, last, crossed, votes>>

Network(r) == Arrives(r) \/ Answered(r) \/ Refused(r) \/ Lost(r)

Message == Confirm \/ Enqueue \/ DeleteFails

Flush == ReadPending \/ NextPending \/ FlushSent \/ FlushFails \/ RemovePending

Next == \/ \E v \in Videos : \/ \E c \in Categories : SubmitVote(v, c)
                             \/ DeleteVote(v) \/ Age(v)
        \/ \E r \in Runners : Network(r)
        \/ Message \/ TimerFires \/ UserFlushes \/ Flush
        \/ GoOffline \/ GoOnline \/ Restart

Spec == Init /\ [][Next]_vars

(***************************************************************************)
(* Requests are answered while the browser is online, which it will be     *)
(* again, promises settle and timers fire.  The user need not do anything. *)
(***************************************************************************)
FairSpec == /\ Spec
            /\ \A r \in Runners : WF_vars(Arrives(r) \/ Answered(r))
            /\ WF_vars(Message) /\ WF_vars(Flush)
            /\ WF_vars(TimerFires) /\ WF_vars(GoOnline)

-----------------------------------------------------------------------------
Sending(v) == \E r \in Runners : call[r] # NoCall /\ call[r].video = v

Accounted(v) == \/ server[v] = last[v]
                \/ last[v] # NoVote /\ pending[v].category = last[v]
                \/ Sending(v)
                \/ v \in excused

RightlyRemoved(v) == \/ server[v] = pending[v].category
                     \/ pending[v].old
                     \/ last[v] # pending[v].category

(***************************************************************************)
(* The vote the user last chose for a video is in the backend or waits in  *)
(* the store, if nothing of the video is on its way ("Last-write-wins",    *)
(* "latest vote wins").  It may get lost (crossed) when it was cast over   *)
(* an older vote that was in the store or held by the flush, and           *)
(* (excused) when its deletion failed, when the worker ended before the    *)
(* answer, when the flush found it too old, or when it is a deletion over  *)
(* a vote that was still in the store (handleMessage, flushPendingVotes).  *)
(***************************************************************************)
LatestVoteWins == \A v \in Videos \ crossed : Accounted(v)

(***************************************************************************)
(* A vote that is still the user's choice leaves the store when the        *)
(* backend has it or the flush found it too old ("Vote saved offline, will *)
(* submit when connection is restored").                                   *)
(***************************************************************************)
QueueKeepsVotes ==
  [][\A v \in Queued(pending) \ Queued(pending') : RightlyRemoved(v)]_vars

(***************************************************************************)
(* removePendingVote, by video id and after two awaits, breaks that only   *)
(* for a vote cast over an older one of the video.                         *)
(***************************************************************************)
OnlyCrossedVotesLost ==
  [][\A v \in (Queued(pending) \ Queued(pending')) \ crossed : RightlyRemoved(v)]_vars

(***************************************************************************)
(* A flush ends, with its votes sent, with the first failure or with the   *)
(* worker, so that isFlushing never blocks later ones.                     *)
(***************************************************************************)
FlushEnds == flush # "off" ~> flush = "off"
=============================================================================
