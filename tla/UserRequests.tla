---------------------------- MODULE UserRequests ----------------------------
(***************************************************************************)
(* The popup's requests and the identity they are made under.              *)
(*                                                                         *)
(* popup.tsx without its switch (see Settings), GET_USER_ID of             *)
(* options.tsx, ensurePublicUserId of background.ts and identity.ts.  The  *)
(* public id is a hash of the local one, which tells local ids apart, and  *)
(* stands here as the local id it comes from.                              *)
(***************************************************************************)
EXTENDS Naturals, FiniteSets

CONSTANTS Ids,        \* what generateUUID may return
          None,
          Calls,      \* messages under way in the background at once
          MaxVotes,   \* bound on votes cast in the popup
          MaxFaults   \* bound on ends of the worker, and on failed requests

ASSUME NoneAssumption == None \notin Ids
ASSUME BoundsAssumption == MaxVotes \in Nat /\ MaxFaults \in Nat

VARIABLES localId,     \* STORAGE_KEY in chrome.storage.local
          cachedPublicUserId,
          used,        \* history: ids a request was made under
          twins,       \* history: a second id was stored over the first
          call,        \* call[c]: a message under way, see Call
          popup,       \* see Popup
          clearTimer,  \* timers of the popup that will remove the feedback
          votes, faults  \* so far

identity == <<localId, cachedPublicUserId, used, twins>>
vars     == <<identity, call, popup, clearTimer, votes, faults>>

Kinds == {"none", "init", "flush", "user id", "user info", "vote"}

(* shown: the popup that sent it is still open. *)
Call == [kind : Kinds, stage : {"off", "read", "create", "hash", "fetch"},
         id : Ids \cup {None}, shown : BOOLEAN]
Off  == [kind |-> "none", stage |-> "off", id |-> None, shown |-> FALSE]

(* page: the tab shows a video; video, status: an answer that is drawn     *)
(* when it is known; syncing: the message that handleSync waits for.       *)
Popup == [stage : {"closed", "loading", "open"}, page : BOOLEAN,
          connected : {"unknown", "online", "offline"},
          video : {"none", "asked", "known"}, status : {"none", "asked", "known"},
          submitting : BOOLEAN, feedback : {"none", "success", "error"},
          syncing : {"none", "delta", "status"}]
Closed == [stage |-> "closed", page |-> FALSE, connected |-> "unknown", video |-> "none",
           status |-> "none", submitting |-> FALSE, feedback |-> "none", syncing |-> "none"]

TypeOK ==
  /\ localId \in Ids \cup {None} /\ cachedPublicUserId \in Ids \cup {None}
  /\ used \subseteq Ids /\ twins \in BOOLEAN
  /\ call \in [Calls -> Call]
  /\ \A c \in Calls : call[c].stage \in {"create", "hash", "fetch"} => call[c].id \in Ids
  /\ popup \in Popup /\ clearTimer \in Nat
  /\ popup.submitting => popup.feedback = "none"
  /\ votes \in 0..MaxVotes /\ faults \in 0..MaxFaults

Init ==
  /\ localId \in {None} \cup Ids
  /\ cachedPublicUserId = None
  /\ used = {} /\ twins = FALSE
  /\ call \in {[c \in Calls |-> IF c = i THEN [Off EXCEPT !.kind = "init", !.stage = "read"]
                                         ELSE Off] : i \in Calls}
  /\ popup = Closed /\ clearTimer = 0
  /\ votes = 0 /\ faults = 0

Fault == faults < MaxFaults /\ faults' = faults + 1

-----------------------------------------------------------------------------
(***************************************************************************)
(* ensurePublicUserId and getLocalId.  A flush asks getPublicUserId and    *)
(* neither uses nor fills the cache.                                       *)
(***************************************************************************)
Begin(c, kind) ==
  /\ call[c] = Off
  /\ call' = [call EXCEPT ![c] = [kind |-> kind, shown |-> kind \in {"user info", "vote"},
       id |-> IF kind = "flush" THEN None ELSE cachedPublicUserId,
       stage |-> IF cachedPublicUserId = None \/ kind = "flush" THEN "read" ELSE "fetch"]]

(* generateUUID never returns an id that has been seen. *)
Unseen == Ids \ ({localId} \cup used \cup {call[c].id : c \in Calls})

(* Mutant of ReadLocalId: a generated id is used before it is stored. *)
ReadLocalIdEarly(c) ==
  /\ call[c].stage = "read"
  /\ \E id \in IF localId = None THEN Unseen ELSE {localId} :
       call' = [call EXCEPT ![c].id = id, ![c].stage = "hash"]
  /\ UNCHANGED <<localId, cachedPublicUserId, used, twins, popup, clearTimer, votes, faults>>

ReadLocalId(c) ==
  /\ call[c].stage = "read"
  /\ \E id \in IF localId = None THEN Unseen ELSE {localId} :
       call' = [call EXCEPT ![c].id = id,
                            ![c].stage = IF localId = None THEN "create" ELSE "hash"]
  /\ UNCHANGED <<localId, cachedPublicUserId, used, twins, popup, clearTimer, votes, faults>>

SetLocalId(c) ==
  /\ call[c].stage = "create"
  /\ localId' = call[c].id
  /\ twins' = (twins \/ localId # None)
  /\ call' = [call EXCEPT ![c].stage = "hash"]
  /\ UNCHANGED <<cachedPublicUserId, used, popup, clearTimer, votes, faults>>

Hashed(c) ==
  /\ call[c].stage = "hash"
  /\ cachedPublicUserId' = IF call[c].kind = "flush" THEN cachedPublicUserId ELSE call[c].id
  /\ used' = used \cup {call[c].id}
  /\ call' = [call EXCEPT ![c] = IF call[c].kind = "init" THEN Off
                                 ELSE [@ EXCEPT !.stage = "fetch"]]
  /\ UNCHANGED <<localId, twins, popup, clearTimer, votes, faults>>

(* A flush, whose requests are in OfflineQueue, or GET_USER_ID. *)
BeginOther(c) ==
  /\ \E kind \in {"flush", "user id"} : Begin(c, kind)
  /\ UNCHANGED <<identity, popup, clearTimer, votes, faults>>

-----------------------------------------------------------------------------
(***************************************************************************)
(* The popup.                                                              *)
(***************************************************************************)
OpenPopup ==
  /\ popup.stage = "closed"
  /\ popup' = [Closed EXCEPT !.stage = "loading"]
  /\ UNCHANGED <<identity, call, clearTimer, votes, faults>>

(* loadData, which then waits for three answers at once. *)
LoadData(c) ==
  /\ popup.stage = "loading"
  /\ Begin(c, "user info")
  /\ \E page \in BOOLEAN :
       popup' = [popup EXCEPT !.stage = "open", !.page = page, !.status = "asked",
                              !.video = IF page THEN "asked" ELSE "none"]
  /\ UNCHANGED <<identity, clearTimer, votes, faults>>

LoadDataFails ==
  /\ popup.stage = "loading" /\ Fault
  /\ popup' = [popup EXCEPT !.stage = "open", !.connected = "offline"]
  /\ UNCHANGED <<identity, call, clearTimer, votes>>

(* GET_SYNC_STATUS and CHECK_VIDEOS are answered, or without anything to draw. *)
Drawn(section) ==
  /\ popup[section] = "asked"
  /\ \E answer \in {"known", "none"} : popup' = [popup EXCEPT ![section] = answer]
  /\ UNCHANGED <<identity, call, clearTimer, votes, faults>>

(* The buttons, which give way to the feedback. *)
QuickVote == /\ popup.stage = "open" /\ popup.page
             /\ ~popup.submitting /\ popup.feedback = "none"

(* Mutant of HandleVote: the buttons stay beside the feedback. *)
HandleVoteBeside(c) ==
  /\ popup.stage = "open" /\ popup.page
  /\ ~popup.submitting
  /\ votes < MaxVotes /\ votes' = votes + 1
  /\ popup' = [popup EXCEPT !.submitting = TRUE, !.feedback = "none"]
  /\ Begin(c, "vote")
  /\ UNCHANGED <<identity, clearTimer, faults>>

HandleVote(c) ==
  /\ QuickVote
  /\ votes < MaxVotes /\ votes' = votes + 1
  /\ popup' = [popup EXCEPT !.submitting = TRUE, !.feedback = "none"]
  /\ Begin(c, "vote")
  /\ UNCHANGED <<identity, clearTimer, faults>>

(* Mutant of VoteAnswered: without the finally. *)
VoteAnsweredOnly(feedback) ==
  /\ popup' = [popup EXCEPT !.submitting = (feedback = "error"), !.feedback = feedback]
  /\ clearTimer' = clearTimer + 1

VoteAnswered(feedback) ==
  /\ popup' = [popup EXCEPT !.submitting = FALSE, !.feedback = feedback]
  /\ clearTimer' = clearTimer + 1

(* The answer of the background.  A vote that did not reach the server is  *)
(* queued and reported like one that did.                                  *)
Answered(c) ==
  /\ call[c].stage = "fetch"
  /\ call' = [call EXCEPT ![c] = Off]
  /\ IF call[c].shown /\ call[c].kind = "vote" THEN VoteAnswered("success")
     ELSE /\ popup' = IF call[c].shown THEN [popup EXCEPT !.connected = "online"] ELSE popup
          /\ UNCHANGED clearTimer
  /\ UNCHANGED <<identity, votes, faults>>

(* success: false.  The popup says nothing of a user info it did not get. *)
Refused(c) ==
  /\ call[c].stage = "fetch" /\ Fault
  /\ call' = [call EXCEPT ![c] = Off]
  /\ IF call[c].shown /\ call[c].kind = "vote" THEN VoteAnswered("error")
     ELSE UNCHANGED <<popup, clearTimer>>
  /\ UNCHANGED <<identity, votes>>

ClearTimer ==
  /\ clearTimer > 0
  /\ clearTimer' = clearTimer - 1
  /\ popup' = [popup EXCEPT !.feedback = "none"]
  /\ UNCHANGED <<identity, call, votes, faults>>

(* The button that syncs, drawn when the status is known. *)
CacheInfo == popup.status = "known" /\ popup.syncing = "none"

HandleSync ==
  /\ CacheInfo
  /\ popup' = [popup EXCEPT !.syncing = "delta"]
  /\ UNCHANGED <<identity, call, clearTimer, votes, faults>>

(* Also a sync that failed is followed by the status. *)
SyncAnswered ==
  /\ popup.syncing # "none"
  /\ popup' = [popup EXCEPT !.syncing = IF @ = "delta" THEN "status" ELSE "none"]
  /\ UNCHANGED <<identity, call, clearTimer, votes, faults>>

(* Its calls go on in the background. *)
ClosePopup ==
  /\ popup.stage # "closed"
  /\ popup' = Closed /\ clearTimer' = 0
  /\ call' = [c \in Calls |-> [call[c] EXCEPT !.shown = FALSE]]
  /\ UNCHANGED <<identity, votes, faults>>

-----------------------------------------------------------------------------
(***************************************************************************)
(* The browser ends the worker and starts it for the next event; what the  *)
(* popup waits for is rejected.                                            *)
(***************************************************************************)
Waiting(kind) == \E c \in Calls : call[c].kind = kind /\ call[c].shown

Restart ==
  /\ Fault
  /\ cachedPublicUserId' = None
  /\ call' \in {[c \in Calls |-> IF c = i THEN [Off EXCEPT !.kind = "init", !.stage = "read"]
                                          ELSE Off] : i \in Calls}
  /\ popup' = [popup EXCEPT
       !.submitting = FALSE, !.syncing = "none",
       !.feedback = IF popup.submitting THEN "error" ELSE @,
       !.connected = IF Waiting("user info") THEN "offline" ELSE @,
       !.status = IF @ = "asked" THEN "none" ELSE @,
       !.video  = IF @ = "asked" THEN "none" ELSE @]
  /\ clearTimer' = IF popup.submitting THEN clearTimer + 1 ELSE clearTimer
  /\ UNCHANGED <<localId, used, twins, votes>>

Identity(c) == ReadLocalId(c) \/ SetLocalId(c) \/ Hashed(c)

Next == \/ \E c \in Calls : \/ Identity(c) \/ BeginOther(c) \/ LoadData(c)
                            \/ HandleVote(c) \/ Answered(c) \/ Refused(c)
        \/ \E section \in {"video", "status"} : Drawn(section)
        \/ OpenPopup \/ LoadDataFails \/ ClearTimer \/ HandleSync \/ SyncAnswered
        \/ ClosePopup \/ Restart

Spec == Init /\ [][Next]_vars

(* The storage, the hash and the server answer, timers fire. *)
FairSpec ==
  /\ Spec
  /\ \A c \in Calls : WF_vars(Identity(c) \/ Answered(c))
  /\ WF_vars(ClearTimer) /\ WF_vars(SyncAnswered)

-----------------------------------------------------------------------------
(***************************************************************************)
(* Every request is made under the id that is stored, also after the       *)
(* worker ended in the middle of creating it, unless two first callers     *)
(* both found none (getLocalId): the later one then stores over the        *)
(* earlier, which may already be in use.                                   *)
(***************************************************************************)
OneIdentity == used \subseteq {localId} \/ twins

(***************************************************************************)
(* The timer that removes a feedback is its own: no vote is answered while *)
(* the timer of an earlier one is set (handleVote, QuickVote).             *)
(***************************************************************************)
FeedbackOwnTimer == clearTimer = IF popup.feedback = "none" THEN 0 ELSE 1

(***************************************************************************)
(* The popup does not wait for ever for a vote or a sync, also when the    *)
(* worker ends, and the feedback of a vote goes away (handleVote,          *)
(* handleSync, which ends in silence when the sync failed).                *)
(***************************************************************************)
PopupSettles ==
  []<>(~popup.submitting /\ popup.syncing = "none" /\ popup.feedback = "none")
=============================================================================
