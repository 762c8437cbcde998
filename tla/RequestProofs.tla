--------------------------- MODULE RequestProofs ----------------------------
(***************************************************************************)
(* Proofs about the requests of one extension user: UserRequests, the      *)
(* identity they are made under and the popup's feedback, for any number   *)
(* of messages at once, and next to it OfflineQueue (Q), the votes that    *)
(* are sent later.  Q is an instance of its module, whose assumptions are  *)
(* the hypotheses of its theorems; the two have no steps together.         *)
(***************************************************************************)
EXTENDS UserRequests, SumTheorems, TLAPS

(* Of OfflineQueue, which has MaxVotes, MaxFaults, call, votes and faults too. *)
CONSTANTS Videos, Categories, NoVote, Retries
VARIABLES pending, timer, online, flush, batch, server, last, excused, crossed

Q == INSTANCE OfflineQueue

-----------------------------------------------------------------------------
(***************************************************************************)
(* The inductive invariant.  A call that has its id has the stored one,    *)
(* and the popup waits for one vote at most: its own.                      *)
(***************************************************************************)
SameId == \/ twins
          \/ /\ \A c \in Calls : call[c].stage \in {"hash", "fetch"} => call[c].id = localId
             /\ cachedPublicUserId \in {None, localId}
             /\ used \subseteq {localId}

ShownVote(c) == call[c].shown /\ call[c].kind = "vote"

OneVote == /\ \A c \in Calls : ShownVote(c) => popup.submitting
           /\ \A c, d \in Calls : ShownVote(c) /\ ShownVote(d) => c = d

Idle == popup.stage # "open" => ~popup.submitting /\ popup.feedback = "none"

Inv == TypeOK /\ SameId /\ OneVote /\ Idle /\ FeedbackOwnTimer

(* A popup stays one when a field is set to a value of its kind. *)
LEMMA PopupFields ==
  ASSUME NEW p \in Popup
  PROVE  /\ \A b \in BOOLEAN : [p EXCEPT !.submitting = b] \in Popup
         /\ \A f \in {"none", "success", "error"} : [p EXCEPT !.feedback = f] \in Popup
         /\ \A k \in {"unknown", "online", "offline"} : [p EXCEPT !.connected = k] \in Popup
         /\ \A g \in {"none", "delta", "status"} : [p EXCEPT !.syncing = g] \in Popup
  <1>1. ASSUME NEW b \in BOOLEAN PROVE [p EXCEPT !.submitting = b] \in Popup
    BY DEF Popup
  <1>2. ASSUME NEW f \in {"none", "success", "error"} PROVE [p EXCEPT !.feedback = f] \in Popup
    BY DEF Popup
  <1>3. ASSUME NEW k \in {"unknown", "online", "offline"} PROVE [p EXCEPT !.connected = k] \in Popup
    BY DEF Popup
  <1>4. ASSUME NEW g \in {"none", "delta", "status"} PROVE [p EXCEPT !.syncing = g] \in Popup
    BY DEF Popup
  <1>. QED
    BY <1>1, <1>2, <1>3, <1>4

(* A message that begins, by its kind. *)
LEMMA BeginType ==
  ASSUME call \in [Calls -> Call], cachedPublicUserId \in Ids \cup {None},
         NEW c \in Calls, NEW kind \in Kinds, Begin(c, kind)
  PROVE  call' \in [Calls -> Call]
  <1>. DEFINE shown == kind \in {"user info", "vote"}
              id    == IF kind = "flush" THEN None ELSE cachedPublicUserId
              stage == IF cachedPublicUserId = None \/ kind = "flush" THEN "read" ELSE "fetch"
              new   == [kind |-> kind, shown |-> shown, id |-> id, stage |-> stage]
  <1>1. shown \in BOOLEAN
    OBVIOUS
  <1>2. id \in Ids \cup {None} /\ stage \in {"read", "fetch"}
    OBVIOUS
  <1>3. new \in Call
    <2>. HIDE DEF shown, id, stage
    <2>. QED
      BY <1>1, <1>2 DEF Call
  <1>4. call' = [call EXCEPT ![c] = new]
    BY DEF Begin
  <1>. QED
    BY <1>3, <1>4

(* What a new message has: an id only if one is cached, and no other changes. *)
LEMMA BeginStage ==
  ASSUME call \in [Calls -> Call], NEW c \in Calls, NEW kind \in Kinds, Begin(c, kind)
  PROVE  /\ call'[c].kind = kind
         /\ call'[c].shown = (kind \in {"user info", "vote"})
         /\ \/ call'[c].stage = "read"
            \/ /\ call'[c].stage = "fetch" /\ call'[c].id = cachedPublicUserId
               /\ cachedPublicUserId # None
         /\ \A d \in Calls \ {c} : call'[d] = call[d]
         /\ call[c] = Off
  <1>1. call'[c].kind = kind /\ call'[c].shown = (kind \in {"user info", "vote"})
    BY DEF Begin
  <1>2. \/ call'[c].stage = "read"
        \/ call'[c].stage = "fetch" /\ call'[c].id = cachedPublicUserId
                                   /\ cachedPublicUserId # None
    BY DEF Begin
  <1>3. (\A d \in Calls \ {c} : call'[d] = call[d]) /\ call[c] = Off
    BY DEF Begin
  <1>. QED
    BY <1>1, <1>2, <1>3
-----------------------------------------------------------------------------
(* TypeOK in parts, each disturbed by other actions. *)
IdsType    == /\ localId \in Ids \cup {None} /\ cachedPublicUserId \in Ids \cup {None}
              /\ used \subseteq Ids /\ twins \in BOOLEAN
CallsType  == /\ call \in [Calls -> Call]
              /\ \A c \in Calls : call[c].stage \in {"create", "hash", "fetch"}
                                => call[c].id \in Ids
PopupType  == /\ popup \in Popup /\ clearTimer \in Nat
              /\ popup.submitting => popup.feedback = "none"
BoundsType == votes \in 0..MaxVotes /\ faults \in 0..MaxFaults

(* TypeOK by what it is about: ids, messages, the popup, the bounds, ... *)
LEMMA TypeParts == TypeOK <=> IdsType /\ CallsType /\ PopupType /\ BoundsType
  BY DEF TypeOK, IdsType, CallsType, PopupType, BoundsType

(* ... and the same after a step. *)
LEMMA TypePartsNext == TypeOK' <=> IdsType' /\ CallsType' /\ PopupType' /\ BoundsType'
  BY DEF TypeOK, IdsType, CallsType, PopupType, BoundsType

(* The worker starts, and the popup is closed. *)
LEMMA InitInv == ASSUME Init PROVE Inv
  <1>1. PICK i \in Calls : call = [c \in Calls |->
          IF c = i THEN [Off EXCEPT !.kind = "init", !.stage = "read"] ELSE Off]
    BY DEF Init
  <1>2. Off \in Call /\ [Off EXCEPT !.kind = "init", !.stage = "read"] \in Call
    BY DEF Off, Call, Kinds
  <1>3. \A c \in Calls : call[c].stage \in {"off", "read"} /\ ~call[c].shown
    BY <1>1 DEF Off
  <1>4. CallsType
    BY <1>1, <1>2, <1>3 DEF CallsType
  <1>5. popup \in Popup /\ ~popup.submitting /\ popup.feedback = "none"
    BY DEF Init, Closed, Popup
  <1>6. IdsType /\ BoundsType
    <2>1. /\ localId \in {None} \cup Ids /\ cachedPublicUserId = None
          /\ used = {} /\ twins = FALSE
      BY DEF Init
    <2>2. votes = 0 /\ faults = 0
      BY DEF Init
    <2>3. twins \in BOOLEAN
      BY <2>1
    <2>4. IdsType
      BY <2>1, <2>3 DEF IdsType
    <2>5. BoundsType
      BY <2>2, BoundsAssumption DEF BoundsType
    <2>. QED
      BY <2>4, <2>5
  <1>7. PopupType
    BY <1>5 DEF Init, PopupType
  <1>8. SameId
    BY <1>3 DEF Init, SameId
  <1>9. OneVote /\ Idle /\ FeedbackOwnTimer
    BY <1>3, <1>5 DEF Init, OneVote, ShownVote, Idle, FeedbackOwnTimer
  <1>. QED
    BY <1>4, <1>6, <1>7, <1>8, <1>9, TypeParts DEF Inv

-----------------------------------------------------------------------------
(* The steps, by what they disturb: ids, calls, the popup, the bounds. *)
LEMMA BoundsStep == ASSUME BoundsType, Next PROVE BoundsType'
  <1>1. /\ votes' = votes \/ (votes < MaxVotes /\ votes' = votes + 1)
        /\ faults' = faults \/ (faults < MaxFaults /\ faults' = faults + 1)
    BY DEF Next, Identity, ReadLocalId, SetLocalId, Hashed, BeginOther, LoadData, HandleVote,
           Answered, Refused, Drawn, OpenPopup, LoadDataFails, ClearTimer, HandleSync,
           SyncAnswered, ClosePopup, Restart, Fault
  <1>2. votes' \in 0..MaxVotes
    BY <1>1, BoundsAssumption DEF BoundsType
  <1>3. faults' \in 0..MaxFaults
    BY <1>1, BoundsAssumption DEF BoundsType
  <1>. QED
    BY <1>2, <1>3 DEF BoundsType

(* A message that begins has no id but the cached one. *)
LEMMA BeginCalls ==
  ASSUME IdsType, CallsType, NEW c \in Calls, NEW kind \in Kinds, Begin(c, kind)
  PROVE  CallsType'
  <1>1. call' \in [Calls -> Call]
    BY BeginType DEF IdsType, CallsType
  <1>2. ASSUME NEW d \in Calls, call'[d].stage \in {"create", "hash", "fetch"}
        PROVE  call'[d].id \in Ids
    BY <1>2, BeginStage DEF IdsType, CallsType
  <1>. QED
    BY <1>1, <1>2 DEF CallsType

(* Where a call goes with the id that ReadLocalId gives it. *)
LEMMA IdentityStep ==
  ASSUME IdsType, CallsType, NEW c \in Calls, Identity(c)
  PROVE  /\ IdsType' /\ CallsType'
         /\ UNCHANGED <<popup, clearTimer>>
         /\ \A d \in Calls : call'[d] = Off \/ ( /\ call'[d].kind = call[d].kind
                                              /\ call'[d].shown = call[d].shown)
  <1>. USE DEF CallsType
  <1>1. CASE ReadLocalId(c)
    <2>1. PICK id \in IF localId = None THEN Unseen ELSE {localId} :
            call' = [call EXCEPT ![c].id = id,
                                 ![c].stage = IF localId = None THEN "create" ELSE "hash"]
      BY <1>1 DEF ReadLocalId
    <2>2. id \in Ids
      BY <2>1 DEF IdsType, Unseen
    <2>3. CallsType'
      BY ZenonT(60), <2>1, <2>2 DEF Call
    <2>4. \A d \in Calls : call'[d].kind = call[d].kind /\ call'[d].shown = call[d].shown
      BY <2>1 DEF Call
    <2>5. IdsType'
      BY <1>1 DEF ReadLocalId, IdsType
    <2>. QED
      BY <1>1, <2>3, <2>4, <2>5 DEF ReadLocalId
  <1>2. CASE SetLocalId(c)
    <2>1. call' = [call EXCEPT ![c].stage = "hash"] /\ localId' = call[c].id
      BY <1>2 DEF SetLocalId
    <2>2. call[c].id \in Ids
      BY <1>2 DEF SetLocalId
    <2>3. CallsType'
      BY <2>1, <2>2 DEF Call
    <2>4. \A d \in Calls : call'[d].kind = call[d].kind /\ call'[d].shown = call[d].shown
      BY <2>1 DEF Call
    <2>5. twins' \in BOOLEAN
      BY <1>2 DEF SetLocalId
    <2>6. IdsType'
      BY <1>2, <2>1, <2>2, <2>5 DEF SetLocalId, IdsType
    <2>. QED
      BY <1>2, <2>3, <2>4, <2>6 DEF SetLocalId
  <1>3. CASE Hashed(c)
    <2>1. call[c].id \in Ids
      BY <1>3 DEF Hashed
    <2>2. call' = [call EXCEPT ![c] = Off] \/ call' = [call EXCEPT ![c].stage = "fetch"]
      BY <1>3 DEF Hashed
    <2>3. Off \in Call /\ Off.stage = "off"
      BY DEF Off, Call, Kinds
    <2>4. CallsType'
      <3>1. CASE call' = [call EXCEPT ![c] = Off]
        BY <2>3, <3>1
      <3>2. CASE call' = [call EXCEPT ![c].stage = "fetch"]
        BY <2>1, <3>2 DEF Call
      <3>. QED
        BY <2>2, <3>1, <3>2
    <2>5. \A d \in Calls : call'[d] = Off \/ ( /\ call'[d].kind = call[d].kind
                                           /\ call'[d].shown = call[d].shown)
      BY <2>2 DEF Call
    <2>6. IdsType'
      BY <1>3, <2>1 DEF Hashed, IdsType
    <2>. QED
      BY <1>3, <2>4, <2>5, <2>6 DEF Hashed
  <1>. QED
    BY <1>1, <1>2, <1>3 DEF Identity

(* The actions one by one. *)
LEMMA NextCases ==
  ASSUME Next
  PROVE  \/ \E c \in Calls : \/ ReadLocalId(c) \/ SetLocalId(c) \/ Hashed(c) \/ BeginOther(c)
                            \/ LoadData(c) \/ HandleVote(c) \/ Answered(c) \/ Refused(c)
         \/ \E section \in {"video", "status"} : Drawn(section)
         \/ OpenPopup \/ LoadDataFails \/ ClearTimer \/ HandleSync \/ SyncAnswered
         \/ ClosePopup \/ Restart
  BY DEF Next, Identity

(* What the answer to a vote, or to anything else, does to the popup. *)
LEMMA AnswerPopup ==
  ASSUME PopupType, NEW c \in Calls, Answered(c) \/ Refused(c)
  PROVE  PopupType'
  <1>. USE DEF PopupType
  <1>1. \/ \E f \in {"success", "error"} :
             /\ popup' = [popup EXCEPT !.submitting = FALSE, !.feedback = f]
             /\ clearTimer' = clearTimer + 1
        \/ popup' = [popup EXCEPT !.connected = "online"] /\ UNCHANGED clearTimer
        \/ UNCHANGED <<popup, clearTimer>>
    BY DEF Answered, Refused, VoteAnswered
  <1>2. CASE \E f \in {"success", "error"} :
             /\ popup' = [popup EXCEPT !.submitting = FALSE, !.feedback = f]
             /\ clearTimer' = clearTimer + 1
    <2>1. PICK f \in {"success", "error"} :
            popup' = [popup EXCEPT !.submitting = FALSE, !.feedback = f]
      BY <1>2
    <2>2. popup' \in Popup /\ ~popup'.submitting
      BY <2>1 DEF Popup
    <2>3. clearTimer' \in Nat
      BY <1>2
    <2>. QED
      BY <2>2, <2>3
  <1>3. CASE popup' = [popup EXCEPT !.connected = "online"] /\ UNCHANGED clearTimer
    BY <1>3 DEF Popup
  <1>. QED
    BY <1>1, <1>2, <1>3

(* Types: the popup. *)
LEMMA PopupStep == ASSUME PopupType, IdsType, CallsType, Next PROVE PopupType'
  <1>. USE DEF PopupType
  <1>1. ASSUME NEW c \in Calls, ReadLocalId(c) \/ SetLocalId(c) \/ Hashed(c) PROVE PopupType'
    BY <1>1, IdentityStep DEF Identity
  <1>2. ASSUME NEW c \in Calls, BeginOther(c) PROVE PopupType'
    BY <1>2 DEF BeginOther
  <1>3. ASSUME NEW c \in Calls, LoadData(c) PROVE PopupType'
    BY <1>3 DEF LoadData, Popup
  <1>4. ASSUME NEW c \in Calls, HandleVote(c) PROVE PopupType'
    <2>1. /\ popup' = [popup EXCEPT !.submitting = TRUE, !.feedback = "none"]
          /\ UNCHANGED clearTimer
      BY <1>4 DEF HandleVote
    <2>. QED
      BY <2>1 DEF Popup
  <1>5. ASSUME NEW section \in {"video", "status"}, Drawn(section) PROVE PopupType'
    BY <1>5 DEF Drawn, Popup
  <1>6. CASE OpenPopup
    BY <1>6 DEF OpenPopup, Closed, Popup
  <1>7. CASE LoadDataFails
    BY <1>7 DEF LoadDataFails, Popup
  <1>8. CASE ClearTimer
    <2>1. popup' = [popup EXCEPT !.feedback = "none"] /\ clearTimer' \in Nat
      BY <1>8 DEF ClearTimer
    <2>. QED
      BY <2>1 DEF Popup
  <1>9. CASE HandleSync
    BY <1>9 DEF HandleSync, Popup
  <1>10. CASE SyncAnswered
    BY <1>10 DEF SyncAnswered, Popup
  <1>11. CASE ClosePopup
    BY <1>11 DEF ClosePopup, Closed, Popup
  <1>12. CASE Restart
    <2>1. clearTimer' \in Nat
      BY <1>12 DEF Restart
    <2>. DEFINE f == IF popup.submitting THEN "error" ELSE popup.feedback
                k == IF Waiting("user info") THEN "offline" ELSE popup.connected
                s == IF popup.status = "asked" THEN "none" ELSE popup.status
                v == IF popup.video = "asked" THEN "none" ELSE popup.video
    <2>2. f \in {"none", "success", "error"}
      BY DEF Popup
    <2>3. k \in {"unknown", "online", "offline"}
      BY DEF Popup
    <2>4. s \in {"none", "asked", "known"} /\ v \in {"none", "asked", "known"}
      BY DEF Popup
    <2>5. popup' = [popup EXCEPT !.submitting = FALSE, !.syncing = "none", !.feedback = f,
                                 !.connected = k, !.status = s, !.video = v]
      BY <1>12 DEF Restart, Popup
    <2>. HIDE DEF f, k, s, v
    <2>. QED
      BY ZenonT(60), <2>1, <2>2, <2>3, <2>4, <2>5 DEF Popup
  <1>. QED
    BY <1>1, <1>2, <1>3, <1>4, <1>5, <1>6, <1>7, <1>8, <1>9, <1>10, <1>11, <1>12,
       AnswerPopup, NextCases

(* Types: a worker that starts again. *)
LEMMA RestartCalls ==
  ASSUME Restart
  PROVE  /\ call' \in [Calls -> Call]
         /\ \A c \in Calls : call'[c].stage \in {"off", "read"} /\ ~call'[c].shown
  <1>1. PICK i \in Calls : call' = [c \in Calls |->
          IF c = i THEN [Off EXCEPT !.kind = "init", !.stage = "read"] ELSE Off]
    BY DEF Restart
  <1>2. Off \in Call /\ [Off EXCEPT !.kind = "init", !.stage = "read"] \in Call
    BY DEF Off, Call, Kinds
  <1>3. \A c \in Calls : call'[c].stage \in {"off", "read"} /\ ~call'[c].shown
    BY <1>1 DEF Off
  <1>. QED
    BY <1>1, <1>2, <1>3

(* Types: the messages. *)
LEMMA CallsStep == ASSUME IdsType, CallsType, Next PROVE CallsType'
  <1>. USE DEF CallsType
  <1>1. Off \in Call /\ Off.stage = "off"
    BY DEF Off, Call, Kinds
  <1>2. ASSUME NEW c \in Calls, ReadLocalId(c) \/ SetLocalId(c) \/ Hashed(c) PROVE CallsType'
    BY <1>2, IdentityStep DEF Identity
  <1>3. ASSUME NEW c \in Calls, BeginOther(c) \/ LoadData(c) \/ HandleVote(c) PROVE CallsType'
    <2>1. PICK kind \in Kinds : Begin(c, kind)
      BY <1>3 DEF BeginOther, LoadData, HandleVote, Kinds
    <2>. QED
      BY <2>1, BeginCalls
  <1>4. ASSUME NEW c \in Calls, Answered(c) \/ Refused(c) PROVE CallsType'
    <2>1. call' = [call EXCEPT ![c] = Off]
      BY <1>4 DEF Answered, Refused
    <2>. QED
      BY <1>1, <2>1
  <1>5. CASE ClosePopup
    <2>1. call' = [c \in Calls |-> [call[c] EXCEPT !.shown = FALSE]]
      BY <1>5 DEF ClosePopup
    <2>. QED
      BY <2>1 DEF Call
  <1>6. CASE Restart
    BY <1>6, RestartCalls
  <1>7. CASE \/ \E section \in {"video", "status"} : Drawn(section)
             \/ OpenPopup \/ LoadDataFails \/ ClearTimer \/ HandleSync \/ SyncAnswered
    BY <1>7 DEF Drawn, OpenPopup, LoadDataFails, ClearTimer, HandleSync, SyncAnswered
  <1>. QED
    BY <1>2, <1>3, <1>4, <1>5, <1>6, <1>7, NextCases

(* Types: the ids. *)
LEMMA IdsStep == ASSUME IdsType, CallsType, Next PROVE IdsType'
  <1>1. ASSUME NEW c \in Calls, ReadLocalId(c) \/ SetLocalId(c) \/ Hashed(c) PROVE IdsType'
    BY <1>1, IdentityStep DEF Identity
  <1>2. CASE Restart
    <2>1. cachedPublicUserId' = None /\ UNCHANGED <<localId, used, twins>>
      BY <1>2 DEF Restart
    <2>. QED
      BY <2>1 DEF IdsType
  <1>3. ASSUME UNCHANGED identity PROVE IdsType'
    BY <1>3 DEF identity, IdsType
  <1>4. ASSUME NEW c \in Calls, \/ BeginOther(c) \/ LoadData(c) \/ HandleVote(c)
                               \/ Answered(c) \/ Refused(c)
        PROVE  UNCHANGED identity
    BY <1>4 DEF BeginOther, LoadData, HandleVote, Answered, Refused
  <1>5. ASSUME \/ \E section \in {"video", "status"} : Drawn(section)
               \/ OpenPopup \/ LoadDataFails \/ ClearTimer \/ HandleSync
               \/ SyncAnswered \/ ClosePopup
        PROVE  UNCHANGED identity
    BY <1>5 DEF Drawn, OpenPopup, LoadDataFails, ClearTimer, HandleSync, SyncAnswered, ClosePopup
  <1>. QED
    BY <1>1, <1>2, <1>3, <1>4, <1>5, NextCases

-----------------------------------------------------------------------------
(***************************************************************************)
(* One identity.  Where none is stored, none was used: so the first one    *)
(* stored is the only one, unless another is stored over it.               *)
(***************************************************************************)
LEMMA SameStep == ASSUME IdsType, CallsType, SameId, Next PROVE SameId'
  <1>. USE DEF IdsType, CallsType
  <1>0. SUFFICES ASSUME ~twins' PROVE SameId'
    BY DEF SameId
  <1>1. twins' = twins \/ \E c \in Calls : SetLocalId(c)
    BY NextCases DEF ReadLocalId, Hashed, BeginOther, LoadData, HandleVote, Answered, Refused,
       Drawn, OpenPopup, LoadDataFails, ClearTimer, HandleSync, SyncAnswered, ClosePopup,
       Restart, identity
  <1>2. ~twins
    BY <1>0, <1>1 DEF SetLocalId
  <1>3. /\ \A c \in Calls : call[c].stage \in {"hash", "fetch"} => call[c].id = localId
        /\ cachedPublicUserId \in {None, localId}
        /\ used \subseteq {localId}
    BY <1>2 DEF SameId
  <1>4. ASSUME NEW c \in Calls, ReadLocalId(c) PROVE SameId'
    <2>1. PICK id \in IF localId = None THEN Unseen ELSE {localId} :
            call' = [call EXCEPT ![c].id = id,
                                 ![c].stage = IF localId = None THEN "create" ELSE "hash"]
      BY <1>4 DEF ReadLocalId
    <2>2. \A d \in Calls : call'[d].stage \in {"hash", "fetch"} => call'[d].id = localId
      BY <1>3, <2>1 DEF Call
    <2>. QED
      BY <1>3, <1>4, <2>2 DEF ReadLocalId, SameId
  <1>5. ASSUME NEW c \in Calls, SetLocalId(c) PROVE SameId'
    <2>1. localId = None
      BY <1>0, <1>5 DEF SetLocalId
    <2>2. used = {} /\ cachedPublicUserId = None
      BY <1>3, <2>1, NoneAssumption
    <2>3. \A d \in Calls : call[d].stage \notin {"hash", "fetch"}
      BY <1>3, <2>1, NoneAssumption
    <2>4. call' = [call EXCEPT ![c].stage = "hash"] /\ localId' = call[c].id
      BY <1>5 DEF SetLocalId
    <2>5. \A d \in Calls : call'[d].stage \in {"hash", "fetch"} => call'[d].id = localId'
      BY <2>3, <2>4 DEF Call
    <2>. QED
      BY <1>5, <2>2, <2>5 DEF SetLocalId, SameId
  <1>6. ASSUME NEW c \in Calls, Hashed(c) PROVE SameId'
    <2>1. call[c].id = localId
      BY <1>3, <1>6 DEF Hashed
    <2>2. call' = [call EXCEPT ![c] = Off] \/ call' = [call EXCEPT ![c].stage = "fetch"]
      BY <1>6 DEF Hashed
    <2>3. \A d \in Calls : call'[d].stage \in {"hash", "fetch"} => call'[d].id = localId
      <3>1. CASE call' = [call EXCEPT ![c] = Off]
        BY <1>3, <3>1 DEF Off
      <3>2. CASE call' = [call EXCEPT ![c].stage = "fetch"]
        BY <1>3, <2>1, <3>2 DEF Call
      <3>. QED
        BY <2>2, <3>1, <3>2
    <2>. QED
      BY <1>3, <1>6, <2>1, <2>3 DEF Hashed, SameId
  <1>7. ASSUME NEW c \in Calls, BeginOther(c) \/ LoadData(c) \/ HandleVote(c) PROVE SameId'
    <2>1. PICK kind \in Kinds : Begin(c, kind)
      BY <1>7 DEF BeginOther, LoadData, HandleVote, Kinds
    <2>2. UNCHANGED identity
      BY <1>7 DEF BeginOther, LoadData, HandleVote
    <2>3. \A d \in Calls : call'[d].stage \in {"hash", "fetch"} => call'[d].id = localId
      BY <1>3, <2>1, BeginStage
    <2>. QED
      BY <1>3, <2>2, <2>3 DEF identity, SameId
  <1>8. ASSUME NEW c \in Calls, Answered(c) \/ Refused(c) PROVE SameId'
    <2>1. call' = [call EXCEPT ![c] = Off] /\ UNCHANGED identity
      BY <1>8 DEF Answered, Refused
    <2>2. \A d \in Calls : call'[d].stage \in {"hash", "fetch"} => call'[d].id = localId
      BY <1>3, <2>1 DEF Off
    <2>. QED
      BY <1>3, <2>1, <2>2 DEF identity, SameId
  <1>9. CASE ClosePopup
    <2>1. /\ call' = [c \in Calls |-> [call[c] EXCEPT !.shown = FALSE]]
          /\ UNCHANGED identity
      BY <1>9 DEF ClosePopup
    <2>2. \A d \in Calls : call'[d].stage \in {"hash", "fetch"} => call'[d].id = localId
      BY <1>3, <2>1 DEF Call
    <2>. QED
      BY <1>3, <2>1, <2>2 DEF identity, SameId
  <1>10. CASE Restart
    <2>1. cachedPublicUserId' = None /\ UNCHANGED <<localId, used>>
      BY <1>10 DEF Restart
    <2>. QED
      BY <1>3, <1>10, <2>1, RestartCalls DEF SameId
  <1>11. CASE \/ \E section \in {"video", "status"} : Drawn(section)
              \/ OpenPopup \/ LoadDataFails \/ ClearTimer \/ HandleSync \/ SyncAnswered
    <2>1. UNCHANGED <<identity, call>>
      BY <1>11 DEF Drawn, OpenPopup, LoadDataFails, ClearTimer, HandleSync, SyncAnswered
    <2>. QED
      BY <1>3, <2>1 DEF identity, SameId
  <1>. QED
    BY <1>4, <1>5, <1>6, <1>7, <1>8, <1>9, <1>10, <1>11, NextCases

-----------------------------------------------------------------------------
(***************************************************************************)
(* One vote at a time.  Its buttons are there only without feedback, so no *)
(* timer is set when it is answered.                                       *)
(***************************************************************************)
Votes == OneVote /\ Idle /\ FeedbackOwnTimer

(* A step that shows no new vote and leaves the feedback alone. *)
LEMMA VotesKept ==
  ASSUME Votes,
         \A c \in Calls : ShownVote(c)' => ShownVote(c),
         popup'.submitting = popup.submitting, popup'.feedback = popup.feedback,
         popup'.stage # "open" => popup.stage # "open",
         clearTimer' = clearTimer
  PROVE  Votes'
  BY DEF Votes, OneVote, Idle, FeedbackOwnTimer

(* An answered call is no longer shown. *)
LEMMA AnswerVotes ==
  ASSUME PopupType, CallsType, Votes, NEW c \in Calls, Answered(c) \/ Refused(c)
  PROVE  Votes'
  <1>. USE DEF PopupType, CallsType, Votes
  <1>1. call' = [call EXCEPT ![c] = Off]
    BY DEF Answered, Refused
  <1>2. ~ShownVote(c)' /\ \A d \in Calls : ShownVote(d)' => ShownVote(d)
    BY <1>1 DEF ShownVote, Off
  <1>3. CASE ShownVote(c)
    <2>1. PICK f \in {"success", "error"} :
            /\ popup' = [popup EXCEPT !.submitting = FALSE, !.feedback = f]
            /\ clearTimer' = clearTimer + 1
      BY <1>3 DEF Answered, Refused, VoteAnswered, ShownVote
    <2>2. popup.submitting /\ \A d \in Calls : ShownVote(d) => d = c
      BY <1>3 DEF OneVote
    <2>3. \A d \in Calls : ~ShownVote(d)'
      BY <1>2, <2>2
    <2>4. clearTimer = 0 /\ popup.stage = "open"
      BY <2>2 DEF FeedbackOwnTimer, Idle
    <2>5. popup'.feedback = f /\ popup'.stage = popup.stage
      BY <2>1 DEF Popup
    <2>6. OneVote' /\ Idle'
      BY <2>3, <2>4, <2>5 DEF OneVote, Idle
    <2>7. FeedbackOwnTimer'
      BY <2>1, <2>4, <2>5 DEF FeedbackOwnTimer
    <2>. QED
      BY <2>6, <2>7
  <1>4. CASE ~ShownVote(c)
    <2>1. /\ popup' = [popup EXCEPT !.connected = "online"] \/ popup' = popup
          /\ clearTimer' = clearTimer
      BY <1>4 DEF Answered, Refused, ShownVote
    <2>2. /\ popup'.submitting = popup.submitting /\ popup'.feedback = popup.feedback
          /\ popup'.stage = popup.stage
      BY <2>1 DEF Popup
    <2>. QED
      BY <1>2, <2>1, <2>2, VotesKept
  <1>. QED
    BY <1>3, <1>4

(* The popup waits for its own vote, and its feedback has its timer. *)
LEMMA VotesStep == ASSUME IdsType, CallsType, PopupType, Votes, Next PROVE Votes'
  <1>. USE DEF CallsType, PopupType, Votes
  <1>1. ASSUME NEW c \in Calls, ReadLocalId(c) \/ SetLocalId(c) \/ Hashed(c) PROVE Votes'
    <2>1. /\ UNCHANGED <<popup, clearTimer>>
          /\ \A d \in Calls : call'[d] = Off \/ ( /\ call'[d].kind = call[d].kind
                                               /\ call'[d].shown = call[d].shown)
      BY <1>1, IdentityStep DEF Identity
    <2>2. \A d \in Calls : ShownVote(d)' => ShownVote(d)
      BY <2>1 DEF ShownVote, Off
    <2>. QED
      BY <2>1, <2>2, VotesKept
  <1>2. ASSUME NEW c \in Calls, BeginOther(c) PROVE Votes'
    <2>1. PICK kind \in {"flush", "user id"} : Begin(c, kind)
      BY <1>2 DEF BeginOther
    <2>2. \A d \in Calls : ShownVote(d)' => ShownVote(d)
      BY ZenonT(60), <2>1, BeginStage DEF ShownVote, Kinds
    <2>. QED
      BY <1>2, <2>2, VotesKept DEF BeginOther
  <1>3. ASSUME NEW c \in Calls, LoadData(c) PROVE Votes'
    <2>1. Begin(c, "user info")
      BY <1>3 DEF LoadData
    <2>2. \A d \in Calls : ShownVote(d)' => ShownVote(d)
      BY <2>1, BeginStage DEF ShownVote, Kinds
    <2>3. /\ popup'.submitting = popup.submitting /\ popup'.feedback = popup.feedback
          /\ popup'.stage = "open" /\ clearTimer' = clearTimer
      BY <1>3 DEF LoadData, Popup
    <2>. QED
      BY <2>2, <2>3, VotesKept
  <1>4. ASSUME NEW c \in Calls, HandleVote(c) PROVE Votes'
    <2>1. /\ popup.stage = "open" /\ ~popup.submitting /\ popup.feedback = "none"
          /\ popup' = [popup EXCEPT !.submitting = TRUE, !.feedback = "none"]
          /\ clearTimer' = clearTimer
      BY <1>4 DEF HandleVote, QuickVote
    <2>2. Begin(c, "vote")
      BY <1>4 DEF HandleVote
    <2>3. \A d \in Calls : ShownVote(d)' => d = c
      <3>1. \A d \in Calls : ~ShownVote(d)
        BY <2>1 DEF OneVote
      <3>2. \A d \in Calls \ {c} : call'[d] = call[d]
        BY <2>2 DEF Begin
      <3>. QED
        BY <3>1, <3>2 DEF ShownVote
    <2>4. popup'.submitting /\ popup'.feedback = "none" /\ popup'.stage = "open"
      BY <2>1 DEF Popup
    <2>. QED
      BY <2>1, <2>3, <2>4 DEF OneVote, Idle, FeedbackOwnTimer
  <1>5. CASE ClearTimer
    <2>1. clearTimer = 1
      BY <1>5 DEF ClearTimer, FeedbackOwnTimer
    <2>2. clearTimer' = 0 /\ UNCHANGED call
      BY <1>5, <2>1 DEF ClearTimer
    <2>3. /\ popup'.submitting = popup.submitting /\ popup'.feedback = "none"
          /\ popup'.stage = popup.stage
      BY <1>5 DEF ClearTimer, Popup
    <2>. QED
      BY <2>2, <2>3 DEF OneVote, ShownVote, Idle, FeedbackOwnTimer
  <1>6. CASE OpenPopup
    <2>1. /\ popup'.submitting = FALSE /\ popup'.feedback = "none"
          /\ popup.stage = "closed" /\ UNCHANGED <<call, clearTimer>>
      BY <1>6 DEF OpenPopup, Closed
    <2>. QED
      BY <2>1 DEF OneVote, ShownVote, Idle, FeedbackOwnTimer
  <1>7. CASE ClosePopup
    <2>1. call' = [c \in Calls |-> [call[c] EXCEPT !.shown = FALSE]]
      BY <1>7 DEF ClosePopup
    <2>2. \A d \in Calls : ~ShownVote(d)'
      BY <2>1 DEF ShownVote, Call
    <2>3. popup'.submitting = FALSE /\ popup'.feedback = "none" /\ clearTimer' = 0
      BY <1>7 DEF ClosePopup, Closed
    <2>. QED
      BY <2>2, <2>3 DEF OneVote, Idle, FeedbackOwnTimer
  <1>8. CASE Restart
    <2>1. \A d \in Calls : ~ShownVote(d)'
      BY <1>8, RestartCalls DEF ShownVote
    <2>2. popup'.submitting = FALSE /\ popup'.stage = popup.stage
      BY <1>8 DEF Restart, Popup
    <2>3. /\ popup'.feedback = IF popup.submitting THEN "error" ELSE popup.feedback
          /\ clearTimer' = IF popup.submitting THEN clearTimer + 1 ELSE clearTimer
      BY <1>8 DEF Restart, Popup
    <2>4. popup.submitting => clearTimer = 0 /\ popup.stage = "open"
      BY DEF FeedbackOwnTimer, Idle
    <2>. QED
      BY <2>1, <2>2, <2>3, <2>4 DEF OneVote, Idle, FeedbackOwnTimer
  <1>9. CASE \/ \E section \in {"video", "status"} : Drawn(section)
             \/ LoadDataFails \/ HandleSync \/ SyncAnswered
    <2>1. UNCHANGED <<call, clearTimer>>
      BY <1>9 DEF Drawn, LoadDataFails, HandleSync, SyncAnswered
    <2>2. /\ popup'.submitting = popup.submitting /\ popup'.feedback = popup.feedback
          /\ popup'.stage = popup.stage \/ popup'.stage = "open"
      BY <1>9 DEF Drawn, LoadDataFails, HandleSync, SyncAnswered, Popup
    <2>3. \A d \in Calls : ShownVote(d)' => ShownVote(d)
      BY <2>1 DEF ShownVote
    <2>. QED
      BY <2>1, <2>2, <2>3, VotesKept
  <1>. QED
    BY <1>1, <1>2, <1>3, <1>4, <1>5, <1>6, <1>7, <1>8, <1>9, AnswerVotes, NextCases

-----------------------------------------------------------------------------
(***************************************************************************)
(* The invariant holds of every behaviour.                                 *)
(***************************************************************************)
THEOREM Invariance == Spec => []Inv
  <1>1. Init => Inv
    BY InitInv
  <1>2. Inv /\ [Next]_vars => Inv'
    <2>1. ASSUME Inv, Next PROVE Inv'
      <3>1. IdsType /\ CallsType /\ PopupType /\ BoundsType
        BY <2>1, TypeParts DEF Inv
      <3>2. IdsType' /\ CallsType' /\ PopupType' /\ BoundsType'
        BY <2>1, <3>1, IdsStep, CallsStep, PopupStep, BoundsStep
      <3>3. SameId'
        BY <2>1, <3>1, SameStep DEF Inv
      <3>4. Votes'
        BY <2>1, <3>1, VotesStep DEF Inv, Votes
      <3>. QED
        BY <3>2, <3>3, <3>4, TypePartsNext DEF Inv, Votes
    <2>2. ASSUME Inv, UNCHANGED vars PROVE Inv'
      BY <2>2 DEF Inv, TypeOK, SameId, OneVote, ShownVote, Idle, FeedbackOwnTimer, vars, identity
    <2>. QED
      BY <2>1, <2>2
  <1>. QED
    BY <1>1, <1>2, PTL DEF Spec

(***************************************************************************)
(* Every variable keeps its type, and a call past getLocalId has an id     *)
(* (ensurePublicUserId), however many messages there are at once.          *)
(***************************************************************************)
THEOREM TypeCorrect == Spec => []TypeOK
  BY Invariance, PTL DEF Inv

(***************************************************************************)
(* Requests go out under the stored id, however many messages, ends of     *)
(* the worker and popups there are, unless a second id was stored over     *)
(* the first (getLocalId).                                                 *)
(***************************************************************************)
THEOREM IdentityIsOne == Spec => []OneIdentity
  <1>1. Inv => OneIdentity
    BY DEF Inv, SameId, OneIdentity
  <1>. QED
    BY <1>1, Invariance, PTL

(***************************************************************************)
(* The popup's feedback always has exactly the timer that removes it       *)
(* (handleVote).                                                           *)
(***************************************************************************)
THEOREM FeedbackIsTimed == Spec => []FeedbackOwnTimer
  BY Invariance, PTL DEF Inv

-----------------------------------------------------------------------------
(***************************************************************************)
(* OfflineQueue.                                                           *)
(***************************************************************************)
QueueAssumptions == Q!VideosAssumption /\ Q!NoVoteAssumption /\ Q!BoundsAssumption

(* The flush takes a video that is queued. *)
LEMMA CurrentQueued ==
  ASSUME QueueAssumptions, Q!Queued(batch) # {}
  PROVE  Q!Current \in Q!Queued(batch)
<1>1. Q!Queued(batch) \subseteq Videos
  BY DEF Q!Queued
<1>2. Videos \in SUBSET Int /\ IsFiniteSet(Videos)
  BY DEF QueueAssumptions, Q!VideosAssumption, IsFiniteSet, Q!IsFiniteSet
<1>3. Q!Queued(batch) \in SUBSET Int /\ IsFiniteSet(Q!Queued(batch))
  BY <1>1, <1>2, FS_Subset
<1>4. \E x \in Q!Queued(batch) : \A y \in Q!Queued(batch) : x <= y
  BY <1>3, LeastExists
<1> QED BY <1>4 DEF Q!Current, Q!Min

-----------------------------------------------------------------------------
(* The request of the runner r is about the video v. *)
Of(r, v) == call[r] # Q!NoCall /\ call[r].video = v

(* What is stored has a category, and the flush works on what it read. *)
Real(entry) == entry = Q!NoEntry \/ entry.category \in Categories
EntriesReal == \A v \in Videos : Real(pending[v]) /\ Real(batch[v])
FlushSends  == /\ flush = "call" => /\ call["flush"].video = Q!Current
                                    /\ call["flush"].vote = batch[Q!Current].category
               /\ flush = "expire" => batch[Q!Current].old

(* A video nobody voted on is nowhere, and one vote is over no other. *)
Untouched(v) ==
  /\ votes[v] = 0 => /\ last[v] = NoVote /\ server[v] = NoVote /\ v \notin excused
                     /\ pending[v] = Q!NoEntry /\ batch[v] = Q!NoEntry /\ ~Of("message", v)
  /\ votes[v] <= 1 => v \notin crossed

(* Unless the last vote was cast over another: what the flush holds is     *)
(* still stored, the vote being submitted is not, ...                      *)
Held(v) == v \notin crossed /\ batch[v] # Q!NoEntry =>
             /\ pending[v].category = batch[v].category
             /\ batch[v].old => pending[v].old

Submitted(v) == Of("message", v) /\ call["message"].vote # NoVote =>
                  /\ last[v] = call["message"].vote
                  /\ v \notin crossed => pending[v] = Q!NoEntry

(* ... while the vote stands every request about the video is for it, ... *)
Arrived(r, v) == Of(r, v) /\ call[r].stage \in {"applied", "ok"}
Chosen(v) ==
  v \notin crossed /\ last[v] # NoVote =>
    /\ pending[v] = Q!NoEntry \/ pending[v].category = last[v]
    /\ Of("message", v) => call["message"].vote = last[v]
    /\ (\E r \in Q!Runners : Arrived(r, v)) => server[v] = last[v]
    /\ flush = "remove" /\ Q!Current = v => server[v] = last[v]
    /\ server[v] = last[v] \/ pending[v] # Q!NoEntry \/ Of("message", v) \/ v \in excused

(* ... and once it is withdrawn none is. *)
Deleted(v) ==
  v \notin crossed /\ last[v] = NoVote /\ v \notin excused =>
    /\ pending[v] = Q!NoEntry
    /\ Of("message", v) => /\ call["message"].vote = NoVote
                           /\ Arrived("message", v) => server[v] = NoVote
    /\ ~Of("message", v) => server[v] = NoVote

Story(v) == Untouched(v) /\ Held(v) /\ Submitted(v) /\ Chosen(v) /\ Deleted(v)

QueueInv == Q!TypeOK /\ EntriesReal /\ FlushSends /\ \A v \in Videos : Story(v)

-----------------------------------------------------------------------------
(* The actions. *)
LEMMA QueueCases ==
  ASSUME QueueAssumptions, Q!Next
  PROVE  \/ \E v \in Videos : \/ Q!DeleteVote(v) \/ Q!Age(v)
                               \/ \E c \in Categories : Q!SubmitVote(v, c)
         \/ \E r \in Q!Runners : Q!Arrives(r) \/ Q!Answered(r) \/ Q!Refused(r) \/ Q!Lost(r)
         \/ Q!Confirm \/ Q!Enqueue \/ Q!DeleteFails \/ Q!TimerFires \/ Q!UserFlushes
         \/ Q!ReadPending \/ Q!NextPending \/ Q!FlushSent \/ Q!FlushFails \/ Q!RemovePending
         \/ Q!GoOffline \/ Q!GoOnline \/ Q!Restart
BY DEF Q!Next, Q!Network, Q!Message, Q!Flush

(* The fields of a request that is under way. *)
LEMMA CallKinds ==
  ASSUME QueueAssumptions, Q!TypeOK, NEW r \in Q!Runners
  PROVE  /\ call[r] = Q!NoCall \/ call[r] \in Q!Call
         /\ call[r] # Q!NoCall => /\ call[r].stage \in {"sent", "applied", "ok", "error"}
                                /\ call[r].video \in Videos /\ call[r].vote \in Q!Filed
                                /\ call[r].attempt \in 0..Retries
         /\ call[r] = Q!NoCall => call[r].stage = "none"
         /\ Q!NoCall \notin Q!Call
BY DEF Q!TypeOK, Q!Call, Q!NoCall

(* A new request. *)
LEMMA RequestType ==
  ASSUME QueueAssumptions, NEW v \in Videos, NEW vote \in Q!Filed
  PROVE  /\ Q!Request(v, vote) \in Q!Call /\ Q!Request(v, vote) # Q!NoCall
         /\ Q!Request(v, vote).video = v /\ Q!Request(v, vote).vote = vote
         /\ Q!Request(v, vote).stage = "sent"
BY DEF Q!Request, Q!Call, Q!NoCall, QueueAssumptions, Q!BoundsAssumption

(* An entry of the store that is empty. *)
LEMMA EntryTypes == Q!NoEntry \in Q!Entry /\ Q!NoEntry.category = NoVote /\ ~Q!NoEntry.old
BY DEF Q!NoEntry, Q!Entry, Q!Filed

-----------------------------------------------------------------------------
(* Nothing is voted on. *)
LEMMA InitQueue == ASSUME QueueAssumptions, Q!Init PROVE QueueInv
<1>1. Q!TypeOK
  <2>1. call \in [Q!Runners -> Q!Call \cup {Q!NoCall}] /\ call["flush"] = Q!NoCall
    BY DEF Q!Init, Q!Runners
  <2> QED BY <2>1, EntryTypes DEF Q!Init, Q!TypeOK, Q!Filed, QueueAssumptions, Q!BoundsAssumption
<1>2. EntriesReal
  BY DEF Q!Init, EntriesReal, Real
<1>3. FlushSends
  BY DEF Q!Init, FlushSends
<1>4. ASSUME NEW v \in Videos PROVE Story(v)
  <2>1. /\ last[v] = NoVote /\ server[v] = NoVote /\ pending[v] = Q!NoEntry
        /\ batch[v] = Q!NoEntry /\ v \notin excused /\ v \notin crossed
        /\ \A r \in Q!Runners : ~Of(r, v)
    BY DEF Q!Init, Of
  <2>2. "message" \in Q!Runners
    BY DEF Q!Runners
  <2> QED BY <2>1, <2>2 DEF Story, Untouched, Held, Submitted, Chosen, Deleted
<1> QED BY <1>1, <1>2, <1>3, <1>4 DEF QueueInv

-----------------------------------------------------------------------------
(* The message under way and the flush. *)
LEMMA RunnersTwo ==
  Q!Runners = {"message", "flush"} /\ "message" \in Q!Runners /\ "flush" \in Q!Runners
BY DEF Q!Runners

(* Types: the network. *)
LEMMA NetworkTypes ==
  ASSUME QueueAssumptions, Q!TypeOK, NEW r \in Q!Runners,
         Q!Arrives(r) \/ Q!Answered(r) \/ Q!Refused(r) \/ Q!Lost(r)
  PROVE  Q!TypeOK'
<1> DEFINE c == call[r]
<1>1. c # Q!NoCall /\ c \in Q!Call /\ c.video \in Videos /\ c.vote \in Q!Filed
      /\ c.attempt \in 0..Retries
  <2>1. c.stage # "none"
    BY DEF Q!Arrives, Q!Answered, Q!Refused, Q!Lost
  <2> QED BY <2>1, CallKinds
<1>2. PICK d \in Q!Call : d # Q!NoCall /\ call' = [call EXCEPT ![r] = d]
  <2>1. CASE Q!Arrives(r)
    <3> DEFINE d == [c EXCEPT !.stage = IF c.vote = NoVote /\ server[c.video] = NoVote
                                        THEN "error" ELSE "applied"]
    <3>1. call' = [call EXCEPT ![r] = d]
      BY <2>1 DEF Q!Arrives
    <3>2. d \in Q!Call
      BY <1>1 DEF Q!Call
    <3> QED BY <3>1, <3>2, <1>1, CallKinds
  <2>2. CASE Q!Answered(r)
    <3> DEFINE d == [c EXCEPT !.stage = "ok"]
    <3>1. call' = [call EXCEPT ![r] = d]
      BY <2>2 DEF Q!Answered
    <3>2. d \in Q!Call
      BY <1>1 DEF Q!Call
    <3> QED BY <3>1, <3>2, <1>1, CallKinds
  <2>3. CASE Q!Refused(r)
    <3> DEFINE d == [c EXCEPT !.stage = "error"]
    <3>1. call' = [call EXCEPT ![r] = d]
      BY <2>3 DEF Q!Refused
    <3>2. d \in Q!Call
      BY <1>1 DEF Q!Call
    <3> QED BY <3>1, <3>2, <1>1, CallKinds
  <2>4. CASE Q!Lost(r)
    <3>1. CASE c.attempt < Retries
      <4> DEFINE d == [[c EXCEPT !.stage = "sent"] EXCEPT !.attempt = c.attempt + 1]
      <4>1. call' = [call EXCEPT ![r].stage = "sent", ![r].attempt = @ + 1]
        BY <2>4, <3>1 DEF Q!Lost
      <4>2. call' = [call EXCEPT ![r] = d]
        BY <4>1, <1>1 DEF Q!TypeOK, Q!Call
      <4>3. c.attempt + 1 \in 0..Retries
        BY <3>1, <1>1 DEF QueueAssumptions, Q!BoundsAssumption
      <4>4. d \in Q!Call
        BY <1>1, <4>3 DEF Q!Call
      <4> QED BY <4>2, <4>4, <1>1, CallKinds
    <3>2. CASE ~(c.attempt < Retries)
      <4> DEFINE d == [c EXCEPT !.stage = "error"]
      <4>1. call' = [call EXCEPT ![r] = d]
        BY <2>4, <3>2 DEF Q!Lost
      <4>2. d \in Q!Call
        BY <1>1 DEF Q!Call
      <4> QED BY <4>1, <4>2, <1>1, CallKinds
    <3> QED BY <3>1, <3>2
  <2> QED BY <2>1, <2>2, <2>3, <2>4
<1>3. /\ call' \in [Q!Runners -> Q!Call \cup {Q!NoCall}]
      /\ call'["flush"] # Q!NoCall <=> call["flush"] # Q!NoCall
  BY <1>1, <1>2, RunnersTwo DEF Q!TypeOK
<1>4. server' \in [Videos -> Q!Filed] /\ faults' \in 0..MaxFaults
  <2>1. UNCHANGED server \/ server' = [server EXCEPT ![c.video] = c.vote]
    BY DEF Q!Arrives, Q!Answered, Q!Refused, Q!Lost
  <2>2. faults' = faults \/ (faults < MaxFaults /\ faults' = faults + 1)
    BY DEF Q!Arrives, Q!Answered, Q!Refused, Q!Lost, Q!Fault
  <2>3. faults \in 0..MaxFaults
    BY DEF Q!TypeOK
  <2>4. faults' \in 0..MaxFaults
    BY <2>2, <2>3 DEF QueueAssumptions, Q!BoundsAssumption
  <2> QED BY <1>1, <2>1, <2>4 DEF Q!TypeOK
<1>5. UNCHANGED <<pending, timer, online, flush, batch, last, excused, crossed, votes>>
  BY DEF Q!Arrives, Q!Answered, Q!Refused, Q!Lost, Q!store, Q!flusher, Q!history
<1> QED BY <1>3, <1>4, <1>5 DEF Q!TypeOK, Q!Queued

(* What the flush works on, and the fields of entries. *)
LEMMA QueueTypes ==
  ASSUME QueueAssumptions, Q!TypeOK
  PROVE  /\ Q!Queued(batch) # {} => Q!Current \in Videos /\ batch[Q!Current] # Q!NoEntry
         /\ \A u \in Videos : pending[u] \in Q!Entry /\ batch[u] \in Q!Entry
         /\ \A u \in Videos : pending[u].category \in Q!Filed /\ batch[u].category \in Q!Filed
         /\ batch = [u \in Videos |-> Q!NoEntry] => Q!Queued(batch) = {}
<1>1. Q!Queued(batch) # {} => Q!Current \in Q!Queued(batch)
  BY CurrentQueued
<1>2. \A u \in Videos : pending[u] \in Q!Entry /\ batch[u] \in Q!Entry
  BY DEF Q!TypeOK
<1>3. \A u \in Videos : pending[u].category \in Q!Filed /\ batch[u].category \in Q!Filed
  BY <1>2 DEF Q!Entry
<1> QED BY <1>1, <1>2, <1>3 DEF Q!Queued

(* Types: the user, the answers to messages and the age of a vote. *)
LEMMA UserTypes ==
  ASSUME QueueAssumptions, Q!TypeOK,
         \/ \E v \in Videos : \/ Q!DeleteVote(v) \/ Q!Age(v)
                              \/ \E c \in Categories : Q!SubmitVote(v, c)
         \/ Q!Confirm \/ Q!Enqueue \/ Q!DeleteFails
  PROVE  Q!TypeOK'
<1>1. ASSUME NEW v \in Videos, NEW c \in Categories, Q!SubmitVote(v, c) PROVE Q!TypeOK'
  <2>1. c \in Q!Filed
    BY DEF Q!Filed
  <2>2. call' \in [Q!Runners -> Q!Call \cup {Q!NoCall}] /\ call'["flush"] = call["flush"]
    BY <1>1, <2>1, RequestType, RunnersTwo DEF Q!SubmitVote, Q!TypeOK
  <2>3. votes' \in [Videos -> 0..MaxVotes]
    <3>1. votes[v] + 1 \in 0..MaxVotes
      BY <1>1 DEF Q!SubmitVote, Q!TypeOK, QueueAssumptions, Q!BoundsAssumption
    <3> QED BY <1>1, <3>1 DEF Q!SubmitVote, Q!TypeOK
  <2>4. last' \in [Videos -> Q!Filed] /\ excused' \subseteq Videos /\ crossed' \subseteq Videos
    BY <1>1, <2>1 DEF Q!SubmitVote, Q!TypeOK
  <2>5. UNCHANGED <<pending, timer, online, flush, batch, server, faults>>
    BY <1>1 DEF Q!SubmitVote, Q!store, Q!flusher
  <2> QED BY <2>2, <2>3, <2>4, <2>5 DEF Q!TypeOK, Q!Queued
<1>2. ASSUME NEW v \in Videos, Q!DeleteVote(v) PROVE Q!TypeOK'
  <2>1. NoVote \in Q!Filed
    BY DEF Q!Filed
  <2>2. call' \in [Q!Runners -> Q!Call \cup {Q!NoCall}] /\ call'["flush"] = call["flush"]
    BY <1>2, <2>1, RequestType, RunnersTwo DEF Q!DeleteVote, Q!TypeOK
  <2>3. last' \in [Videos -> Q!Filed] /\ excused' \subseteq Videos
    BY <1>2, <2>1 DEF Q!DeleteVote, Q!TypeOK
  <2>4. UNCHANGED <<pending, timer, online, flush, batch, server, crossed, votes, faults>>
    BY <1>2 DEF Q!DeleteVote, Q!store, Q!flusher
  <2> QED BY <2>2, <2>3, <2>4 DEF Q!TypeOK, Q!Queued
<1>3. ASSUME NEW v \in Videos, Q!Age(v) PROVE Q!TypeOK'
  <2>1. pending' \in [Videos -> Q!Entry]
    BY <1>3 DEF Q!Age, Q!TypeOK, Q!Entry
  <2>2. faults' \in 0..MaxFaults
    BY <1>3 DEF Q!Age, Q!Fault, Q!TypeOK, QueueAssumptions, Q!BoundsAssumption
  <2>3. UNCHANGED <<timer, online, flush, batch, call, server, last, excused, crossed, votes>>
    BY <1>3 DEF Q!Age, Q!flusher, Q!history
  <2> QED BY <2>1, <2>2, <2>3 DEF Q!TypeOK, Q!Queued
<1>4. ASSUME Q!Confirm PROVE Q!TypeOK'
  <2>1. call' \in [Q!Runners -> Q!Call \cup {Q!NoCall}] /\ call'["flush"] = call["flush"]
    BY <1>4, RunnersTwo DEF Q!Confirm, Q!TypeOK
  <2>2. UNCHANGED <<pending, timer, online, flush, batch, server, last, excused, crossed, votes,
                  faults>>
    BY <1>4 DEF Q!Confirm, Q!store, Q!flusher, Q!history
  <2> QED BY <2>1, <2>2 DEF Q!TypeOK, Q!Queued
<1>5. ASSUME Q!Enqueue PROVE Q!TypeOK'
  <2>1. call["message"] # Q!NoCall
    BY <1>5, CallKinds, RunnersTwo DEF Q!Enqueue
  <2>2. call["message"].video \in Videos /\ call["message"].vote \in Q!Filed
    BY <2>1, CallKinds, RunnersTwo
  <2>3. call' \in [Q!Runners -> Q!Call \cup {Q!NoCall}] /\ call'["flush"] = call["flush"]
    BY <1>5, RunnersTwo DEF Q!Enqueue, Q!TypeOK
  <2>4. [category |-> call["message"].vote, old |-> FALSE] \in Q!Entry
    BY <2>2 DEF Q!Entry
  <2>5. pending' \in [Videos -> Q!Entry] /\ timer' \in BOOLEAN
    BY <1>5, <2>2, <2>4 DEF Q!Enqueue, Q!TypeOK
  <2>6. UNCHANGED <<online, flush, batch, server, last, excused, votes, faults>>
    BY <1>5 DEF Q!Enqueue, Q!flusher
  <2>7. crossed' \subseteq Videos
    BY <1>5 DEF Q!Enqueue, Q!TypeOK
  <2> QED BY <2>3, <2>5, <2>6, <2>7 DEF Q!TypeOK, Q!Queued
<1>6. ASSUME Q!DeleteFails PROVE Q!TypeOK'
  <2>1. call["message"] # Q!NoCall
    BY <1>6, CallKinds, RunnersTwo DEF Q!DeleteFails
  <2>2. call["message"].video \in Videos
    BY <2>1, CallKinds, RunnersTwo
  <2>3. call' \in [Q!Runners -> Q!Call \cup {Q!NoCall}] /\ call'["flush"] = call["flush"]
    BY <1>6, RunnersTwo DEF Q!DeleteFails, Q!TypeOK
  <2>4. excused' \subseteq Videos
    BY <1>6, <2>2 DEF Q!DeleteFails, Q!TypeOK
  <2>5. UNCHANGED <<pending, timer, online, flush, batch, server, last, crossed, votes, faults>>
    BY <1>6 DEF Q!DeleteFails, Q!store, Q!flusher
  <2> QED BY <2>3, <2>4, <2>5 DEF Q!TypeOK, Q!Queued
<1> QED BY <1>1, <1>2, <1>3, <1>4, <1>5, <1>6

(* Types: the flush, the browser and the worker. *)
LEMMA FlushTypes ==
  ASSUME QueueAssumptions, Q!TypeOK,
         Q!TimerFires \/ Q!UserFlushes \/ Q!Flush \/ Q!GoOffline \/ Q!GoOnline \/ Q!Restart
  PROVE  Q!TypeOK'
<1>1. ASSUME Q!TimerFires \/ Q!UserFlushes \/ Q!GoOnline PROVE Q!TypeOK'
  <2>1. flush' = IF flush = "off" THEN "read" ELSE flush
    BY <1>1 DEF Q!TimerFires, Q!UserFlushes, Q!GoOnline, Q!FlushCalled
  <2>2. UNCHANGED <<pending, batch, call, server, last, excused, crossed, votes, faults>>
    BY <1>1 DEF Q!TimerFires, Q!UserFlushes, Q!GoOnline, Q!store, Q!history
  <2>3. timer' \in BOOLEAN /\ online' \in BOOLEAN
    BY <1>1 DEF Q!TimerFires, Q!UserFlushes, Q!GoOnline, Q!store, Q!TypeOK
  <2> QED BY <2>1, <2>2, <2>3 DEF Q!TypeOK, Q!Queued
<1>2. ASSUME Q!ReadPending PROVE Q!TypeOK'
  <2>1. UNCHANGED <<pending, timer, online, call, server, last, excused, crossed, votes, faults>>
    BY <1>2 DEF Q!ReadPending, Q!store, Q!history
  <2>2. batch' = pending /\ flush = "read" /\ flush' \in {"off", "next"}
    BY <1>2 DEF Q!ReadPending
  <2> QED BY <2>1, <2>2 DEF Q!TypeOK, Q!Queued
<1>3. ASSUME Q!NextPending PROVE Q!TypeOK'
  <2>1. UNCHANGED <<pending, timer, online, batch, server, last, excused, crossed, votes, faults>>
    BY <1>3 DEF Q!NextPending, Q!store, Q!history
  <2>2. \/ flush' = "off" /\ UNCHANGED call
        \/ Q!Queued(batch) # {} /\ flush' = "expire" /\ UNCHANGED call
        \/ /\ Q!Queued(batch) # {} /\ flush' = "call"
           /\ call' = [call EXCEPT !["flush"] = Q!Request(Q!Current, batch[Q!Current].category)]
    BY <1>3 DEF Q!NextPending
  <2>3. flush = "next" /\ call["flush"] = Q!NoCall
    BY <1>3 DEF Q!NextPending, Q!TypeOK
  <2>4. Q!Queued(batch) # {} => /\ Q!Request(Q!Current, batch[Q!Current].category) \in Q!Call
                             /\ Q!Request(Q!Current, batch[Q!Current].category) # Q!NoCall
    BY QueueTypes, RequestType
  <2>5. /\ call' \in [Q!Runners -> Q!Call \cup {Q!NoCall}]
        /\ flush' = "call" <=> call'["flush"] # Q!NoCall
        /\ flush' \in {"off", "expire", "call"} /\ (flush' # "off" => Q!Queued(batch) # {})
    BY <2>2, <2>3, <2>4, RunnersTwo DEF Q!TypeOK
  <2> QED BY <2>1, <2>5 DEF Q!TypeOK, Q!Queued
<1>4. ASSUME Q!FlushSent PROVE Q!TypeOK'
  <2>1. UNCHANGED <<pending, timer, online, batch, server, last, excused, crossed, votes, faults>>
    BY <1>4 DEF Q!FlushSent, Q!store, Q!history
  <2>2. call["flush"] # Q!NoCall
    BY <1>4, CallKinds, RunnersTwo DEF Q!FlushSent
  <2>3. flush' = "remove" /\ call' = [call EXCEPT !["flush"] = Q!NoCall] /\ Q!Queued(batch) # {}
    BY <1>4, <2>2 DEF Q!FlushSent, Q!TypeOK
  <2> QED BY <2>1, <2>3, RunnersTwo DEF Q!TypeOK, Q!Queued
<1>5. ASSUME Q!FlushFails PROVE Q!TypeOK'
  <2>1. UNCHANGED <<pending, online, server, last, excused, crossed, votes, faults>>
    BY <1>5 DEF Q!FlushFails, Q!history
  <2>2. /\ flush' = "off" /\ timer' = TRUE /\ batch' = [v \in Videos |-> Q!NoEntry]
        /\ call' = [call EXCEPT !["flush"] = Q!NoCall]
    BY <1>5 DEF Q!FlushFails
  <2> QED BY <2>1, <2>2, RunnersTwo, EntryTypes DEF Q!TypeOK
<1>6. ASSUME Q!RemovePending PROVE Q!TypeOK'
  <2>1. UNCHANGED <<timer, online, call, server, last, crossed, votes, faults>>
    BY <1>6 DEF Q!RemovePending
  <2>2. Q!Current \in Videos /\ flush' = "next" /\ call["flush"] = Q!NoCall
    BY <1>6, QueueTypes DEF Q!RemovePending, Q!TypeOK
  <2>3. /\ pending' \in [Videos -> Q!Entry] /\ batch' \in [Videos -> Q!Entry]
        /\ excused' \subseteq Videos
    BY <1>6, <2>2, EntryTypes DEF Q!RemovePending, Q!TypeOK
  <2> QED BY <2>1, <2>2, <2>3 DEF Q!TypeOK
<1>7. ASSUME Q!GoOffline PROVE Q!TypeOK'
  <2>1. UNCHANGED <<pending, timer, flush, batch, call, server, last, excused, crossed, votes>>
    BY <1>7 DEF Q!GoOffline, Q!store, Q!flusher, Q!history
  <2>2. faults' \in 0..MaxFaults /\ online' = FALSE
    BY <1>7 DEF Q!GoOffline, Q!Fault, Q!TypeOK, QueueAssumptions, Q!BoundsAssumption
  <2> QED BY <2>1, <2>2 DEF Q!TypeOK, Q!Queued
<1>8. ASSUME Q!Restart PROVE Q!TypeOK'
  <2>1. UNCHANGED <<pending, online, server, last, crossed, votes>>
    BY <1>8 DEF Q!Restart
  <2>2. /\ flush' = "off" /\ timer' = online /\ batch' = [v \in Videos |-> Q!NoEntry]
        /\ call' = [r \in Q!Runners |-> Q!NoCall] /\ faults' = faults + 1 /\ faults < MaxFaults
    BY <1>8 DEF Q!Restart, Q!Fault
  <2>3. faults' \in 0..MaxFaults
    BY <2>2 DEF Q!TypeOK, QueueAssumptions, Q!BoundsAssumption
  <2>4. call["message"] # Q!NoCall => call["message"].video \in Videos
    BY CallKinds, RunnersTwo
  <2>5. excused' \subseteq Videos
    BY <1>8, <2>4 DEF Q!Restart, Q!TypeOK
  <2> QED BY <2>1, <2>2, <2>3, <2>5, EntryTypes, RunnersTwo DEF Q!TypeOK
<1> QED BY <1>1, <1>2, <1>3, <1>4, <1>5, <1>6, <1>7, <1>8 DEF Q!Flush

-----------------------------------------------------------------------------
(* The flush sends what it holds, which is what the store holds and the    *)
(* user chose, unless a vote was cast over it.                             *)
LEMMA FlushCall ==
  ASSUME QueueAssumptions, QueueInv, NEW v \in Videos, Of("flush", v)
  PROVE  /\ v = Q!Current /\ batch[v] # Q!NoEntry /\ votes[v] # 0
         /\ call["flush"].vote = batch[v].category /\ batch[v].category # NoVote
         /\ v \notin crossed => pending[v].category = batch[v].category /\ pending[v] # Q!NoEntry
<1>1. call["flush"] # Q!NoCall /\ flush = "call" /\ Q!Queued(batch) # {}
  BY DEF Of, QueueInv, Q!TypeOK
<1>2. v = Q!Current /\ batch[v] # Q!NoEntry /\ call["flush"].vote = batch[v].category
  BY <1>1, QueueTypes DEF QueueInv, FlushSends, Of
<1>3. batch[v].category # NoVote
  BY <1>2 DEF QueueInv, EntriesReal, Real, QueueAssumptions, Q!NoVoteAssumption
<1>4. Story(v)
  BY DEF QueueInv
<1>5. votes[v] # 0
  BY <1>2, <1>4 DEF Story, Untouched
<1>6. v \notin crossed => pending[v].category = batch[v].category
  BY <1>2, <1>4 DEF Story, Held
<1> QED BY <1>2, <1>3, <1>5, <1>6, EntryTypes

(* So does every request about such a video. *)
LEMMA CallSends ==
  ASSUME QueueAssumptions, QueueInv, NEW v \in Videos, NEW r \in Q!Runners, Of(r, v)
  PROVE  /\ votes[v] # 0
         /\ v \notin crossed /\ last[v] # NoVote => call[r].vote = last[v]
         /\ v \notin crossed /\ last[v] = NoVote /\ v \notin excused =>
              r = "message" /\ call[r].vote = NoVote
<1>1. Story(v)
  BY DEF QueueInv
<1>2. CASE r = "message"
  BY <1>1, <1>2 DEF Story, Untouched, Chosen, Deleted
<1>3. CASE r = "flush"
  <2>1. /\ v = Q!Current /\ batch[v] # Q!NoEntry /\ votes[v] # 0
        /\ call["flush"].vote = batch[v].category /\ batch[v].category # NoVote
        /\ v \notin crossed => pending[v].category = batch[v].category /\ pending[v] # Q!NoEntry
    BY <1>3, FlushCall
  <2> QED BY <1>1, <1>3, <2>1 DEF Story, Chosen, Deleted
<1> QED BY <1>2, <1>3 DEF Q!Runners

(* A step that leaves everything about the video alone. *)
LEMMA SameStory ==
  ASSUME QueueAssumptions, NEW v \in Videos, Story(v),
         votes'[v] = votes[v], last'[v] = last[v], server'[v] = server[v],
         pending'[v] = pending[v], batch'[v] = batch[v], v \in excused' <=> v \in excused,
         v \in crossed' <=> v \in crossed,
         Of("message", v)' => Of("message", v) /\ call'["message"].vote = call["message"].vote,
         Of("message", v) => Of("message", v)',
         \A r \in Q!Runners : Arrived(r, v)' => Arrived(r, v),
         (flush = "remove" /\ Q!Current = v)' => flush = "remove" /\ Q!Current = v
  PROVE  Story(v)'
<1>1. Untouched(v)'
  BY DEF Story, Untouched
<1>2. Held(v)'
  BY DEF Story, Held
<1>3. Submitted(v)'
  BY DEF Story, Submitted
<1>4. Chosen(v)'
  BY DEF Story, Chosen
<1>5. Deleted(v)'
  BY RunnersTwo DEF Story, Deleted
<1> QED BY <1>1, <1>2, <1>3, <1>4, <1>5 DEF Story

(* What a step of the network changes: where the request is, and the backend. *)
LEMMA NetworkFields ==
  ASSUME QueueAssumptions, Q!TypeOK, NEW r \in Q!Runners,
         Q!Arrives(r) \/ Q!Answered(r) \/ Q!Refused(r) \/ Q!Lost(r)
  PROVE  /\ \A q \in Q!Runners \ {r} : call'[q] = call[q]
         /\ call[r] # Q!NoCall /\ call'[r] # Q!NoCall
         /\ call[r].video \in Videos
         /\ call'[r].video = call[r].video /\ call'[r].vote = call[r].vote
         /\ \/ /\ server' = server
               /\ call'[r].stage \in {"applied", "ok"} => call[r].stage \in {"applied", "ok"}
            \/ server' = [server EXCEPT ![call[r].video] = call[r].vote]
         /\ UNCHANGED <<pending, flush, batch, last, excused, crossed, votes>>
<1> DEFINE c == call[r]
<1>1. c # Q!NoCall /\ c \in Q!Call /\ c.video \in Videos
  <2>1. c.stage # "none"
    BY DEF Q!Arrives, Q!Answered, Q!Refused, Q!Lost
  <2> QED BY <2>1, CallKinds
<1>2. UNCHANGED <<pending, flush, batch, last, excused, crossed, votes>>
  BY DEF Q!Arrives, Q!Answered, Q!Refused, Q!Lost, Q!store, Q!flusher, Q!history
<1>3. Q!TypeOK'
  BY NetworkTypes
<1>4. CASE Q!Arrives(r)
  <2>1. call' = [call EXCEPT ![r].stage = IF c.vote = NoVote /\ server[c.video] = NoVote
                                            THEN "error" ELSE "applied"]
    BY <1>4 DEF Q!Arrives
  <2>2. server' = [server EXCEPT ![c.video] = c.vote]
    BY <1>4 DEF Q!Arrives
  <2>3. /\ call'[r].video = c.video /\ call'[r].vote = c.vote
        /\ \A q \in Q!Runners \ {r} : call'[q] = call[q]
    BY <2>1, <1>1 DEF Q!TypeOK, Q!Call
  <2>4. call'[r] \in Q!Call
    BY <2>1, <1>1 DEF Q!TypeOK, Q!Call
  <2> QED BY <1>1, <1>2, <2>2, <2>3, <2>4, CallKinds
<1>5. CASE Q!Answered(r)
  <2>1. call' = [call EXCEPT ![r].stage = "ok"] /\ c.stage = "applied" /\ server' = server
    BY <1>5 DEF Q!Answered
  <2>2. /\ call'[r].video = c.video /\ call'[r].vote = c.vote /\ call'[r] \in Q!Call
        /\ \A q \in Q!Runners \ {r} : call'[q] = call[q]
    BY <2>1, <1>1 DEF Q!TypeOK, Q!Call
  <2> QED BY <1>1, <1>2, <2>1, <2>2, CallKinds
<1>6. CASE Q!Refused(r)
  <2>1. call' = [call EXCEPT ![r].stage = "error"] /\ server' = server
    BY <1>6 DEF Q!Refused
  <2>2. /\ call'[r].video = c.video /\ call'[r].vote = c.vote /\ call'[r] \in Q!Call
        /\ call'[r].stage = "error" /\ \A q \in Q!Runners \ {r} : call'[q] = call[q]
    BY <2>1, <1>1 DEF Q!TypeOK, Q!Call
  <2> QED BY <1>1, <1>2, <2>1, <2>2, CallKinds
<1>7. CASE Q!Lost(r)
  <2>1. server' = server
    BY <1>7 DEF Q!Lost
  <2>2. CASE c.attempt < Retries
    <3>1. call' = [call EXCEPT ![r].stage = "sent", ![r].attempt = @ + 1]
      BY <1>7, <2>2 DEF Q!Lost
    <3>2. call' = [call EXCEPT ![r] =
                     [[c EXCEPT !.stage = "sent"] EXCEPT !.attempt = c.attempt + 1]]
      BY <3>1, <1>1 DEF Q!TypeOK, Q!Call
    <3>3. c.attempt + 1 \in 0..Retries
      BY <2>2, <1>1 DEF Q!Call, QueueAssumptions, Q!BoundsAssumption
    <3>4. /\ call'[r].video = c.video /\ call'[r].vote = c.vote /\ call'[r] \in Q!Call
          /\ call'[r].stage = "sent" /\ \A q \in Q!Runners \ {r} : call'[q] = call[q]
      BY <3>2, <3>3, <1>1 DEF Q!TypeOK, Q!Call
    <3> QED BY <1>1, <1>2, <2>1, <3>4, CallKinds
  <2>3. CASE ~(c.attempt < Retries)
    <3>1. call' = [call EXCEPT ![r].stage = "error"]
      BY <1>7, <2>3 DEF Q!Lost
    <3>2. /\ call'[r].video = c.video /\ call'[r].vote = c.vote /\ call'[r] \in Q!Call
          /\ call'[r].stage = "error" /\ \A q \in Q!Runners \ {r} : call'[q] = call[q]
      BY <3>1, <1>1 DEF Q!TypeOK, Q!Call
    <3> QED BY <1>1, <1>2, <2>1, <3>2, CallKinds
  <2> QED BY <2>2, <2>3
<1> QED BY <1>4, <1>5, <1>6, <1>7

(* A request that arrives files what the user chose. *)
LEMMA NetworkInv ==
  ASSUME QueueAssumptions, QueueInv, NEW r \in Q!Runners,
         Q!Arrives(r) \/ Q!Answered(r) \/ Q!Refused(r) \/ Q!Lost(r)
  PROVE  QueueInv'
<1>0. Q!TypeOK
  BY DEF QueueInv
<1>1. /\ \A q \in Q!Runners \ {r} : call'[q] = call[q]
      /\ call[r] # Q!NoCall /\ call'[r] # Q!NoCall
      /\ call[r].video \in Videos
      /\ call'[r].video = call[r].video /\ call'[r].vote = call[r].vote
      /\ \/ /\ server' = server
            /\ call'[r].stage \in {"applied", "ok"} => call[r].stage \in {"applied", "ok"}
         \/ server' = [server EXCEPT ![call[r].video] = call[r].vote]
      /\ UNCHANGED <<pending, flush, batch, last, excused, crossed, votes>>
  BY <1>0, NetworkFields
<1>2. Q!TypeOK'
  BY <1>0, NetworkTypes
<1>3. EntriesReal'
  BY <1>1 DEF QueueInv, EntriesReal, Real
<1>4. Q!Current' = Q!Current
  BY <1>1 DEF Q!Current, Q!Queued
<1>5. \A q \in Q!Runners : call'[q].video = call[q].video /\ call'[q].vote = call[q].vote
                         /\ (call'[q] # Q!NoCall <=> call[q] # Q!NoCall)
  BY <1>1
<1>6. FlushSends'
  BY <1>1, <1>4, <1>5, RunnersTwo DEF QueueInv, FlushSends
<1>7. ASSUME NEW v \in Videos PROVE Story(v)'
  <2>1. \A q \in Q!Runners : Of(q, v)' <=> Of(q, v)
    BY <1>5 DEF Of
  <2>2. Story(v)
    BY DEF QueueInv
  <2>3. CASE ~Of(r, v)
    <3>1. server'[v] = server[v]
      BY <1>0, <1>1, <2>3 DEF Of, Q!TypeOK
    <3>2. \A q \in Q!Runners : Arrived(q, v)' => Arrived(q, v)
      BY <1>1, <2>1, <2>3 DEF Arrived
    <3> QED BY <1>1, <1>4, <1>5, <2>1, <2>2, <3>1, <3>2, RunnersTwo, SameStory
  <2>4. CASE Of(r, v)
    <3>1. /\ votes[v] # 0
          /\ v \notin crossed /\ last[v] # NoVote => call[r].vote = last[v]
          /\ v \notin crossed /\ last[v] = NoVote /\ v \notin excused =>
               r = "message" /\ call[r].vote = NoVote
      BY <2>4, CallSends
    <3>2. \/ /\ server'[v] = server[v]
             /\ \A q \in Q!Runners : Arrived(q, v)' => Arrived(q, v)
          \/ server'[v] = call[r].vote
      BY <1>0, <1>1, <2>1, <2>4 DEF Of, Arrived, Q!TypeOK
    <3>3. Untouched(v)'
      BY <1>1, <2>2, <3>1 DEF Story, Untouched
    <3>4. Held(v)'
      BY <1>1, <2>2 DEF Story, Held
    <3>5. Submitted(v)'
      BY <1>1, <1>5, <2>1, <2>2, RunnersTwo DEF Story, Submitted
    <3>6. Chosen(v)'
      BY <1>1, <1>4, <1>5, <2>1, <2>2, <3>1, <3>2, RunnersTwo DEF Story, Chosen
    <3>7. Deleted(v)'
      BY <1>1, <1>5, <2>1, <2>2, <2>4, <3>1, <3>2, RunnersTwo DEF Story, Deleted
    <3> QED BY <3>3, <3>4, <3>5, <3>6, <3>7 DEF Story
  <2> QED BY <2>3, <2>4
<1> QED BY <1>2, <1>3, <1>6, <1>7 DEF QueueInv

-----------------------------------------------------------------------------
(* SUBMIT_VOTE: a vote that is not cast over another finds nothing of it. *)
LEMMA SubmitInv ==
  ASSUME QueueAssumptions, QueueInv, NEW w \in Videos, NEW c \in Categories, Q!SubmitVote(w, c)
  PROVE  QueueInv'
<1>1. /\ call["message"] = Q!NoCall /\ votes' = [votes EXCEPT ![w] = @ + 1]
      /\ last' = [last EXCEPT ![w] = c] /\ excused' = excused \ {w}
      /\ call' = [call EXCEPT !["message"] = Q!Request(w, c)]
      /\ crossed' = IF w \in Q!Queued(pending) \cup Q!Queued(batch)
                      THEN crossed \cup {w} ELSE crossed \ {w}
  BY DEF Q!SubmitVote, Q!Waiting
<1>2. UNCHANGED <<pending, flush, batch, server>>
  BY DEF Q!SubmitVote, Q!store, Q!flusher
<1>3. Q!TypeOK /\ Q!TypeOK'
  BY UserTypes DEF QueueInv
<1>4. /\ call'["flush"] = call["flush"] /\ call'["message"] # Q!NoCall
      /\ call'["message"].video = w /\ call'["message"].vote = c
      /\ call'["message"].stage = "sent"
  BY <1>1, <1>3, RequestType, RunnersTwo DEF Q!TypeOK, Q!Filed
<1>5. Q!Current' = Q!Current
  BY <1>2 DEF Q!Current, Q!Queued
<1>6. EntriesReal' /\ FlushSends'
  BY <1>2, <1>4, <1>5 DEF QueueInv, EntriesReal, Real, FlushSends
<1>7. ASSUME NEW v \in Videos PROVE Story(v)'
  <2>1. Story(v)
    BY DEF QueueInv
  <2>2. \A r \in Q!Runners : Arrived(r, v)' => r = "flush" /\ Arrived(r, v)
    BY <1>4 DEF Arrived, Of, Q!Runners
  <2>3. CASE v # w
    <3>1. last'[v] = last[v] /\ votes'[v] = votes[v] /\ (v \in excused' <=> v \in excused)
          /\ (v \in crossed' <=> v \in crossed)
      BY <1>1, <1>3, <2>3 DEF Q!TypeOK
    <3>2. ~Of("message", v) /\ ~Of("message", v)'
      BY <1>1, <1>4, <2>3 DEF Of
    <3> QED BY <1>2, <1>5, <2>1, <2>2, <3>1, <3>2, SameStory
  <2>4. CASE v = w
    <3>1. votes'[v] = votes[v] + 1 /\ votes[v] \in Nat /\ last'[v] = c /\ v \notin excused'
      BY <1>1, <1>3, <2>4 DEF Q!TypeOK, QueueAssumptions, Q!BoundsAssumption
    <3>2. /\ votes'[v] # 0 /\ (votes'[v] <= 1 => votes[v] = 0)
          /\ v \notin crossed' => pending[v] = Q!NoEntry /\ batch[v] = Q!NoEntry
          /\ pending[v] = Q!NoEntry /\ batch[v] = Q!NoEntry => v \notin crossed'
      BY <1>1, <2>4, <3>1 DEF Q!Queued
    <3>3. v \notin crossed' => pending[v] = Q!NoEntry /\ batch[v] = Q!NoEntry /\ ~Of("flush", v)
      BY <3>2, FlushCall
    <3>4. batch[v] = Q!NoEntry => ~(flush = "remove" /\ Q!Current = v)
      BY <1>3, QueueTypes DEF Q!TypeOK
    <3>5. Untouched(v)'
      BY <2>1, <3>2 DEF Story, Untouched
    <3>6. Held(v)'
      BY <1>2, <3>3 DEF Held
    <3>7. Submitted(v)'
      BY <1>2, <1>4, <3>1, <3>3 DEF Submitted
    <3>8. Of("message", v)' /\ c # NoVote
      BY <1>4, <2>4 DEF Of, QueueAssumptions, Q!NoVoteAssumption
    <3>9. Chosen(v)'
      BY <1>2, <1>4, <1>5, <2>2, <3>1, <3>3, <3>4, <3>8 DEF Chosen, Arrived
    <3>10. Deleted(v)'
      BY <3>1, <3>8 DEF Deleted
    <3> QED BY <3>5, <3>6, <3>7, <3>9, <3>10 DEF Story
  <2> QED BY <2>3, <2>4
<1> QED BY <1>3, <1>6, <1>7 DEF QueueInv

(* DELETE_VOTE leaves the store alone, so a vote queued there excuses the loss. *)
LEMMA DeleteInv ==
  ASSUME QueueAssumptions, QueueInv, NEW w \in Videos, Q!DeleteVote(w)
  PROVE  QueueInv'
<1>1. /\ call["message"] = Q!NoCall /\ last[w] # NoVote
      /\ last' = [last EXCEPT ![w] = NoVote]
      /\ excused' = IF w \in Q!Queued(pending) THEN excused \cup {w} ELSE excused \ {w}
      /\ call' = [call EXCEPT !["message"] = Q!Request(w, NoVote)]
  BY DEF Q!DeleteVote
<1>2. UNCHANGED <<pending, flush, batch, server, crossed, votes>>
  BY DEF Q!DeleteVote, Q!store, Q!flusher
<1>3. Q!TypeOK /\ Q!TypeOK'
  BY UserTypes DEF QueueInv
<1>4. /\ call'["flush"] = call["flush"] /\ call'["message"] # Q!NoCall
      /\ call'["message"].video = w /\ call'["message"].vote = NoVote
      /\ call'["message"].stage = "sent"
  BY <1>1, <1>3, RequestType, RunnersTwo DEF Q!TypeOK, Q!Filed
<1>5. Q!Current' = Q!Current
  BY <1>2 DEF Q!Current, Q!Queued
<1>6. EntriesReal' /\ FlushSends'
  BY <1>2, <1>4, <1>5 DEF QueueInv, EntriesReal, Real, FlushSends
<1>7. ASSUME NEW v \in Videos PROVE Story(v)'
  <2>1. Story(v)
    BY DEF QueueInv
  <2>2. \A r \in Q!Runners : Arrived(r, v)' => r = "flush" /\ Arrived(r, v)
    BY <1>4 DEF Arrived, Of, Q!Runners
  <2>3. CASE v # w
    <3>1. last'[v] = last[v] /\ (v \in excused' <=> v \in excused)
      BY <1>1, <1>3, <2>3 DEF Q!TypeOK
    <3>2. ~Of("message", v) /\ ~Of("message", v)'
      BY <1>1, <1>4, <2>3 DEF Of
    <3> QED BY <1>2, <1>5, <2>1, <2>2, <3>1, <3>2, SameStory
  <2>4. CASE v = w
    <3>1. last'[v] = NoVote /\ (v \notin excused' => pending[v] = Q!NoEntry)
      BY <1>1, <1>3, <2>4 DEF Q!TypeOK, Q!Queued
    <3>2. Of("message", v)'
      BY <1>4, <2>4 DEF Of
    <3>3. Untouched(v)'
      BY <1>1, <1>2, <2>1, <2>4 DEF Story, Untouched
    <3>4. Held(v)'
      BY <1>2, <2>1 DEF Story, Held
    <3>5. Submitted(v)'
      BY <1>4 DEF Submitted
    <3>6. Chosen(v)'
      BY <3>1 DEF Chosen
    <3>7. Deleted(v)'
      BY <1>2, <1>4, <3>1, <3>2 DEF Deleted, Arrived
    <3> QED BY <3>3, <3>4, <3>5, <3>6, <3>7 DEF Story
  <2> QED BY <2>3, <2>4
<1> QED BY <1>3, <1>6, <1>7 DEF QueueInv

(* The message is answered: Confirm, Enqueue or DeleteFails. *)
LEMMA MessageInv ==
  ASSUME QueueAssumptions, QueueInv, Q!Confirm \/ Q!Enqueue \/ Q!DeleteFails
  PROVE  QueueInv'
<1> DEFINE m == call["message"]
<1>1. Q!TypeOK /\ Q!TypeOK'
  BY UserTypes DEF QueueInv
<1>2. m # Q!NoCall /\ m.video \in Videos /\ m.vote \in Q!Filed
  <2>1. m.stage # "none"
    BY DEF Q!Confirm, Q!Enqueue, Q!DeleteFails
  <2> QED BY <1>1, <2>1, CallKinds, RunnersTwo
<1>3. call' = [call EXCEPT !["message"] = Q!NoCall]
  BY DEF Q!Confirm, Q!Enqueue, Q!DeleteFails
<1>4. call'["flush"] = call["flush"] /\ call'["message"] = Q!NoCall
  BY <1>1, <1>3, RunnersTwo DEF Q!TypeOK
<1>5. UNCHANGED <<flush, batch, server, last, votes>>
  BY DEF Q!Confirm, Q!Enqueue, Q!DeleteFails, Q!store, Q!flusher, Q!history
<1>6. Q!Current' = Q!Current
  BY <1>5 DEF Q!Current, Q!Queued
<1>7. FlushSends'
  BY <1>4, <1>5, <1>6 DEF QueueInv, FlushSends
<1>8. \/ Q!Confirm /\ m.stage = "ok" /\ UNCHANGED <<pending, excused, crossed>>
      \/ /\ Q!Enqueue /\ m.vote # NoVote /\ UNCHANGED excused
         /\ pending' = [pending EXCEPT ![m.video] = [category |-> m.vote, old |-> FALSE]]
         /\ crossed' = IF m.video \in Q!Queued(batch) THEN crossed ELSE crossed \ {m.video}
      \/ /\ Q!DeleteFails /\ m.vote = NoVote /\ UNCHANGED <<pending, crossed>>
         /\ excused' = excused \cup {m.video}
  BY DEF Q!Confirm, Q!Enqueue, Q!DeleteFails, Q!store, Q!history
<1>9. EntriesReal'
  <2>1. m.vote # NoVote => m.vote \in Categories
    BY <1>2 DEF Q!Filed
  <2> QED BY <1>1, <1>2, <1>5, <1>8, <2>1 DEF QueueInv, EntriesReal, Real, Q!TypeOK
<1>10. ASSUME NEW v \in Videos PROVE Story(v)'
  <2>1. Story(v)
    BY DEF QueueInv
  <2>2. \A r \in Q!Runners : Arrived(r, v)' => r = "flush" /\ Arrived(r, v)
    BY <1>4 DEF Arrived, Of, Q!Runners
  <2>3. ~Of("message", v)'
    BY <1>4 DEF Of
  <2>4. CASE m.video # v
    <3>1. /\ pending'[v] = pending[v] /\ (v \in excused' <=> v \in excused)
          /\ (v \in crossed' <=> v \in crossed)
      BY <1>1, <1>8, <2>4 DEF Q!TypeOK
    <3>2. ~Of("message", v)
      BY <2>4 DEF Of
    <3> QED BY <1>5, <1>6, <2>1, <2>2, <2>3, <3>1, <3>2, SameStory
  <2>5. CASE m.video = v
    <3>1. Of("message", v) /\ votes[v] # 0
      BY <1>2, <2>1, <2>5 DEF Of, Story, Untouched
    <3>2. Untouched(v)' /\ Submitted(v)'
      BY <1>5, <1>8, <2>1, <2>3, <3>1 DEF Story, Untouched, Submitted
    <3>3. CASE Q!Confirm /\ m.stage = "ok" /\ UNCHANGED <<pending, excused, crossed>>
      <4>1. Arrived("message", v)
        BY <3>1, <3>3 DEF Arrived
      <4>2. Held(v)'
        BY <1>5, <2>1, <3>3 DEF Story, Held
      <4>3. Chosen(v)'
        BY <1>5, <1>6, <2>1, <2>2, <2>3, <3>3, <4>1, RunnersTwo DEF Story, Chosen
      <4>4. Deleted(v)'
        BY <1>5, <2>1, <2>3, <3>1, <3>3, <4>1 DEF Story, Deleted
      <4> QED BY <3>2, <4>2, <4>3, <4>4 DEF Story
    <3>4. CASE /\ Q!Enqueue /\ m.vote # NoVote /\ UNCHANGED excused
               /\ pending' = [pending EXCEPT ![m.video] = [category |-> m.vote, old |-> FALSE]]
               /\ crossed' = IF m.video \in Q!Queued(batch) THEN crossed ELSE crossed \ {m.video}
      <4>1. last[v] = m.vote /\ (v \notin crossed => pending[v] = Q!NoEntry)
        BY <2>1, <3>1, <3>4 DEF Story, Submitted
      <4>2. pending'[v] = [category |-> m.vote, old |-> FALSE] /\ pending'[v] # Q!NoEntry
            /\ pending'[v].category = m.vote
        BY <1>1, <2>5, <3>4 DEF Q!TypeOK, Q!NoEntry
      <4>3. v \notin crossed => batch[v] = Q!NoEntry
        BY <2>1, <4>1, EntryTypes DEF Story, Held, QueueInv, EntriesReal, Real, QueueAssumptions,
                                      Q!NoVoteAssumption
      <4>4. v \notin crossed' => /\ batch[v] = Q!NoEntry /\ ~Of("flush", v)
                                 /\ ~(flush = "remove" /\ Q!Current = v)
        <5>1. v \notin crossed' => batch[v] = Q!NoEntry
          BY <2>5, <3>4, <4>3 DEF Q!Queued
        <5>2. batch[v] = Q!NoEntry => ~(flush = "remove" /\ Q!Current = v)
          BY <1>1, QueueTypes DEF Q!TypeOK
        <5> QED BY <5>1, <5>2, FlushCall
      <4>5. Held(v)'
        BY <1>5, <4>4 DEF Held
      <4>6. Chosen(v)'
        BY <1>5, <1>6, <2>2, <2>3, <4>1, <4>2, <4>4 DEF Chosen, Arrived
      <4>7. Deleted(v)'
        BY <1>5, <3>4, <4>1 DEF Deleted
      <4> QED BY <3>2, <4>5, <4>6, <4>7 DEF Story
    <3>5. CASE /\ Q!DeleteFails /\ m.vote = NoVote /\ UNCHANGED <<pending, crossed>>
               /\ excused' = excused \cup {m.video}
      <4>1. v \notin crossed => last[v] = NoVote
        BY <2>1, <3>1, <3>5 DEF Story, Chosen
      <4>2. Held(v)'
        BY <1>5, <2>1, <3>5 DEF Story, Held
      <4>3. Chosen(v)'
        BY <1>5, <3>5, <4>1 DEF Chosen
      <4>4. Deleted(v)'
        BY <2>5, <3>5 DEF Deleted
      <4> QED BY <3>2, <4>2, <4>3, <4>4 DEF Story
    <3> QED BY <1>8, <3>3, <3>4, <3>5
  <2> QED BY <2>4, <2>5
<1> QED BY <1>1, <1>7, <1>9, <1>10 DEF QueueInv

-----------------------------------------------------------------------------
(* Steps of the flush and of the browser that change no store. *)
LEMMA QuietInv ==
  ASSUME QueueAssumptions, QueueInv, Q!TimerFires \/ Q!UserFlushes \/ Q!GoOffline \/ Q!GoOnline
  PROVE  QueueInv'
<1>1. UNCHANGED <<pending, batch, call, server, last, excused, crossed, votes>>
  BY DEF Q!TimerFires, Q!UserFlushes, Q!GoOffline, Q!GoOnline, Q!store, Q!flusher, Q!history
<1>2. flush' = flush \/ flush' = "read"
  BY DEF Q!TimerFires, Q!UserFlushes, Q!GoOffline, Q!GoOnline, Q!flusher, Q!FlushCalled
<1>3. Q!TypeOK'
  BY FlushTypes DEF QueueInv
<1>4. Q!Current' = Q!Current
  BY <1>1 DEF Q!Current, Q!Queued
<1>5. EntriesReal' /\ FlushSends'
  BY <1>1, <1>2, <1>4 DEF QueueInv, EntriesReal, Real, FlushSends
<1>6. ASSUME NEW v \in Videos PROVE Story(v)'
  <2>1. /\ Story(v)
        /\ \A r \in Q!Runners : (Of(r, v)' <=> Of(r, v)) /\ (Arrived(r, v)' <=> Arrived(r, v))
    BY <1>1 DEF QueueInv, Of, Arrived
  <2> QED BY <1>1, <1>2, <1>4, <2>1, RunnersTwo, SameStory
<1> QED BY <1>3, <1>5, <1>6 DEF QueueInv

(* The flush reads the store. *)
LEMMA ReadInv == ASSUME QueueAssumptions, QueueInv, Q!ReadPending PROVE QueueInv'
<1>1. batch' = pending /\ flush' \in {"off", "next"}
  BY DEF Q!ReadPending
<1>2. UNCHANGED <<pending, call, server, last, excused, crossed, votes>>
  BY DEF Q!ReadPending, Q!store, Q!history
<1>3. Q!TypeOK /\ Q!TypeOK'
  BY FlushTypes DEF QueueInv, Q!Flush
<1>4. EntriesReal' /\ FlushSends'
  BY <1>1, <1>2 DEF QueueInv, EntriesReal, Real, FlushSends
<1>5. ASSUME NEW v \in Videos PROVE Story(v)'
  <2>1. /\ Story(v)
        /\ \A r \in Q!Runners : (Of(r, v)' <=> Of(r, v)) /\ (Arrived(r, v)' <=> Arrived(r, v))
    BY <1>2 DEF QueueInv, Of, Arrived
  <2>2. batch'[v] = pending'[v]
    BY <1>1, <1>2
  <2>3. Untouched(v)'
    BY <1>2, <2>1, <2>2, RunnersTwo DEF Story, Untouched
  <2>4. Held(v)'
    BY <2>2 DEF Held
  <2>5. Submitted(v)'
    BY <1>2, <2>1, RunnersTwo DEF Story, Submitted
  <2>6. Chosen(v)'
    BY <1>1, <1>2, <2>1, RunnersTwo DEF Story, Chosen
  <2>7. Deleted(v)'
    BY <1>2, <2>1, RunnersTwo DEF Story, Deleted
  <2> QED BY <2>3, <2>4, <2>5, <2>6, <2>7 DEF Story
<1> QED BY <1>3, <1>4, <1>5 DEF QueueInv

(* It turns to the next video, sends its vote or finds it too old. *)
LEMMA NextInv == ASSUME QueueAssumptions, QueueInv, Q!NextPending PROVE QueueInv'
<1>1. UNCHANGED <<pending, batch, server, last, excused, crossed, votes>>
  BY DEF Q!NextPending, Q!store, Q!history
<1>2. Q!TypeOK /\ Q!TypeOK'
  BY FlushTypes DEF QueueInv, Q!Flush
<1>3. Q!Current' = Q!Current
  BY <1>1 DEF Q!Current, Q!Queued
<1>4. \/ flush' = "off" /\ UNCHANGED call
      \/ flush' = "expire" /\ batch[Q!Current].old /\ UNCHANGED call
      \/ /\ flush' = "call" /\ Q!Queued(batch) # {}
         /\ call' = [call EXCEPT !["flush"] = Q!Request(Q!Current, batch[Q!Current].category)]
  BY DEF Q!NextPending
<1>5. call'["message"] = call["message"]
  BY <1>2, <1>4, RunnersTwo DEF Q!TypeOK
<1>6. flush' = "call" => /\ call'["flush"].video = Q!Current /\ call'["flush"].stage = "sent"
                         /\ call'["flush"].vote = batch[Q!Current].category
  BY <1>2, <1>4, QueueTypes, RequestType, RunnersTwo DEF Q!TypeOK
<1>7. flush' # "call" => call' = call
  BY <1>4
<1>8. EntriesReal' /\ FlushSends'
  BY <1>1, <1>3, <1>4, <1>6, Zenon DEF QueueInv, EntriesReal, Real, FlushSends
<1>9. ASSUME NEW v \in Videos PROVE Story(v)'
  <2>1. Story(v) /\ (Of("message", v)' <=> Of("message", v))
    BY <1>5 DEF QueueInv, Of
  <2>2. \A r \in Q!Runners : Arrived(r, v)' => Arrived(r, v)
    BY <1>5, <1>6, <1>7 DEF Arrived, Of, Q!Runners
  <2>3. flush' # "remove"
    BY <1>4
  <2> QED BY <1>1, <1>5, <2>1, <2>2, <2>3, SameStory
<1> QED BY <1>2, <1>8, <1>9 DEF QueueInv

(* The backend has what the flush will remove. *)
LEMMA SentInv == ASSUME QueueAssumptions, QueueInv, Q!FlushSent PROVE QueueInv'
<1>1. UNCHANGED <<pending, batch, server, last, excused, crossed, votes>>
  BY DEF Q!FlushSent, Q!store, Q!history
<1>2. /\ call["flush"].stage = "ok" /\ flush' = "remove"
      /\ call' = [call EXCEPT !["flush"] = Q!NoCall]
  BY DEF Q!FlushSent
<1>3. Q!TypeOK /\ Q!TypeOK'
  BY FlushTypes DEF QueueInv, Q!Flush
<1>4. Q!Current' = Q!Current
  BY <1>1 DEF Q!Current, Q!Queued
<1>5. call'["message"] = call["message"] /\ call'["flush"] = Q!NoCall
  BY <1>2, <1>3, RunnersTwo DEF Q!TypeOK
<1>6. EntriesReal' /\ FlushSends'
  BY <1>1, <1>2 DEF QueueInv, EntriesReal, Real, FlushSends
<1>7. call["flush"] # Q!NoCall /\ call["flush"].video = Q!Current
  <2>1. call["flush"] # Q!NoCall
    BY <1>2, <1>3, CallKinds, RunnersTwo
  <2> QED BY <1>3, <2>1 DEF QueueInv, FlushSends, Q!TypeOK
<1>8. ASSUME NEW v \in Videos PROVE Story(v)'
  <2>1. Story(v) /\ (Of("message", v)' <=> Of("message", v))
    BY <1>5 DEF QueueInv, Of
  <2>2. \A r \in Q!Runners : Arrived(r, v)' => Arrived(r, v)
    BY <1>5 DEF Arrived, Of, Q!Runners
  <2>3. Q!Current = v => Arrived("flush", v)
    BY <1>2, <1>7 DEF Arrived, Of
  <2>4. Untouched(v)'
    BY <1>1, <2>1 DEF Story, Untouched
  <2>5. Held(v)'
    BY <1>1, <2>1 DEF Story, Held
  <2>6. Submitted(v)'
    BY <1>1, <1>5, <2>1 DEF Story, Submitted
  <2>7. Chosen(v)'
    BY <1>1, <1>4, <1>5, <2>1, <2>2, <2>3, RunnersTwo DEF Story, Chosen
  <2>8. Deleted(v)'
    BY <1>1, <1>5, <2>1, <2>2, RunnersTwo DEF Story, Deleted
  <2> QED BY <2>4, <2>5, <2>6, <2>7, <2>8 DEF Story
<1> QED BY <1>3, <1>6, <1>8 DEF QueueInv

(* The flush ends and drops what it holds; the worker may end with it. *)
LEMMA StopInv ==
  ASSUME QueueAssumptions, QueueInv, Q!FlushFails \/ Q!Restart
  PROVE  QueueInv'
<1>1. UNCHANGED <<pending, server, last, crossed, votes>>
  BY DEF Q!FlushFails, Q!Restart, Q!history
<1>2. flush' = "off" /\ batch' = [v \in Videos |-> Q!NoEntry]
  BY DEF Q!FlushFails, Q!Restart
<1>3. Q!TypeOK /\ Q!TypeOK'
  BY FlushTypes DEF QueueInv, Q!Flush
<1>4. \/ /\ excused' = excused /\ call'["message"] = call["message"] /\ call'["flush"] = Q!NoCall
      \/ /\ call' = [r \in Q!Runners |-> Q!NoCall]
         /\ excused' = IF call["message"] = Q!NoCall
                         THEN excused ELSE excused \cup {call["message"].video}
  BY <1>3, RunnersTwo DEF Q!FlushFails, Q!Restart, Q!history, Q!TypeOK
<1>5. EntriesReal' /\ FlushSends'
  BY <1>1, <1>2 DEF QueueInv, EntriesReal, Real, FlushSends
<1>6. ASSUME NEW v \in Videos PROVE Story(v)'
  <2>1. Story(v)
    BY DEF QueueInv
  <2>2. \A r \in Q!Runners : Arrived(r, v)' => Arrived(r, v)
    BY <1>4 DEF Arrived, Of, Q!Runners
  <2>3. \/ (Of("message", v)' <=> Of("message", v)) /\ (v \in excused' <=> v \in excused)
           /\ (Of("message", v) => call'["message"] = call["message"])
        \/ Of("message", v) /\ ~Of("message", v)' /\ v \in excused'
    BY <1>4, RunnersTwo DEF Of
  <2>4. batch'[v] = Q!NoEntry
    BY <1>2
  <2>5. Untouched(v)'
    BY <1>1, <2>1, <2>3, <2>4 DEF Story, Untouched
  <2>6. Held(v)'
    BY <2>4 DEF Held
  <2>7. Submitted(v)'
    BY <1>1, <2>1, <2>3 DEF Story, Submitted
  <2>8. Chosen(v)'
    BY <1>1, <1>2, <2>1, <2>2, <2>3, RunnersTwo DEF Story, Chosen
  <2>9. Deleted(v)'
    BY <1>1, <2>1, <2>2, <2>3, RunnersTwo DEF Story, Deleted
  <2> QED BY <2>5, <2>6, <2>7, <2>8, <2>9 DEF Story
<1> QED BY <1>3, <1>5, <1>6 DEF QueueInv

(* It removes it from the store. *)
LEMMA RemoveInv == ASSUME QueueAssumptions, QueueInv, Q!RemovePending PROVE QueueInv'
<1> DEFINE k == Q!Current
<1>1. Q!TypeOK /\ Q!TypeOK'
  BY FlushTypes DEF QueueInv, Q!Flush
<1>2. UNCHANGED <<call, server, last, crossed, votes>>
  BY DEF Q!RemovePending
<1>3. /\ flush \in {"remove", "expire"} /\ flush' = "next"
      /\ pending' = [pending EXCEPT ![k] = Q!NoEntry] /\ batch' = [batch EXCEPT ![k] = Q!NoEntry]
      /\ excused' = IF flush = "expire" THEN excused \cup {k} ELSE excused
  BY DEF Q!RemovePending
<1>4. k \in Videos /\ batch[k] # Q!NoEntry
  BY <1>1, <1>3, QueueTypes DEF Q!TypeOK
<1> HIDE DEF k
<1>5. EntriesReal' /\ FlushSends'
  BY <1>1, <1>3, <1>4 DEF QueueInv, EntriesReal, Real, FlushSends, Q!TypeOK
<1>6. ASSUME NEW v \in Videos PROVE Story(v)'
  <2>1. /\ Story(v)
        /\ \A r \in Q!Runners : (Of(r, v)' <=> Of(r, v)) /\ (Arrived(r, v)' <=> Arrived(r, v))
    BY <1>2 DEF QueueInv, Of, Arrived
  <2>2. CASE v # k
    <3>1. pending'[v] = pending[v] /\ batch'[v] = batch[v] /\ (v \in excused' <=> v \in excused)
      BY <1>1, <1>3, <2>2 DEF Q!TypeOK
    <3>2. flush' # "remove"
      BY <1>3
    <3> QED BY <1>2, <2>1, <3>1, <3>2, RunnersTwo, SameStory
  <2>3. CASE v = k
    <3>1. pending'[v] = Q!NoEntry /\ batch'[v] = Q!NoEntry /\ votes[v] # 0
      BY <1>1, <1>3, <1>4, <2>1, <2>3 DEF Q!TypeOK, Story, Untouched
    <3>2. \/ flush = "expire" /\ v \in excused'
          \/ flush = "remove" /\ Q!Current = v /\ excused' = excused
      BY <1>3, <2>3 DEF k
    <3>3. Untouched(v)' /\ Held(v)'
      BY <1>2, <2>1, <3>1 DEF Story, Untouched, Held
    <3>4. Submitted(v)'
      BY <1>2, <2>1, <3>1, RunnersTwo DEF Story, Submitted
    <3>5. Chosen(v)'
      BY <1>2, <1>3, <2>1, <3>1, <3>2, RunnersTwo DEF Story, Chosen
    <3>6. Deleted(v)'
      BY <1>2, <2>1, <3>1, <3>2, RunnersTwo DEF Story, Deleted
    <3> QED BY <3>3, <3>4, <3>5, <3>6 DEF Story
  <2> QED BY <2>2, <2>3
<1> QED BY <1>1, <1>5, <1>6 DEF QueueInv

(* A vote gets old where it is stored. *)
LEMMA AgeInv ==
  ASSUME QueueAssumptions, QueueInv, NEW w \in Videos, Q!Age(w)
  PROVE  QueueInv'
<1>1. Q!TypeOK /\ Q!TypeOK'
  BY UserTypes DEF QueueInv
<1>2. UNCHANGED <<flush, batch, call, server, last, excused, crossed, votes>>
  BY DEF Q!Age, Q!flusher, Q!history
<1>3. pending' = [pending EXCEPT ![w].old = TRUE] /\ pending[w] # Q!NoEntry
  BY DEF Q!Age, Q!Queued
<1>4. /\ pending'[w].category = pending[w].category /\ pending'[w].old
      /\ \A u \in Videos \ {w} : pending'[u] = pending[u]
  BY <1>1, <1>3 DEF Q!TypeOK, Q!Entry
<1>5. pending[w].category \in Categories
  BY <1>3 DEF QueueInv, EntriesReal, Real
<1>6. pending'[w] # Q!NoEntry
  BY <1>4, <1>5, EntryTypes DEF QueueAssumptions, Q!NoVoteAssumption
<1>7. Q!Current' = Q!Current
  BY <1>2 DEF Q!Current, Q!Queued
<1>8. EntriesReal' /\ FlushSends'
  BY <1>2, <1>4, <1>5, <1>7 DEF QueueInv, EntriesReal, Real, FlushSends
<1>9. ASSUME NEW v \in Videos PROVE Story(v)'
  <2>1. /\ Story(v)
        /\ \A r \in Q!Runners : (Of(r, v)' <=> Of(r, v)) /\ (Arrived(r, v)' <=> Arrived(r, v))
    BY <1>2 DEF QueueInv, Of, Arrived
  <2>2. CASE v # w
    BY <1>2, <1>4, <1>7, <2>1, <2>2, RunnersTwo, SameStory
  <2>3. CASE v = w
    <3>1. Untouched(v)'
      BY <1>2, <1>3, <2>1, <2>3 DEF Story, Untouched
    <3>2. Held(v)'
      BY <1>2, <1>4, <2>1, <2>3 DEF Story, Held
    <3>3. Submitted(v)'
      BY <1>2, <1>3, <2>1, <2>3, RunnersTwo DEF Story, Submitted
    <3>4. Chosen(v)'
      BY <1>2, <1>3, <1>4, <1>6, <1>7, <2>1, <2>3, RunnersTwo DEF Story, Chosen
    <3>5. Deleted(v)'
      BY <1>2, <1>3, <2>1, <2>3, RunnersTwo DEF Story, Deleted
    <3> QED BY <3>1, <3>2, <3>3, <3>4, <3>5 DEF Story
  <2> QED BY <2>2, <2>3
<1> QED BY <1>1, <1>8, <1>9 DEF QueueInv

(* Nothing happens. *)
LEMMA StutterInv == ASSUME QueueAssumptions, QueueInv, UNCHANGED Q!vars PROVE QueueInv'
<1>1. UNCHANGED <<pending, timer, online, flush, batch, call, server, last, excused, crossed,
                  votes, faults>>
  BY DEF Q!vars, Q!store, Q!flusher, Q!history
<1>2. Q!TypeOK' /\ EntriesReal' /\ FlushSends' /\ Q!Current' = Q!Current
  BY <1>1 DEF QueueInv, Q!TypeOK, EntriesReal, Real, FlushSends, Q!Current, Q!Queued
<1>3. ASSUME NEW v \in Videos PROVE Story(v)'
  <2>1. /\ Story(v)
        /\ \A r \in Q!Runners : (Of(r, v)' <=> Of(r, v)) /\ (Arrived(r, v)' <=> Arrived(r, v))
    BY <1>1 DEF QueueInv, Of, Arrived
  <2> QED BY <1>1, <1>2, <2>1, RunnersTwo, SameStory
<1> QED BY <1>2, <1>3 DEF QueueInv

(* Every step keeps the invariant. *)
LEMMA NextQueue == ASSUME QueueAssumptions, QueueInv, [Q!Next]_Q!vars PROVE QueueInv'
<1>1. CASE Q!Next
  <2>1. \/ \E v \in Videos : \/ Q!DeleteVote(v) \/ Q!Age(v)
                              \/ \E c \in Categories : Q!SubmitVote(v, c)
        \/ \E r \in Q!Runners : Q!Arrives(r) \/ Q!Answered(r) \/ Q!Refused(r) \/ Q!Lost(r)
        \/ Q!Confirm \/ Q!Enqueue \/ Q!DeleteFails \/ Q!TimerFires \/ Q!UserFlushes
        \/ Q!ReadPending \/ Q!NextPending \/ Q!FlushSent \/ Q!FlushFails \/ Q!RemovePending
        \/ Q!GoOffline \/ Q!GoOnline \/ Q!Restart
    BY <1>1, QueueCases
  <2> QED
    BY <2>1, SubmitInv, DeleteInv, AgeInv, NetworkInv, MessageInv, QuietInv, ReadInv, NextInv,
       SentInv, StopInv, RemoveInv
<1>2. CASE UNCHANGED Q!vars
  BY <1>2, StutterInv
<1> QED BY <1>1, <1>2

(* What is stored, held by the flush and on its way fits the user's last   *)
(* choice in every state of messages, retries, flushes and restarts.       *)
THEOREM QueueInvariance ==
  ASSUME QueueAssumptions PROVE Q!Spec => []QueueInv
<1>1. Q!Init => QueueInv
  BY InitQueue
<1>2. QueueInv /\ [Q!Next]_Q!vars => QueueInv'
  BY NextQueue
<1> QED BY <1>1, <1>2, PTL DEF Q!Spec

(* The stores keep their types; isFlushing fits the request of the flush. *)
THEOREM QueueTypeCorrect ==
  ASSUME QueueAssumptions PROVE Q!Spec => []Q!TypeOK
<1>1. QueueInv => Q!TypeOK
  BY DEF QueueInv
<1> QED BY <1>1, QueueInvariance, PTL

(***************************************************************************)
(* The vote last chosen is in the backend or the store or on its way, or   *)
(* the loss is a known one, for any number of votes: handleMessage, the    *)
(* flush and restarts lose it only if it was cast over another that the    *)
(* flush was still to send.                                                *)
(***************************************************************************)
THEOREM LatestVoteStands ==
  ASSUME QueueAssumptions PROVE Q!Spec => []Q!LatestVoteWins
<1>1. ASSUME QueueInv, NEW v \in Videos \ crossed PROVE Q!Accounted(v)
  <2>1. Story(v) /\ ("message" \in Q!Runners)
    BY <1>1, RunnersTwo DEF QueueInv
  <2>2. Of("message", v) => Q!Sending(v)
    BY <2>1 DEF Of, Q!Sending
  <2> QED BY <1>1, <2>1, <2>2 DEF Story, Chosen, Deleted, Q!Accounted
<1>2. QueueInv => Q!LatestVoteWins
  BY <1>1 DEF Q!LatestVoteWins
<1> QED BY <1>2, QueueInvariance, PTL

(* Only removePendingVote takes a vote out of the store. *)
LEMMA RemovalsAreRight ==
  ASSUME QueueAssumptions, QueueInv, [Q!Next]_Q!vars,
         NEW v \in (Q!Queued(pending) \ Q!Queued(pending')) \ crossed
  PROVE  Q!RightlyRemoved(v)
<1>1. v \in Videos /\ pending[v] # Q!NoEntry /\ pending'[v] = Q!NoEntry
  BY DEF Q!Queued
<1>2. Q!RemovePending
  <2>1. ASSUME NEW w \in Videos, Q!Age(w) PROVE FALSE
    <3>1. pending' = [pending EXCEPT ![w].old = TRUE] /\ Q!TypeOK
      BY <2>1 DEF Q!Age, QueueInv
    <3>2. pending'[v] = pending[v] \/ pending'[v].old
      BY <1>1, <3>1 DEF Q!TypeOK, Q!Entry
    <3> QED BY <1>1, <3>2, EntryTypes
  <2>2. ASSUME Q!Enqueue PROVE FALSE
    <3>1. /\ pending' = [pending EXCEPT ![call["message"].video] =
                            [category |-> call["message"].vote, old |-> FALSE]]
          /\ call["message"].vote # NoVote /\ Q!TypeOK
      BY <2>2 DEF Q!Enqueue, QueueInv
    <3>2. \/ pending'[v] = pending[v]
          \/ pending'[v] = [category |-> call["message"].vote, old |-> FALSE]
      BY <1>1, <3>1 DEF Q!TypeOK
    <3> QED BY <1>1, <3>1, <3>2 DEF Q!NoEntry
  <2>3. ~UNCHANGED pending
    BY <1>1
  <2>4. ASSUME Q!Next PROVE Q!RemovePending
    <3>1. \/ \E w \in Videos : \/ Q!DeleteVote(w) \/ Q!Age(w)
                                \/ \E c \in Categories : Q!SubmitVote(w, c)
          \/ \E r \in Q!Runners : Q!Arrives(r) \/ Q!Answered(r) \/ Q!Refused(r) \/ Q!Lost(r)
          \/ Q!Confirm \/ Q!Enqueue \/ Q!DeleteFails \/ Q!TimerFires \/ Q!UserFlushes
          \/ Q!ReadPending \/ Q!NextPending \/ Q!FlushSent \/ Q!FlushFails \/ Q!RemovePending
          \/ Q!GoOffline \/ Q!GoOnline \/ Q!Restart
      BY <2>4, QueueCases
    <3>2. ASSUME NEW w \in Videos, Q!DeleteVote(w) \/ \E c \in Categories : Q!SubmitVote(w, c)
          PROVE  UNCHANGED pending
      BY <3>2 DEF Q!DeleteVote, Q!SubmitVote, Q!store
    <3>3. ASSUME NEW r \in Q!Runners, Q!Arrives(r) \/ Q!Answered(r) \/ Q!Refused(r) \/ Q!Lost(r)
          PROVE  UNCHANGED pending
      BY <3>3 DEF Q!Arrives, Q!Answered, Q!Refused, Q!Lost, Q!store
    <3>4. Q!Confirm \/ Q!DeleteFails \/ Q!TimerFires \/ Q!UserFlushes
          \/ Q!ReadPending \/ Q!NextPending
          \/ Q!FlushSent \/ Q!FlushFails \/ Q!GoOffline \/ Q!GoOnline \/ Q!Restart
          => UNCHANGED pending
      BY DEF Q!Confirm, Q!DeleteFails, Q!TimerFires, Q!UserFlushes, Q!ReadPending, Q!NextPending,
             Q!FlushSent,
             Q!FlushFails, Q!GoOffline, Q!GoOnline, Q!Restart, Q!store
    <3> QED BY <2>1, <2>2, <2>3, <3>1, <3>2, <3>3, <3>4
  <2>5. UNCHANGED Q!vars => UNCHANGED pending
    BY DEF Q!vars, Q!store
  <2> QED BY <2>3, <2>4, <2>5
<1>3. /\ flush \in {"remove", "expire"} /\ Q!TypeOK
      /\ pending' = [pending EXCEPT ![Q!Current] = Q!NoEntry]
  BY <1>2 DEF Q!RemovePending, QueueInv
<1>4. v = Q!Current
  BY <1>1, <1>3 DEF Q!TypeOK
<1>5. batch[v] # Q!NoEntry /\ (flush = "expire" => batch[v].old)
  BY <1>3, <1>4, QueueTypes DEF Q!TypeOK, QueueInv, FlushSends
<1>6. Story(v) /\ Real(pending[v])
  BY <1>1 DEF QueueInv, EntriesReal
<1>7. CASE flush = "expire"
  BY <1>5, <1>6, <1>7 DEF Story, Held, Q!RightlyRemoved
<1>8. CASE flush = "remove"
  <2>1. pending[v].category # NoVote
    BY <1>1, <1>6 DEF Real, QueueAssumptions, Q!NoVoteAssumption
  <2> QED BY <1>1, <1>4, <1>6, <1>8, <2>1 DEF Story, Chosen, Q!RightlyRemoved
<1> QED BY <1>3, <1>7, <1>8

(***************************************************************************)
(* removePendingVote, by video id and after two awaits, takes the vote the *)
(* flush has sent or found too old, but for a vote cast over another.      *)
(***************************************************************************)
THEOREM VotesLeaveRightly ==
  ASSUME QueueAssumptions PROVE Q!Spec => Q!OnlyCrossedVotesLost
<1>1. QueueInv /\ [Q!Next]_Q!vars
      => [\A v \in (Q!Queued(pending) \ Q!Queued(pending')) \ crossed :
            Q!RightlyRemoved(v)]_Q!vars
  BY RemovalsAreRight
<1> QED BY <1>1, QueueInvariance, PTL DEF Q!Spec, Q!OnlyCrossedVotesLost

(* The store keeps the user's votes where every video is voted on once. *)
THEOREM QueueIsKept ==
  ASSUME QueueAssumptions, MaxVotes <= 1 PROVE Q!Spec => Q!QueueKeepsVotes
<1>1. QueueInv /\ [Q!Next]_Q!vars
      => [\A v \in Q!Queued(pending) \ Q!Queued(pending') : Q!RightlyRemoved(v)]_Q!vars
  <2> SUFFICES ASSUME QueueInv, [Q!Next]_Q!vars, NEW v \in Q!Queued(pending) \ Q!Queued(pending')
               PROVE  Q!RightlyRemoved(v)
    OBVIOUS
  <2>1. v \in Videos /\ votes[v] <= 1
    BY DEF QueueInv, Q!TypeOK, Q!Queued, QueueAssumptions, Q!BoundsAssumption
  <2>2. v \notin crossed
    BY <2>1 DEF QueueInv, Story, Untouched
  <2> QED BY <2>2, RemovalsAreRight
<1> QED BY <1>1, QueueInvariance, PTL DEF Q!Spec, Q!QueueKeepsVotes
=============================================================================
