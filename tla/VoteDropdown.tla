---------------------------- MODULE VoteDropdown ----------------------------
(***************************************************************************)
(* The vote button and its dropdown on a YouTube page: injection with      *)
(* retries, the dropdown's life, the vote in flight and the feedback's     *)
(* timer, next to a page that navigates and renders as it likes.           *)
(*                                                                         *)
(* vote-ui.ts and the calls content.ts makes to it.  Callbacks run to      *)
(* their end: an action is a callback, or one half of submitVote, which    *)
(* awaits the background's answer.  Which category is chosen does not      *)
(* matter here, only that one is.                                          *)
(***************************************************************************)
EXTENDS Naturals, FiniteSets

CONSTANTS Videos,          \* videos with a page of their own
          Shorts,          \* those that are shorts
          NoVideo,         \* the URL of any other page
          MaxOpens,        \* bound on dropdowns opened
          MaxNavigations,  \* bound on URL changes
          MaxRenders       \* bound on action bars rendered anew

ASSUME VideosAssumption == Shorts \subseteq Videos /\ NoVideo \notin Videos
ASSUME BoundsAssumption == {MaxOpens, MaxNavigations, MaxRenders} \subseteq Nat

VARIABLES url,         \* getVideoId(): the video of the page, or NoVideo
          due,         \* navigation events still to come for the URL
          bar,         \* the page has an action bar
          container,   \* containerEl: none, in the document or detached
          dropdown,    \* dropdownEl: NoDropdown or an opened one
          selected,    \* selectedCategory is set
          isSubmitting,
          inject,      \* timers that will call injectVoteButton
          closers,     \* the dropdowns whose feedback set a timer
          sent,        \* sent[id]: votes the dropdown id has sent so far ...
          answered,    \* ... and those of them that were answered
          opens, navigations, renders  \* so far

page   == <<url, due, bar>>
ui     == <<dropdown, selected, isSubmitting>>
timers == <<inject, closers>>
count  == <<opens, navigations, renders>>
votes  == <<sent, answered>>
vars   == <<page, container, ui, timers, votes, count>>

Opened     == 1..MaxOpens
NoDropdown == [id |-> 0, video |-> NoVideo, body |-> "none"]
Dropdown   == [id : Opened, video : Videos \cup {NoVideo}, body : {"options", "feedback", "lost"}]

(* Without a dropdown nothing is selected and nothing keeps one from opening. *)
TypeOK ==
  /\ url \in Videos \cup {NoVideo} /\ due \in 0..2 /\ bar \in BOOLEAN
  /\ container \in {"none", "attached", "detached"}
  /\ dropdown \in Dropdown \cup {NoDropdown}
  /\ selected \in BOOLEAN /\ isSubmitting \in BOOLEAN
  /\ inject \in 0..(2 * MaxNavigations + 1) /\ closers \subseteq Opened
  /\ sent \in [Opened -> Nat] /\ answered \in [Opened -> Nat]
  /\ opens \in 0..MaxOpens /\ navigations \in 0..MaxNavigations /\ renders \in 0..MaxRenders
  /\ dropdown.body = "options" => container = "attached"
  /\ dropdown = NoDropdown => ~selected /\ ~isSubmitting
  /\ container = "none" => dropdown = NoDropdown

(* init of content.ts, on any page. *)
Init ==
  /\ url \in Videos \cup {NoVideo} /\ due = 0 /\ bar \in BOOLEAN
  /\ container = "none"
  /\ dropdown = NoDropdown /\ selected = FALSE /\ isSubmitting = FALSE
  /\ inject = IF url = NoVideo THEN 0 ELSE 1
  /\ closers = {} /\ sent = [id \in Opened |-> 0] /\ answered = [id \in Opened |-> 0]
  /\ opens = 0 /\ navigations = 0 /\ renders = 0

-----------------------------------------------------------------------------
(***************************************************************************)
(* The page.  Its events come after the URL has changed, one or two of     *)
(* them (yt-navigate-finish, popstate); from one short to the next there   *)
(* may be none.  YouTube may render the action bar anew at any time.       *)
(***************************************************************************)
Torn ==
  \/ UNCHANGED <<container, dropdown>>
  \/ /\ container = "attached" /\ container' = "detached"
     /\ dropdown' = IF dropdown = NoDropdown THEN dropdown
                    ELSE [dropdown EXCEPT !.body = "lost"]

Navigate(to) ==
  /\ navigations < MaxNavigations /\ to # url
  /\ navigations' = navigations + 1
  /\ url' = to
  /\ due' \in IF {url, to} \subseteq Shorts THEN due..2 ELSE 1..2
  /\ bar' \in BOOLEAN
  /\ Torn
  /\ UNCHANGED <<selected, isSubmitting, timers, votes, opens, renders>>

Render ==
  /\ renders < MaxRenders
  /\ renders' = renders + 1
  /\ bar' \in BOOLEAN
  /\ Torn
  /\ UNCHANGED <<url, due, selected, isSubmitting, timers, votes, opens, navigations>>

BarAppears ==
  /\ ~bar /\ bar' = TRUE
  /\ UNCHANGED <<url, due, container, ui, timers, votes, count>>

-----------------------------------------------------------------------------
(* Mutant of CloseDropdown: isSubmitting is left to the answer's handler. *)
CloseDropdownBusy ==
  /\ dropdown' = NoDropdown
  /\ selected' = FALSE /\ UNCHANGED isSubmitting

CloseDropdown ==
  /\ dropdown' = NoDropdown
  /\ selected' = FALSE /\ isSubmitting' = FALSE

(* Mutant of RemoveVoteButton: the dropdown is not closed with the button. *)
RemoveVoteButtonOnly == container' = "none" /\ UNCHANGED ui

RemoveVoteButton == container' = "none" /\ CloseDropdown

(* The vote button's part of onNavigate. *)
OnNavigate ==
  /\ due > 0
  /\ due' = due - 1
  /\ RemoveVoteButton
  /\ inject' = IF url = NoVideo THEN inject ELSE inject + 1
  /\ UNCHANGED <<url, bar, closers, votes, count>>

(* Mutant of InjectVoteButton: without an action bar it gives up. *)
InjectVoteButtonOnce ==
  /\ inject > 0
  /\ inject' = inject - 1
  /\ container' = IF container # "attached" /\ url # NoVideo /\ bar
                    THEN "attached" ELSE container
  /\ UNCHANGED <<page, ui, closers, votes, count>>

(* Without an action bar it sets the timer again, which is no step.  A     *)
(* dropdown lost with a detached container stays in dropdownEl.            *)
InjectVoteButton ==
  /\ inject > 0
  /\ container = "attached" \/ url = NoVideo \/ bar
  /\ inject' = inject - 1
  /\ container' = IF container = "attached" \/ url = NoVideo THEN container ELSE "attached"
  /\ UNCHANGED <<page, ui, closers, votes, count>>

-----------------------------------------------------------------------------
(***************************************************************************)
(* The user.                                                               *)
(***************************************************************************)
OpenDropdown ==
  /\ container = "attached" /\ dropdown = NoDropdown /\ ~isSubmitting
  /\ opens < MaxOpens
  /\ opens' = opens + 1
  /\ dropdown' = [id |-> opens + 1, video |-> url, body |-> "options"]
  /\ selected' = FALSE
  /\ UNCHANGED <<page, container, isSubmitting, timers, votes, navigations, renders>>

(* The button again, a click outside, or Escape. *)
UserCloses ==
  /\ dropdown # NoDropdown
  /\ CloseDropdown
  /\ UNCHANGED <<page, container, timers, votes, count>>

SelectCategory ==
  /\ dropdown.body = "options" /\ ~isSubmitting
  /\ ~selected /\ selected' = TRUE
  /\ UNCHANGED <<page, container, dropdown, isSubmitting, timers, votes, count>>

(* Nothing to show it in: the message is dropped. *)
ShowFeedback ==
  IF dropdown = NoDropdown THEN UNCHANGED <<dropdown, closers>>
  ELSE /\ dropdown' = [dropdown EXCEPT !.body = "feedback"]
       /\ closers' = closers \cup {dropdown.id}

(* Mutant of SubmitVote: the guard isSubmitting is dropped. *)
SubmitVoteAgain ==
  /\ dropdown.body = "options" /\ selected
  /\ IF url = NoVideo
       THEN ShowFeedback /\ UNCHANGED <<isSubmitting, sent>>
       ELSE /\ isSubmitting' = TRUE
            /\ sent' = [sent EXCEPT ![dropdown.id] = @ + 1]
            /\ UNCHANGED <<dropdown, closers>>
  /\ UNCHANGED <<page, container, selected, inject, answered, count>>

(* The video is the one of the URL now. *)
SubmitVote ==
  /\ dropdown.body = "options" /\ selected /\ ~isSubmitting
  /\ IF url = NoVideo
       THEN ShowFeedback /\ UNCHANGED <<isSubmitting, sent>>
       ELSE /\ isSubmitting' = TRUE
            /\ sent' = [sent EXCEPT ![dropdown.id] = @ + 1]
            /\ UNCHANGED <<dropdown, closers>>
  /\ UNCHANGED <<page, container, selected, inject, answered, count>>

(* Success, queued, refused or no background at all: there is a message.   *)
(* isSubmitting stays, for the dropdown is shown until it is closed.       *)
Answered(id) ==
  /\ answered[id] < sent[id]
  /\ answered' = [answered EXCEPT ![id] = @ + 1]
  /\ ShowFeedback
  /\ UNCHANGED <<page, container, selected, isSubmitting, inject, sent, count>>

(* The timer of a feedback closes whatever dropdown is open. *)
FeedbackEnds(id) ==
  /\ id \in closers
  /\ closers' = closers \ {id}
  /\ CloseDropdown
  /\ UNCHANGED <<page, container, inject, votes, count>>

-----------------------------------------------------------------------------
Next == \/ \E to \in Videos \cup {NoVideo} : Navigate(to)
        \/ Render \/ BarAppears \/ OnNavigate \/ InjectVoteButton
        \/ OpenDropdown \/ UserCloses \/ SelectCategory \/ SubmitVote
        \/ \E id \in Opened : Answered(id) \/ FeedbackEnds(id)

Spec == Init /\ [][Next]_vars

(* Timers fire, messages are answered, events and action bars come.        *)
FairSpec == /\ Spec
            /\ WF_vars(InjectVoteButton) /\ WF_vars(OnNavigate) /\ WF_vars(BarAppears)
            /\ WF_vars(\E id \in Opened : Answered(id))
            /\ \A id \in Opened : WF_vars(FeedbackEnds(id))

-----------------------------------------------------------------------------
(***************************************************************************)
(* However clicks, answers, timers and navigation fall, a dropdown sends   *)
(* one vote at most: submitVote sets isSubmitting before its await, only   *)
(* what closes the dropdown resets it, and an answer takes the options     *)
(* away.                                                                   *)
(***************************************************************************)
OneVotePerDropdown == \A id \in Opened : sent[id] <= 1

(***************************************************************************)
(* Once the page's events are in, an open dropdown is of the video the     *)
(* page shows, so that a vote goes to the video it was meant for; only     *)
(* among shorts, where events may be missing, it can be another.           *)
(***************************************************************************)
DropdownOfPage ==
  dropdown # NoDropdown /\ due = 0 =>
    dropdown.video = url \/ {dropdown.video, url} \subseteq Shorts

(***************************************************************************)
(* A vote in flight never disables the button for good.                    *)
(***************************************************************************)
SubmittingEnds == isSubmitting ~> ~isSubmitting

(***************************************************************************)
(* A page of a video gets its button once it has an action bar, however    *)
(* late that comes and whatever it navigates to in between.                *)
(***************************************************************************)
ButtonAppears ==
  (url # NoVideo /\ due > 0) ~> (url = NoVideo \/ container = "attached")
=============================================================================
