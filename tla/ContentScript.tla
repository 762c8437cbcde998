--------------------------- MODULE ContentScript ---------------------------
(***************************************************************************)
(* The content script's hiding of flagged videos and skipping of flagged   *)
(* shorts: its start, the settings it follows, navigation within YouTube,  *)
(* the observers, the delayed calls and the checks under way.              *)
(*                                                                         *)
(* content.ts, hide.ts, shorts.ts and dom-utils.ts; the vote button is in  *)
(* VoteDropdown.  An action is one callback, or one half of a function     *)
(* that awaits the background's answer.  Home stands for any page with     *)
(* cards; if it is a watch page, for its own video too.  An item stands    *)
(* for its video and the element that renders it.                          *)
(***************************************************************************)
EXTENDS Naturals, FiniteSets

CONSTANTS Cards,           \* videos listed on Home
          Shorts,          \* shorts, each with a page
          Home,
          Flagged,         \* videos the background gives a score >= threshold
          Events,          \* how many events a navigation may bring
          MaxNavigations,  \* bound on URL changes by the user and on skips
                           \* that bring an event, together
          MaxToggles,      \* bound on changes of the settings
          MaxFaults        \* bound on checks that fail

Items == Cards \cup Shorts
Urls  == Shorts \cup {Home}
FlaggedShorts == Flagged \cap Shorts

ASSUME ItemsAssumption == /\ Cards \cap Shorts = {} /\ Home \notin Items
                          /\ Flagged \subseteq Items \cup {Home}
ASSUME EventsAssumption == Events \subseteq {1, 2}
ASSUME BoundsAssumption == {MaxNavigations, MaxToggles, MaxFaults} \subseteq Nat

VARIABLES stored,     \* chrome.storage: [enabled, filter]
          script,     \* where init is, "on" when the listeners are installed
          enabled, filter,  \* enabled and shortsFilterEnabled of the script
          url,
          due,        \* navigation events still to come
          pageType,   \* currentPageType
          present,    \* items with an element in the page
          hidden,     \* elements with data-realtube-hidden
          skipped,    \* elements with data-realtube-skipped
          observer,   \* the MutationObserver is connected
          batch,      \* what the debounce timer will look at
          shortsMode, \* shortsObserver and stopShortsNavWatch are set
          watchers,   \* Shorts observers and intervals alive
          lastUrl,    \* of watchShortsNavigation, Home without one
          starts, scans,  \* timers that will call startShortsMode, scanVisibleVideos
          asked,      \* items in a checkAndHideVideos under way
          skips,      \* skips[u, f]: checkAndSkipCurrentShort under way for the
                      \* video of the URL u; f: it found its element
          missed,     \* history: items no check under way will look at, see below
          unskipped,  \* history: shorts whose check failed, that came back into
                      \* the URL between two looks of the interval, or that
                      \* the player did not leave
          navigations, toggles, faults  \* so far

settings == <<stored, script, enabled, filter>>
page     == <<url, due, present>>
marks    == <<hidden, skipped>>
watch    == <<shortsMode, watchers, lastUrl>>
delayed  == <<starts, scans>>
checks   == <<asked, skips>>
history  == <<missed, unskipped>>
count    == <<navigations, toggles, faults>>
vars     == <<settings, page, pageType, marks, observer, batch, watch, delayed, checks,
              history, count>>

Type(u) == IF u \in Shorts THEN "shorts" ELSE "home"

TypeOK ==
  /\ stored \in [enabled : BOOLEAN, filter : BOOLEAN]
  /\ script \in {"read enabled", "read filter", "on", "off"}
  /\ enabled \in BOOLEAN /\ filter \in BOOLEAN
  /\ url \in Urls /\ due \in Events \cup {0, 1} /\ pageType \in {"home", "shorts", "unknown"}
  /\ present \subseteq IF url = Home THEN Cards ELSE Shorts
  /\ hidden \subseteq present \cap Flagged /\ skipped \subseteq present \cap Flagged
  /\ observer \in BOOLEAN /\ batch \subseteq present /\ asked \subseteq present
  /\ shortsMode \in BOOLEAN /\ watchers \in Nat /\ lastUrl \in Urls
  /\ starts \in Nat /\ scans \in Nat /\ skips \in [Urls \X BOOLEAN -> Nat]
  /\ missed \subseteq present \cap Flagged /\ unskipped \subseteq FlaggedShorts
  /\ observer <=> (script = "on" /\ enabled)
  /\ <<navigations, toggles, faults>> \in
       (0..MaxNavigations) \X (0..MaxToggles) \X (0..MaxFaults)

Init ==
  /\ stored \in [enabled : BOOLEAN, filter : BOOLEAN]
  /\ script = "read enabled" /\ enabled = TRUE /\ filter = TRUE
  /\ url \in Urls /\ due = 0 /\ pageType = "unknown"
  /\ present \in SUBSET IF url = Home THEN Cards ELSE Shorts
  /\ hidden = {} /\ skipped = {}
  /\ observer = FALSE /\ batch = {}
  /\ shortsMode = FALSE /\ watchers = 0 /\ lastUrl = Home
  /\ starts = 0 /\ scans = 0
  /\ asked = {} /\ skips = [c \in Urls \X BOOLEAN |-> 0]
  /\ missed = {} /\ unskipped = {}
  /\ navigations = 0 /\ toggles = 0 /\ faults = 0

-----------------------------------------------------------------------------
(***************************************************************************)
(* Shorts mode.                                                            *)
(***************************************************************************)
RendererFound == url \in present

(* What was skipped is not checked again; on a watch page the URL names a  *)
(* video, too.                                                             *)
CheckCurrentShort == IF url \notin skipped
                       THEN [skips EXCEPT ![<<url, RendererFound>>] = @ + 1] ELSE skips

(* Between shorts events need not come. *)
BetweenShorts == {due} \cup {e \in Events : due < e}

(* The player goes from the short it shows now, whichever that is, to      *)
(* another, if the page has a button or a container to do it with.         *)
SkipToNextShort ==
  \/ UNCHANGED <<url, due, navigations>>
  \/ /\ url \in Shorts /\ url' \in Shorts \ {url}
     /\ \/ UNCHANGED <<due, navigations>>
        \/ /\ due' \in BetweenShorts \ {due}
           /\ navigations < MaxNavigations /\ navigations' = navigations + 1

StopShortsMode ==
  /\ shortsMode' = FALSE
  /\ watchers' = IF shortsMode THEN watchers - 1 ELSE watchers
  /\ lastUrl' = IF watchers' = 0 THEN Home ELSE lastUrl

(* Mutant of StartShortsMode: it does not stop what runs. *)
StartShortsModeAgain ==
  /\ shortsMode' = TRUE
  /\ watchers' = watchers + 1
  /\ lastUrl' = url
  /\ skips' = CheckCurrentShort

(* It stops what runs, checks the short of the URL and watches the URL;    *)
(* the shorts on the page are in AskedByStart.                             *)
StartShortsMode ==
  /\ shortsMode' = TRUE
  /\ watchers' = (IF shortsMode THEN watchers - 1 ELSE watchers) + 1
  /\ lastUrl' = url
  /\ skips' = CheckCurrentShort

AskedByStart == present \cap Shorts

StartTimer ==
  /\ starts > 0
  /\ starts' = starts - 1
  /\ StartShortsMode
  /\ asked' = asked \cup AskedByStart
  /\ UNCHANGED <<settings, page, pageType, marks, observer, batch, scans, history, count>>

(* Mutant of PollUrl: the interval checks only the first change. *)
PollUrlOnce ==
  /\ watchers > 0 /\ url # lastUrl
  /\ lastUrl' = url
  /\ UNCHANGED <<skips, settings, page, pageType, marks, observer, batch, shortsMode,
                 watchers, delayed, asked, history, count>>

(* The interval of watchShortsNavigation. *)
PollUrl ==
  /\ watchers > 0 /\ url # lastUrl
  /\ lastUrl' = url
  /\ skips' = IF url \in Shorts THEN CheckCurrentShort ELSE skips
  /\ UNCHANGED <<settings, page, pageType, marks, observer, batch, shortsMode, watchers,
                 delayed, asked, history, count>>

Fault == faults < MaxFaults /\ faults' = faults + 1

Back == IF watchers > 0 /\ url' # url /\ url' = lastUrl THEN {url'} \cap FlaggedShorts ELSE {}

(***************************************************************************)
(* The rest of checkAndSkipCurrentShort.  If the video checked is flagged, *)
(* its element is marked and the player goes on.                           *)
(***************************************************************************)
SkipAnswered(s, f) ==
  /\ skips[s, f] > 0
  /\ skips' = [skips EXCEPT ![<<s, f>>] = @ - 1]
  /\ IF s \notin Flagged THEN UNCHANGED <<url, due, skipped, unskipped, navigations>>
     ELSE /\ skipped' = IF f THEN skipped \cup {s} ELSE skipped
          /\ SkipToNextShort
          /\ unskipped' = unskipped \cup Back \cup ({s} \cap {url} \cap {url'} \cap Shorts)
  /\ UNCHANGED <<settings, present, pageType, hidden, observer, batch, watch, delayed,
                 asked, missed, toggles, faults>>

SkipCheckFails(s, f) ==
  /\ skips[s, f] > 0 /\ Fault
  /\ skips' = [skips EXCEPT ![<<s, f>>] = @ - 1]
  /\ unskipped' = unskipped \cup ({s} \cap FlaggedShorts)
  /\ UNCHANGED <<settings, page, pageType, marks, observer, batch, watch, delayed, asked,
                 navigations, toggles, missed>>

-----------------------------------------------------------------------------
(***************************************************************************)
(* Hiding.  The selectors are those of currentPageType.                    *)
(***************************************************************************)
Matched(items) == {i \in items : pageType = "unknown" \/
                                 pageType = IF i \in Cards THEN "home" ELSE "shorts"}

(* What the Shorts observer finds, whatever the page type. *)
NewShorts(new) == IF watchers > 0 THEN new \cap Shorts ELSE {}

(* The MutationObserver, whose start stops an earlier one. *)
Observe(b) == observer' = b

(* scanVisibleVideos, by timer. *)
Scan ==
  /\ scans > 0
  /\ scans' = scans - 1
  /\ IF enabled THEN /\ asked' = asked \cup Matched(present)
                     /\ missed' = missed \ Matched(present)
                ELSE UNCHANGED <<asked, missed>>
  /\ UNCHANGED <<settings, page, pageType, marks, observer, batch, watch, starts, skips, unskipped,
                 count>>

(***************************************************************************)
(* Elements for `new` come into the page, or only something else (new =    *)
(* {}).  The debounce timer is set anew with the mutations of this call    *)
(* alone: those of an earlier call are missed.                             *)
(***************************************************************************)
Mutation(new) ==
  /\ present' = present \cup new
  /\ new \subseteq IF url = Home THEN Cards \ present ELSE Shorts \ present
  /\ batch'  = IF observer THEN new ELSE batch
  /\ missed' = IF observer THEN missed \cup (batch \cap Flagged) ELSE missed
  /\ asked'  = asked \cup NewShorts(new)
  /\ UNCHANGED <<settings, url, due, pageType, marks, observer, watch, delayed, skips, unskipped,
                 count>>

(* Mutant of DebounceTimer: the batch is dropped. *)
DebounceTimerDrops ==
  /\ batch # {}
  /\ batch' = {}
  /\ UNCHANGED <<settings, page, pageType, marks, observer, watch, delayed, checks, history, count>>

(* Whether enabled or not. *)
DebounceTimer ==
  /\ batch # {}
  /\ batch' = {}
  /\ asked' = asked \cup Matched(batch)
  /\ missed' = missed \cup ((batch \ Matched(batch)) \cap Flagged)
  /\ UNCHANGED <<settings, page, pageType, marks, observer, watch, delayed, skips, unskipped,
                 count>>

HideAnswered(i) ==
  /\ i \in asked
  /\ asked' = asked \ {i}
  /\ hidden' = hidden \cup ({i} \cap Flagged)
  /\ UNCHANGED <<settings, page, pageType, skipped, observer, batch, watch, delayed, skips,
                 history, count>>

HideCheckFails(i) ==
  /\ i \in asked /\ Fault
  /\ asked' = asked \ {i}
  /\ missed' = missed \cup ({i} \cap Flagged)
  /\ UNCHANGED <<settings, page, pageType, marks, observer, batch, watch, delayed, skips,
                 navigations, toggles, unskipped>>

-----------------------------------------------------------------------------
(***************************************************************************)
(* Navigation.  The URL changes first; the events follow, between shorts   *)
(* not always.  The elements of the page that is left are gone, and a      *)
(* check that found one marks nothing on the page any more.                *)
(***************************************************************************)
Navigate(to) ==
  /\ navigations < MaxNavigations /\ to # url
  /\ navigations' = navigations + 1
  /\ url' = to
  /\ due' \in IF {url, to} \subseteq Shorts THEN BetweenShorts ELSE Events
  /\ IF {url, to} \subseteq Shorts
       THEN UNCHANGED <<present, marks, batch, checks, missed>>
       ELSE /\ present' = {} /\ hidden' = {} /\ skipped' = {}
            /\ batch' = {} /\ asked' = {} /\ missed' = {}
            /\ skips' = [c \in Urls \X BOOLEAN |->
                 IF c[2] THEN 0 ELSE skips[c[1], TRUE] + skips[c[1], FALSE]]
  /\ unskipped' = unskipped \cup Back
  /\ UNCHANGED <<settings, pageType, observer, watch, delayed, toggles, faults>>

(* onNavigate, which does not ask whether the extension is enabled. *)
OnNavigate ==
  /\ due > 0 /\ script = "on"
  /\ due' = due - 1
  /\ pageType' = Type(url)
  /\ scans' = scans + 1
  /\ IF Type(url) = "shorts" /\ filter
       THEN starts' = starts + 1 /\ UNCHANGED watch
       ELSE StopShortsMode /\ UNCHANGED starts
  /\ UNCHANGED <<settings, url, present, marks, observer, batch, checks, history, count>>

(* No listener yet, or none at all. *)
EventUnheard ==
  /\ due > 0 /\ script # "on"
  /\ due' = due - 1
  /\ UNCHANGED <<settings, url, present, pageType, marks, observer, batch, watch, delayed,
                 checks, history, count>>

-----------------------------------------------------------------------------
(***************************************************************************)
(* init, one step for each read of the settings.                           *)
(***************************************************************************)
ReadEnabled ==
  /\ script = "read enabled"
  /\ enabled' = stored.enabled
  /\ script' = IF stored.enabled THEN "read filter" ELSE "off"
  /\ UNCHANGED <<stored, filter, page, pageType, marks, observer, batch, watch, delayed,
                 checks, history, count>>

ReadFilter ==
  /\ script = "read filter"
  /\ script' = "on"
  /\ filter' = stored.filter
  /\ pageType' = Type(url)
  /\ scans' = 1
  /\ starts' = IF Type(url) = "shorts" /\ stored.filter THEN 1 ELSE 0
  /\ Observe(TRUE)
  /\ UNCHANGED <<stored, enabled, page, marks, batch, watch, checks, history, count>>

(* Mutant of EnabledChanged: what came while paused is not looked at. *)
EnabledChangedOnly(b) ==
  /\ enabled' = b /\ Observe(b)
  /\ UNCHANGED <<asked, missed>>
  /\ IF b THEN UNCHANGED <<watch, skips>> ELSE StopShortsMode /\ UNCHANGED skips

EnabledChanged(b) ==
  /\ enabled' = b /\ Observe(b)
  /\ IF b THEN /\ missed' = missed \ Matched(present)
               /\ IF pageType = "shorts" /\ filter
                    THEN /\ StartShortsMode
                         /\ asked' = asked \cup Matched(present) \cup AskedByStart
                    ELSE /\ asked' = asked \cup Matched(present)
                         /\ UNCHANGED <<watch, skips>>
          ELSE StopShortsMode /\ UNCHANGED <<checks, missed>>

FilterChanged(b) ==
  /\ filter' = b
  /\ IF enabled /\ pageType = "shorts" /\ b
       THEN StartShortsMode /\ asked' = asked \cup AskedByStart
     ELSE IF enabled /\ pageType = "shorts"
       THEN StopShortsMode /\ UNCHANGED checks
     ELSE UNCHANGED <<watch, checks>>

(***************************************************************************)
(* The user changes a setting in the popup or on the options page; the     *)
(* script hears of it when its listener is installed.                      *)
(***************************************************************************)
Toggle(setting) ==
  /\ toggles < MaxToggles
  /\ toggles' = toggles + 1
  /\ stored' = [stored EXCEPT ![setting] = ~@]
  /\ IF script # "on"
       THEN UNCHANGED <<enabled, filter, observer, watch, checks, missed>>
     ELSE IF setting = "enabled"
       THEN EnabledChanged(stored'.enabled) /\ UNCHANGED filter
       ELSE FilterChanged(stored'.filter) /\ UNCHANGED <<enabled, observer, missed>>
  /\ UNCHANGED <<script, page, pageType, marks, batch, delayed, navigations, faults, unskipped>>

-----------------------------------------------------------------------------
Answers ==
  \/ \E s \in Urls, f \in BOOLEAN : SkipAnswered(s, f)
  \/ \E i \in Items : HideAnswered(i)

Timers == StartTimer \/ PollUrl \/ Scan \/ DebounceTimer

Next == \/ Timers \/ Answers
        \/ \E s \in Urls, f \in BOOLEAN : SkipCheckFails(s, f)
        \/ \E i \in Items : HideCheckFails(i)
        \/ \E new \in SUBSET Items : Mutation(new)
        \/ \E to \in Urls : Navigate(to)
        \/ OnNavigate \/ EventUnheard \/ ReadEnabled \/ ReadFilter
        \/ \E setting \in {"enabled", "filter"} : Toggle(setting)

Spec == Init /\ [][Next]_vars

(* Timers fire, the background answers, events arrive: none of them has    *)
(* infinitely many others to let pass.                                     *)
FairSpec ==
  /\ Spec
  /\ WF_vars(Timers) /\ WF_vars(Answers) /\ WF_vars(OnNavigate)

-----------------------------------------------------------------------------
(***************************************************************************)
(* No observer or interval of Shorts outlives the variables that can stop  *)
(* it, whatever delayed starts and settings do ("Stop Shorts-specific      *)
(* observers").                                                            *)
(***************************************************************************)
WatchersKnown == watchers = IF shortsMode THEN 1 ELSE 0

(***************************************************************************)
(* While the extension is enabled, a flagged video on the page is hidden   *)
(* or something under way will look at it, except what a later mutation    *)
(* took out of the debounce, the selectors of the wrong page did not       *)
(* match, or a failed check left unknown.                                  *)
(***************************************************************************)
FlaggedAccounted ==
  script = "on" /\ enabled =>
    \A i \in present \cap Flagged :
      scans > 0 \/ due > 0 \/ i \in hidden \cup batch \cup asked \cup missed

(***************************************************************************)
(* What is accounted for is in the end hidden.                             *)
(***************************************************************************)
FlaggedHidden ==
  \A i \in Flagged :
    []<>(script # "on" \/ ~enabled \/ i \notin present \/ i \in hidden \cup missed)

(***************************************************************************)
(* A user who stays on a flagged short that was not skipped before is      *)
(* taken to another ("Check the currently active short and skip it if      *)
(* flagged"), unless its check failed, it came back between two looks of   *)
(* the interval, the page gave the player no way on, or a setting turns    *)
(* the filter off.                                                         *)
(***************************************************************************)
FlaggedSkipped ==
  \A s \in FlaggedShorts :
    []<>(script # "on" \/ ~enabled \/ ~filter \/ url # s \/ s \in skipped \cup unskipped)
=============================================================================
