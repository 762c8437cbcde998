----------------------------- MODULE PageProofs -----------------------------
(***************************************************************************)
(* Proofs about what runs in the browser's pages, for any URLs, videos and *)
(* numbers of requests: Settings, and next to it VoteDropdown (D) and      *)
(* ContentScript (C).  D and C are instances of their modules, whose       *)
(* assumptions are the hypotheses of their theorems; the three have no     *)
(* steps together.                                                         *)
(***************************************************************************)
EXTENDS Settings, TLAPS

CONSTANTS
  (* of VoteDropdown *)
  Videos, NoVideo, MaxOpens, MaxRenders,
  (* of ContentScript *)
  Cards, Home, Flagged, Events, MaxToggles,
  (* of both *)
  Shorts, MaxNavigations

VARIABLES
  (* of VoteDropdown *)
  bar, container, dropdown, selected, isSubmitting, inject, closers, sent, answered,
  opens, renders,
  (* of ContentScript, which has stored and faults too *)
  script, enabled, filter, pageType, present, hidden, skipped, observer, batch, shortsMode,
  watchers, lastUrl, starts, scans, asked, skips, missed, unskipped, toggles,
  (* of both *)
  url, due, navigations

D == INSTANCE VoteDropdown
C == INSTANCE ContentScript

-----------------------------------------------------------------------------
(***************************************************************************)
(* Settings.  Between a choice and its write, the options page holds the   *)
(* choice and a timer; a page that is open otherwise shows what is stored, *)
(* or is behind the popup's switch.                                        *)
(***************************************************************************)
EditsTimed == \A key \in edited : saveTimer /\ settings[key] = chosen[key]

Shown(key) == \/ settings[key] = stored[key]
              \/ key \in edited
              \/ key = "enabled" /\ behind

PageShows == options = "open" => \A key \in Keys : Shown(key)

ChoicesHeld == \A key \in Keys : stored[key] = chosen[key] \/ Excused(key) \/ key \in edited

ReadsFollow == \A r \in Requests : \/ reading[r].url \in {None, Resolve(stored.serverUrl)}
                                   \/ changed \/ reading[r].old

SettingsInv == TypeOK /\ EditsTimed /\ PageShows /\ ChoicesHeld /\ ReadsFollow /\ BaseFollows

(* The actions one by one. *)
LEMMA SettingsCases ==
  ASSUME Next
  PROVE  \/ OpenPopup \/ LoadData \/ LoadDataFails \/ HandleToggle \/ ClosePopup
         \/ OpenOptions \/ LoadSettings \/ SaveTimer \/ ToastTimer \/ CloseOptions
         \/ \E key \in Keys : \E value \in Values(key) : Save(key, value)
         \/ OnChanged \/ Restart \/ \E r \in Requests : GetConfig(r) \/ ConfigRead(r)
  BY DEF Next, Popup, Options, Background

(* A setting keeps its type whichever key is replaced. *)
LEMMA SettingType ==
  ASSUME NEW s \in Setting, NEW key \in Keys, NEW value \in Values(key)
  PROVE  /\ [s EXCEPT ![key] = value] \in Setting
         /\ [s EXCEPT ![key] = value][key] = value
         /\ \A other \in Keys \ {key} : [s EXCEPT ![key] = value][other] = s[other]
  <1>1. CASE key = "enabled"
    BY <1>1 DEF Setting, Keys, Values
  <1>2. CASE key = "serverUrl"
    BY <1>2 DEF Setting, Keys, Values
  <1>. QED
    BY <1>1, <1>2 DEF Keys

ReadConfig == [url : Bases \cup {None}, old : BOOLEAN]

LEMMA NoReadType == NoRead \in ReadConfig
  BY DEF NoRead, ReadConfig

(* The Boolean part of TypeOK, which is easier to prove on its own. *)
SettingsFlags ==
  /\ popupEnabled \in BOOLEAN /\ saveTimer \in BOOLEAN /\ toastTimer \in BOOLEAN
  /\ changed \in BOOLEAN /\ behind \in BOOLEAN /\ overwritten \in BOOLEAN
  /\ outrun \in BOOLEAN
  /\ saveTimer \/ toastTimer => options = "open"

LEMMA ResolveType ==
  ASSUME NEW given \in Urls \cup {Default} PROVE Resolve(given) \in Bases
  BY UrlsAssumption DEF Resolve, Bases

-----------------------------------------------------------------------------
LEMMA InitSettings == ASSUME Init PROVE SettingsInv
  <1>1. settings \in Setting
    BY DEF Init, DEFAULT_SETTINGS, Setting
  <1>2. reading \in [Requests -> ReadConfig]
    BY NoReadType DEF Init
  <1>3. TypeOK
    <2>1. SettingsFlags
      BY DEF Init, SettingsFlags
    <2>2. choices \in 0..MaxChoices /\ faults \in 0..MaxFaults
      BY BoundsAssumption DEF Init
    <2>. QED
      BY <1>1, <1>2, <2>1, <2>2 DEF Init, SettingsFlags, TypeOK, ReadConfig
  <1>. QED
    BY <1>3 DEF Init, SettingsInv, EditsTimed, PageShows, ChoicesHeld, ReadsFollow,
                BaseFollows, NoRead

LEMMA NextSettings == ASSUME TypeOK, [Next]_vars PROVE TypeOK'
  <1>. USE DEF TypeOK
  <1>1. CASE UNCHANGED vars
    BY <1>1 DEF vars, pages, base, history
  <1>2. CASE OpenPopup
    BY <1>2 DEF OpenPopup, base, history
  <1>3. CASE LoadData
    BY <1>3 DEF LoadData, base, history, Setting
  <1>4. CASE LoadDataFails
    BY <1>4, BoundsAssumption DEF LoadDataFails, Fault, base, history
  <1>5. CASE ClosePopup
    BY <1>5 DEF ClosePopup, base, history
  <1>6. CASE HandleToggle
    <2>1. [stored EXCEPT !.enabled = ~popupEnabled] \in Setting
      BY DEF Setting
    <2>2. [chosen EXCEPT !["enabled"] = ~popupEnabled] \in Setting
      BY DEF Setting
    <2>. QED
      BY <1>6, <2>1, <2>2, BoundsAssumption DEF HandleToggle, Store, Chooses, Keys
  <1>7. CASE OpenOptions
    BY <1>7 DEF OpenOptions, base, history, DEFAULT_SETTINGS, Setting
  <1>8. CASE LoadSettings
    BY <1>8 DEF LoadSettings, base
  <1>9. CASE ToastTimer
    BY <1>9 DEF ToastTimer, base, history
  <1>10. CASE CloseOptions
    BY <1>10 DEF CloseOptions, base
  <1>11. ASSUME NEW key \in Keys, NEW value \in Values(key), Save(key, value) PROVE TypeOK'
    <2>1. settings' \in Setting /\ chosen' \in Setting
      BY <1>11, SettingType DEF Save, Chooses
    <2>2. SettingsFlags'
      BY <1>11 DEF Save, Chooses, base, SettingsFlags
    <2>3. edited' \subseteq Keys /\ abandoned' \subseteq Keys
      BY <1>11 DEF Save, Chooses
    <2>4. choices' \in 0..MaxChoices
      BY <1>11, BoundsAssumption DEF Save, Chooses
    <2>. QED
      BY <1>11, <2>1, <2>2, <2>3, <2>4 DEF Save, base, SettingsFlags
  <1>12. CASE SaveTimer
    BY <1>12 DEF SaveTimer, Store
  <1>13. CASE OnChanged
    <2>1. reading' \in [Requests -> ReadConfig]
      BY <1>13, NoReadType DEF OnChanged, ReadConfig
    <2>. QED
      BY <1>13, <2>1 DEF OnChanged, pages, history, ReadConfig
  <1>14. CASE Restart
    <2>1. reading' \in [Requests -> ReadConfig]
      BY <1>14, NoReadType DEF Restart, ReadConfig
    <2>2. faults' \in 0..MaxFaults
      BY <1>14, BoundsAssumption DEF Restart, Fault
    <2>. QED
      BY <1>14, <2>1, <2>2 DEF Restart, pages, history, ReadConfig
  <1>15. ASSUME NEW r \in Requests, GetConfig(r) PROVE TypeOK'
    <2>1. Resolve(stored.serverUrl) \in Bases
      BY ResolveType DEF Setting
    <2>. QED
      BY <1>15, <2>1 DEF GetConfig, pages, history
  <1>16. ASSUME NEW r \in Requests, ConfigRead(r) PROVE TypeOK'
    BY <1>16 DEF ConfigRead, NoRead, pages, history
  <1>. QED
    BY <1>1, <1>2, <1>3, <1>4, <1>5, <1>6, <1>7, <1>8, <1>9, <1>10, <1>11, <1>12, <1>13,
       <1>14, <1>15, <1>16, SettingsCases

-----------------------------------------------------------------------------
(* The choices: only the two pages' actions matter. *)
LEMMA NextKept ==
  ASSUME TypeOK, EditsTimed, PageShows, ChoicesHeld, [Next]_vars
  PROVE  (EditsTimed /\ PageShows /\ ChoicesHeld)'
  <1>. USE DEF TypeOK, EditsTimed, PageShows, ChoicesHeld, Shown, Excused
  <1>1. CASE UNCHANGED <<stored, settings, options, saveTimer, history>>
    BY <1>1 DEF history
  <1>2. CASE HandleToggle
    <2>1. stored'["enabled"] = chosen'["enabled"]
      BY <1>2 DEF HandleToggle, Store, Chooses, Setting
    <2>2. stored'["serverUrl"] = stored["serverUrl"] /\ chosen'["serverUrl"] = chosen["serverUrl"]
      BY <1>2 DEF HandleToggle, Store, Chooses, Setting
    <2>. QED
      BY <1>2, <2>1, <2>2 DEF HandleToggle, Chooses, Keys
  <1>3. CASE OpenOptions
    BY <1>3 DEF OpenOptions, history
  <1>4. CASE LoadSettings
    BY <1>4 DEF LoadSettings
  <1>5. ASSUME NEW key \in Keys, NEW value \in Values(key), Save(key, value)
        PROVE  (EditsTimed /\ PageShows /\ ChoicesHeld)'
    <2>1. settings'[key] = value /\ chosen'[key] = value
      BY <1>5, SettingType DEF Save, Chooses
    <2>2. \A other \in Keys \ {key} :
             settings'[other] = settings[other] /\ chosen'[other] = chosen[other]
      BY <1>5, SettingType DEF Save, Chooses
    <2>. QED
      BY <1>5, <2>1, <2>2 DEF Save, Chooses
  <1>6. CASE SaveTimer
    BY <1>6 DEF SaveTimer, Store
  <1>7. CASE CloseOptions
    BY <1>7 DEF CloseOptions
  <1>8. CASE OpenPopup \/ LoadData \/ LoadDataFails \/ ClosePopup \/ ToastTimer
    BY <1>1, <1>8 DEF OpenPopup, LoadData, LoadDataFails, ClosePopup, ToastTimer
  <1>9. CASE OnChanged \/ Restart \/ \E r \in Requests : GetConfig(r) \/ ConfigRead(r)
    BY <1>1, <1>9 DEF OnChanged, Restart, GetConfig, ConfigRead, pages
  <1>. QED
    BY <1>1, <1>2, <1>3, <1>4, <1>5, <1>6, <1>7, <1>8, <1>9, SettingsCases DEF vars, pages

(***************************************************************************)
(* The cached URL: a getConfig that finishes stores the URL of the         *)
(* settings, unless an event is due or came while it was reading.          *)
(***************************************************************************)
LEMMA NextBase ==
  ASSUME TypeOK, ReadsFollow, BaseFollows, [Next]_vars
  PROVE  (ReadsFollow /\ BaseFollows)'
  <1>. USE DEF TypeOK, ReadsFollow, BaseFollows
  <1>1. CASE UNCHANGED <<stored, base>>
    BY <1>1 DEF base, Resolve
  <1>2. ASSUME NEW new, Store(new) PROVE (ReadsFollow /\ BaseFollows)'
    BY <1>2 DEF Store, Resolve
  <1>3. CASE OnChanged
    BY <1>3 DEF OnChanged, NoRead, pages, history
  <1>4. CASE Restart
    BY <1>4 DEF Restart, NoRead, pages, history
  <1>5. ASSUME NEW r \in Requests, GetConfig(r) PROVE (ReadsFollow /\ BaseFollows)'
    BY <1>5 DEF GetConfig, Resolve
  <1>6. ASSUME NEW r \in Requests, ConfigRead(r) PROVE (ReadsFollow /\ BaseFollows)'
    BY <1>6 DEF ConfigRead, NoRead, Resolve
  <1>7. CASE HandleToggle \/ SaveTimer
    BY <1>2, <1>7 DEF HandleToggle, SaveTimer
  <1>8. CASE \/ OpenPopup \/ LoadData \/ LoadDataFails \/ ClosePopup
             \/ OpenOptions \/ LoadSettings \/ ToastTimer \/ CloseOptions
             \/ \E key \in Keys : \E value \in Values(key) : Save(key, value)
    BY <1>1, <1>8 DEF OpenPopup, LoadData, LoadDataFails, ClosePopup, OpenOptions,
                      LoadSettings, ToastTimer, CloseOptions, Save
  <1>. QED
    BY <1>1, <1>3, <1>4, <1>5, <1>6, <1>7, <1>8, SettingsCases DEF vars

-----------------------------------------------------------------------------
(* The invariant holds in every state Settings reaches. *)
THEOREM SettingsInvariance == Spec => []SettingsInv
  <1>1. Init => SettingsInv
    BY InitSettings
  <1>2. SettingsInv /\ [Next]_vars => SettingsInv'
    BY NextSettings, NextKept, NextBase DEF SettingsInv
  <1>. QED
    BY <1>1, <1>2, PTL DEF Spec

(* The pages, the timers and the cached URL keep their types. *)
THEOREM SettingsTypeCorrect == Spec => []TypeOK
  <1>1. SettingsInv => TypeOK
    BY DEF SettingsInv
  <1>. QED
    BY <1>1, SettingsInvariance, PTL

(***************************************************************************)
(* What the user last chose is stored or about to be, but for the two ways *)
(* named in Excused: handleToggle and save of the two pages in any order.  *)
(***************************************************************************)
THEOREM ChoicesAreKept == Spec => []ChoicesKept
  <1>1. SettingsInv => ChoicesKept
    BY DEF SettingsInv, ChoicesHeld, EditsTimed, ChoicesKept
  <1>. QED
    BY <1>1, SettingsInvariance, PTL

(* getConfig and its listener keep the background on the server of the settings. *)
THEOREM BackgroundFollows == Spec => []BaseFollows
  <1>1. SettingsInv => BaseFollows
    BY DEF SettingsInv
  <1>. QED
    BY <1>1, SettingsInvariance, PTL

-----------------------------------------------------------------------------
(***************************************************************************)
(* VoteDropdown.  What keeps a dropdown from a second vote is that a new   *)
(* dropdown has sent none, and that isSubmitting is set from the vote of   *)
(* the open dropdown until it is closed, answered or not.                  *)
(***************************************************************************)
DropdownAssumptions == D!VideosAssumption /\ D!BoundsAssumption

(* Every navigation brings two events and the first page no more than one. *)
InjectsBounded == inject + due <= 2 * navigations + 1

DropdownsNumbered ==
  /\ dropdown.id \in 0..opens /\ closers \subseteq 1..opens
  /\ \A id \in D!Opened : sent[id] > 0 => id \in 1..opens

SubmittingSince == dropdown # D!NoDropdown /\ sent[dropdown.id] > 0 => isSubmitting

DropdownInv == /\ D!TypeOK /\ InjectsBounded /\ DropdownsNumbered
               /\ SubmittingSince /\ D!OneVotePerDropdown /\ D!DropdownOfPage

LEMMA DropdownCases ==
  ASSUME D!Next
  PROVE  \/ \E to \in Videos \cup {NoVideo} : D!Navigate(to)
         \/ D!Render \/ D!BarAppears \/ D!OnNavigate \/ D!InjectVoteButton
         \/ D!OpenDropdown \/ D!UserCloses \/ D!SelectCategory \/ D!SubmitVote
         \/ \E id \in D!Opened : D!Answered(id) \/ D!FeedbackEnds(id)
  BY DEF D!Next

LEMMA InitDropdown == ASSUME DropdownAssumptions, D!Init PROVE DropdownInv
  <1>. USE DEF DropdownAssumptions, D!BoundsAssumption, D!Init
  <1>1. MaxOpens \in Nat /\ MaxNavigations \in Nat /\ MaxRenders \in Nat
    OBVIOUS
  <1>2. D!TypeOK
    <2>1. /\ due \in 0..2 /\ inject \in 0..(2 * MaxNavigations + 1)
          /\ opens \in 0..MaxOpens /\ navigations \in 0..MaxNavigations
          /\ renders \in 0..MaxRenders
      BY <1>1
    <2>2. bar \in BOOLEAN /\ selected \in BOOLEAN /\ isSubmitting \in BOOLEAN
      OBVIOUS
    <2>3. dropdown = D!NoDropdown /\ dropdown.body = "none" /\ ~selected /\ ~isSubmitting
      BY DEF D!NoDropdown
    <2>. QED
      BY <2>1, <2>2, <2>3 DEF D!TypeOK
  <1>3. InjectsBounded /\ DropdownsNumbered /\ SubmittingSince
    BY DEF InjectsBounded, DropdownsNumbered, SubmittingSince, D!NoDropdown
  <1>4. D!OneVotePerDropdown /\ D!DropdownOfPage
    BY DEF D!OneVotePerDropdown, D!DropdownOfPage
  <1>. QED
    BY <1>2, <1>3, <1>4 DEF DropdownInv

LEMMA DropdownTypes == ASSUME DropdownAssumptions, D!TypeOK
                       PROVE  /\ dropdown.id \in Nat /\ dropdown.video \in Videos \cup {NoVideo}
                              /\ dropdown.body \in {"none", "options", "feedback", "lost"}
                              /\ dropdown # D!NoDropdown => dropdown \in D!Dropdown
                              /\ dropdown.body = "options" => dropdown \in D!Dropdown
                              /\ MaxOpens \in Nat /\ MaxNavigations \in Nat /\ MaxRenders \in Nat
                              /\ {inject, due, opens, navigations, renders} \subseteq Nat
  BY DEF DropdownAssumptions, D!BoundsAssumption, D!TypeOK, D!NoDropdown, D!Dropdown, D!Opened

(* Closing leaves no dropdown a vote could be of. *)
LEMMA Closing ==
  ASSUME DropdownAssumptions, DropdownInv, D!CloseDropdown, UNCHANGED D!votes,
         closers' \subseteq closers, container' \in {"none", container},
         UNCHANGED <<D!page, D!count>>, inject' = inject
  PROVE  DropdownInv'
  <1>. USE DEF DropdownInv, D!CloseDropdown, D!page, D!votes, D!count
  <1>1. D!TypeOK'
    <2>1. dropdown' = D!NoDropdown /\ ~selected' /\ ~isSubmitting' /\ D!NoDropdown.body = "none"
      BY DEF D!NoDropdown
    <2>2. selected' \in BOOLEAN /\ isSubmitting' \in BOOLEAN
      OBVIOUS
    <2>3. UNCHANGED <<sent, answered>> /\ closers' \subseteq D!Opened
      BY DEF D!TypeOK
    <2>. QED
      BY <2>1, <2>2, <2>3 DEF D!TypeOK
  <1>2. DropdownsNumbered'
    BY DropdownTypes DEF DropdownsNumbered, D!NoDropdown
  <1>3. InjectsBounded'
    BY DEF InjectsBounded
  <1>4. D!OneVotePerDropdown' /\ SubmittingSince' /\ D!DropdownOfPage'
    BY DEF D!OneVotePerDropdown, SubmittingSince, D!DropdownOfPage, D!NoDropdown
  <1>. QED
    BY <1>1, <1>3, <1>4, <1>2

(* A new page or a new bar leaves the dropdown what it is, in sight or not. *)
LEMMA TornKeeps ==
  ASSUME DropdownAssumptions, D!TypeOK, D!Torn
  PROVE  /\ dropdown'.id = dropdown.id /\ dropdown'.video = dropdown.video
         /\ dropdown' \in D!Dropdown \cup {D!NoDropdown}
         /\ dropdown' = D!NoDropdown <=> dropdown = D!NoDropdown
         /\ dropdown'.body = "options" => container' = "attached"
         /\ container' \in {"none", "attached", "detached"}
         /\ container' = "none" <=> container = "none"
  <1>1. CASE UNCHANGED <<container, dropdown>>
    BY <1>1 DEF D!TypeOK
  <1>2. CASE dropdown = D!NoDropdown
    BY <1>2 DEF D!TypeOK, D!Torn, D!NoDropdown
  <1>3. CASE dropdown # D!NoDropdown /\ ~UNCHANGED <<container, dropdown>>
    <2>1. dropdown \in D!Dropdown /\ dropdown' = [dropdown EXCEPT !.body = "lost"]
          /\ container = "attached" /\ container' = "detached"
      BY <1>3 DEF D!TypeOK, D!Torn
    <2>. QED
      BY <2>1 DEF D!Dropdown, D!Opened, D!NoDropdown
  <1>. QED
    BY <1>1, <1>2, <1>3

LEMMA FeedbackKeeps ==
  ASSUME DropdownAssumptions, DropdownInv, D!ShowFeedback
  PROVE  /\ dropdown'.id = dropdown.id /\ dropdown'.video = dropdown.video
         /\ dropdown' \in D!Dropdown \cup {D!NoDropdown}
         /\ dropdown' = D!NoDropdown <=> dropdown = D!NoDropdown
         /\ dropdown'.body # "options"
         /\ closers' \subseteq D!Opened /\ closers' \subseteq 1..opens
  <1>. USE DEF DropdownInv, D!TypeOK, DropdownsNumbered, D!ShowFeedback
  <1>1. CASE dropdown = D!NoDropdown
    BY <1>1 DEF D!NoDropdown
  <1>2. CASE dropdown # D!NoDropdown
    <2>1. dropdown \in D!Dropdown /\ dropdown' = [dropdown EXCEPT !.body = "feedback"]
          /\ closers' = closers \cup {dropdown.id}
      BY <1>2
    <2>. QED
      BY <2>1 DEF D!Dropdown, D!Opened, D!NoDropdown
  <1>. QED
    BY <1>1, <1>2

LEMMA TwoMore ==
  ASSUME NEW i \in Nat, NEW d \in Nat, NEW e \in Nat, NEW n \in Nat,
         i + d <= 2 * n + 1, e <= d + 2
  PROVE  i + e <= 2 * (n + 1) + 1
  OBVIOUS

LEMMA NextDropdown ==
  ASSUME DropdownAssumptions, DropdownInv, [D!Next]_D!vars
  PROVE  DropdownInv'
  <1>. USE DropdownTypes DEF DropdownInv, D!TypeOK, InjectsBounded, DropdownsNumbered,
                             SubmittingSince, D!OneVotePerDropdown, D!DropdownOfPage, D!votes
  <1>1. CASE UNCHANGED D!vars
    BY <1>1 DEF D!vars, D!page, D!ui, D!timers, D!count
  <1>2. ASSUME NEW to \in Videos \cup {NoVideo}, D!Navigate(to) PROVE DropdownInv'
    <2>1. D!Torn
      BY <1>2 DEF D!Navigate
    <2>2. due' \in 0..2 /\ due' <= due + 2 /\ navigations' = navigations + 1
          /\ navigations' \in 0..MaxNavigations
      BY <1>2 DEF D!Navigate
    <2>3. due' = 0 => due = 0 /\ {url, url'} \subseteq Shorts
      BY <1>2 DEF D!Navigate
    <2>4. D!TypeOK'
      <3>1. url' \in Videos \cup {NoVideo} /\ bar' \in BOOLEAN
        BY <1>2 DEF D!Navigate
      <3>2. UNCHANGED <<selected, isSubmitting, inject, closers, sent, answered, opens,
                     renders>>
        BY <1>2 DEF D!Navigate, D!timers
      <3>. QED
        BY <2>1, <2>2, <3>1, <3>2, TornKeeps
    <2>5. InjectsBounded' /\ DropdownsNumbered'
      <3>1. UNCHANGED <<inject, closers, sent, opens>>
        BY <1>2 DEF D!Navigate, D!timers
      <3>2. inject \in Nat /\ due \in Nat /\ navigations \in Nat
        BY DropdownTypes
      <3>3. InjectsBounded'
        <4>1. due' \in Nat /\ due' <= due + 2 /\ inject' = inject
              /\ navigations' = navigations + 1 /\ inject + due <= 2 * navigations + 1
          BY <2>2, <3>1
        <4>. QED
          BY <3>2, <4>1, TwoMore
      <3>. QED
        BY <2>1, <3>1, <3>3, TornKeeps
    <2>6. D!OneVotePerDropdown' /\ SubmittingSince' /\ D!DropdownOfPage'
      BY <1>2, <2>1, <2>3, TornKeeps DEF D!Navigate
    <2>. QED
      BY <2>4, <2>5, <2>6
  <1>3. CASE D!Render
    <2>1. D!Torn
      BY <1>3 DEF D!Render
    <2>. QED
      BY <1>3, <2>1, TornKeeps DEF D!Render, D!timers
  <1>4. CASE D!BarAppears
    BY <1>4 DEF D!BarAppears, D!ui, D!timers, D!count
  <1>5. CASE D!OnNavigate
    <2>1. dropdown' = D!NoDropdown /\ ~selected' /\ ~isSubmitting' /\ container' = "none"
          /\ selected' \in BOOLEAN /\ isSubmitting' \in BOOLEAN
      BY <1>5 DEF D!OnNavigate, D!RemoveVoteButton, D!CloseDropdown
    <2>2. due' = due - 1 /\ due > 0 /\ inject' \in {inject, inject + 1}
      BY <1>5 DEF D!OnNavigate
    <2>3. due' \in 0..2 /\ InjectsBounded' /\ inject' \in 0..(2 * MaxNavigations + 1)
      BY <1>5, <2>2 DEF D!OnNavigate, D!count
    <2>4. D!TypeOK'
      BY <1>5, <2>1, <2>3 DEF D!OnNavigate, D!count, D!NoDropdown
    <2>5. DropdownsNumbered' /\ D!OneVotePerDropdown' /\ SubmittingSince' /\ D!DropdownOfPage'
      BY <1>5, <2>1 DEF D!OnNavigate, D!count, D!NoDropdown
    <2>. QED
      BY <2>3, <2>4, <2>5
  <1>6. CASE D!InjectVoteButton
    BY <1>6 DEF D!InjectVoteButton, D!page, D!ui, D!count
  <1>7. CASE D!OpenDropdown
    <2>1. dropdown' = [id |-> opens + 1, video |-> url, body |-> "options"]
          /\ opens' = opens + 1 /\ opens + 1 \in D!Opened
      BY <1>7 DEF D!OpenDropdown, D!Opened
    <2>2. dropdown' \in D!Dropdown /\ dropdown' # D!NoDropdown
      BY <2>1 DEF D!Dropdown, D!NoDropdown
    <2>3. D!TypeOK'
      <3>1. /\ container = "attached" /\ ~selected' /\ selected' \in BOOLEAN
            /\ UNCHANGED <<url, due, bar, container, isSubmitting, inject, closers, sent, answered,
                           navigations, renders>>
        BY <1>7 DEF D!OpenDropdown, D!page, D!timers
      <3>2. opens' \in 0..MaxOpens
        BY <2>1 DEF D!Opened
      <3>. QED
        BY <2>1, <2>2, <3>1, <3>2
    <2>4. InjectsBounded' /\ DropdownsNumbered'
      BY <1>7, <2>1 DEF D!OpenDropdown, D!page, D!timers
    <2>5. D!OneVotePerDropdown' /\ SubmittingSince' /\ D!DropdownOfPage'
      BY <1>7, <2>1 DEF D!OpenDropdown, D!page, D!timers
    <2>. QED
      BY <2>3, <2>4, <2>5
  <1>8. CASE D!UserCloses
    BY <1>8, Closing DEF D!UserCloses, D!timers
  <1>9. CASE D!SelectCategory
    BY <1>9 DEF D!SelectCategory, D!page, D!timers, D!count, D!NoDropdown
  <1>10. CASE D!SubmitVote
    <2>1. dropdown \in D!Dropdown /\ ~isSubmitting /\ dropdown # D!NoDropdown
      BY <1>10 DEF D!SubmitVote, D!NoDropdown
    <2>2. CASE url = NoVideo
      <3>1. D!ShowFeedback /\ UNCHANGED <<isSubmitting, sent>>
        BY <1>10, <2>2 DEF D!SubmitVote
      <3>. QED
        BY <1>10, <2>1, <3>1, FeedbackKeeps DEF D!SubmitVote, D!page, D!count
    <2>3. CASE url # NoVideo
      <3>1. dropdown.id \in D!Opened /\ dropdown.id \in 1..opens /\ sent[dropdown.id] = 0
        BY <2>1 DEF D!Dropdown, D!Opened
      <3>2. /\ isSubmitting' = TRUE /\ sent' = [sent EXCEPT ![dropdown.id] = sent[dropdown.id] + 1]
            /\ UNCHANGED <<dropdown, closers, url, due, bar, container, selected, inject, answered,
                           opens, navigations, renders>>
        BY <1>10, <2>3 DEF D!SubmitVote, D!page, D!count
      <3>3. D!TypeOK' /\ InjectsBounded' /\ SubmittingSince' /\ D!DropdownOfPage'
        BY <2>1, <3>1, <3>2
      <3>4. DropdownsNumbered' /\ D!OneVotePerDropdown'
        BY <2>1, <3>1, <3>2
      <3>. QED
        BY <3>3, <3>4
    <2>. QED
      BY <2>2, <2>3
  <1>11. ASSUME NEW id \in D!Opened, D!Answered(id) PROVE DropdownInv'
    BY <1>11, FeedbackKeeps DEF D!Answered, D!page, D!count
  <1>12. ASSUME NEW id \in D!Opened, D!FeedbackEnds(id) PROVE DropdownInv'
    BY <1>12, Closing DEF D!FeedbackEnds
  <1>. QED
    BY <1>1, <1>2, <1>3, <1>4, <1>5, <1>6, <1>7, <1>8, <1>9, <1>10, <1>11, <1>12, DropdownCases

(* The invariant holds in every state the page and the button reach. *)
THEOREM DropdownInvariance ==
  ASSUME DropdownAssumptions PROVE D!Spec => []DropdownInv
  <1>1. D!Init => DropdownInv
    BY InitDropdown
  <1>2. DropdownInv /\ [D!Next]_D!vars => DropdownInv'
    BY NextDropdown
  <1>. QED
    BY <1>1, <1>2, PTL DEF D!Spec

(* The page, the button, the dropdown and its timers keep their types. *)
THEOREM DropdownTypeCorrect ==
  ASSUME DropdownAssumptions PROVE D!Spec => []D!TypeOK
  <1>1. DropdownInv => D!TypeOK
    BY DEF DropdownInv
  <1>. QED
    BY <1>1, DropdownInvariance, PTL

(***************************************************************************)
(* One dropdown sends one vote at most, answered or not (isSubmitting, set *)
(* before the await of submitVote), however many dropdowns are opened,     *)
(* closed by the timer of another or torn out by the page.                 *)
(***************************************************************************)
THEOREM DropdownsVoteOnce ==
  ASSUME DropdownAssumptions PROVE D!Spec => []D!OneVotePerDropdown
  <1>1. DropdownInv => D!OneVotePerDropdown
    BY DEF DropdownInv
  <1>. QED
    BY <1>1, DropdownInvariance, PTL

(***************************************************************************)
(* onNavigate closes what was opened for another page: once the events are *)
(* in, an open dropdown is of the page's video, but for shorts.            *)
(***************************************************************************)
THEOREM DropdownsFollowPage ==
  ASSUME DropdownAssumptions PROVE D!Spec => []D!DropdownOfPage
  <1>1. DropdownInv => D!DropdownOfPage
    BY DEF DropdownInv
  <1>. QED
    BY <1>1, DropdownInvariance, PTL

-----------------------------------------------------------------------------
(***************************************************************************)
(* ContentScript.  FlaggedAccounted rests on PageKnown: without an event   *)
(* to come the selectors are those of the page, so that a scan misses      *)
(* nothing that is on it.                                                  *)
(***************************************************************************)
ContentAssumptions == C!ItemsAssumption /\ C!EventsAssumption /\ C!BoundsAssumption

PageKnown == script = "on" /\ due = 0 => pageType = C!Type(url)

(* A check that found the element of its short finds it still. *)
FoundPresent == \A s \in C!Urls : skips[s, TRUE] > 0 => s \in present

(* TypeOK in parts. *)
ScriptTypes ==
  /\ stored \in [enabled : BOOLEAN, filter : BOOLEAN]
  /\ script \in {"read enabled", "read filter", "on", "off"}
  /\ enabled \in BOOLEAN /\ filter \in BOOLEAN
  /\ script = "read filter" => enabled
  /\ observer \in BOOLEAN /\ (observer <=> (script = "on" /\ enabled))

PageTypes ==
  /\ url \in C!Urls /\ due \in Events \cup {0, 1}
  /\ pageType \in {"home", "shorts", "unknown"}
  /\ lastUrl \in C!Urls /\ unskipped \subseteq C!FlaggedShorts

CountTypes ==
  /\ navigations \in 0..MaxNavigations /\ toggles \in 0..MaxToggles /\ faults \in 0..MaxFaults

ElementTypes ==
  /\ present \subseteq IF url = Home THEN Cards ELSE Shorts
  /\ hidden \subseteq present \cap Flagged /\ skipped \subseteq present \cap Flagged
  /\ batch \subseteq present /\ asked \subseteq present /\ missed \subseteq present \cap Flagged

TimerTypes ==
  /\ shortsMode \in BOOLEAN /\ watchers \in Nat /\ starts \in Nat /\ scans \in Nat

SkipTypes == skips \in [C!Urls \X BOOLEAN -> Nat]

ContentInv == /\ ScriptTypes /\ PageTypes /\ CountTypes /\ ElementTypes /\ TimerTypes /\ SkipTypes
              /\ PageKnown /\ FoundPresent /\ C!WatchersKnown /\ C!FlaggedAccounted

LEMMA ContentCases ==
  ASSUME C!Next
  PROVE  \/ C!StartTimer \/ C!PollUrl \/ C!Scan \/ C!DebounceTimer
         \/ \E s \in C!Urls, f \in BOOLEAN : C!SkipAnswered(s, f) \/ C!SkipCheckFails(s, f)
         \/ \E i \in C!Items : C!HideAnswered(i) \/ C!HideCheckFails(i)
         \/ \E new \in SUBSET C!Items : C!Mutation(new)
         \/ \E to \in C!Urls : C!Navigate(to)
         \/ C!OnNavigate \/ C!EventUnheard \/ C!ReadEnabled \/ C!ReadFilter
         \/ \E setting \in {"enabled", "filter"} : C!Toggle(setting)
  BY DEF C!Next, C!Timers, C!Answers

LEMMA ContentBounds ==
  ASSUME ContentAssumptions
  PROVE  MaxNavigations \in Nat /\ MaxToggles \in Nat /\ MaxFaults \in Nat
  BY DEF ContentAssumptions, C!BoundsAssumption

LEMMA DueNat == ASSUME ContentAssumptions, PageTypes PROVE due \in Nat
  BY DEF ContentAssumptions, C!EventsAssumption, PageTypes

LEMMA Arithmetic == 1 > 0 /\ ~ (0 > 0) /\ \A m, n \in Nat : m + n \in Nat
  OBVIOUS

LEMMA InitContent == ASSUME ContentAssumptions, C!Init PROVE ContentInv
  <1>. USE DEF C!Init
  <1>1. ScriptTypes
    BY DEF ScriptTypes
  <1>2. PageTypes
    BY DEF PageTypes, C!Urls
  <1>3. CountTypes
    <2>1. navigations = 0 /\ toggles = 0 /\ faults = 0
      BY Zenon
    <2>. HIDE DEF C!Init
    <2>. QED
      BY <2>1, ContentBounds DEF CountTypes
  <1>4. SkipTypes /\ FoundPresent
    <2>1. skips \in [C!Urls \X BOOLEAN -> Nat] /\ \A c \in C!Urls \X BOOLEAN : skips[c] = 0
      <3>1. skips = [c \in C!Urls \X BOOLEAN |-> 0] /\ 0 \in Nat
        BY Zenon
      <3>. HIDE DEF C!Init
      <3>. QED
        BY <3>1
    <2>2. \A s \in C!Urls : <<s, TRUE>> \in C!Urls \X BOOLEAN
      OBVIOUS
    <2>3. \A s \in C!Urls : skips[<<s, TRUE>>] = 0
      BY <2>1, <2>2, Zenon
    <2>. HIDE DEF C!Init
    <2>4. FoundPresent
      BY <2>3, Arithmetic, Zenon DEF FoundPresent
    <2>. QED
      BY <2>1, <2>4 DEF SkipTypes
  <1>5. ElementTypes
    BY DEF ElementTypes
  <1>6. TimerTypes
    BY DEF TimerTypes
  <1>7. PageKnown /\ C!WatchersKnown /\ C!FlaggedAccounted
    BY DEF PageKnown, C!WatchersKnown, C!FlaggedAccounted
  <1>. QED
    BY <1>1, <1>2, <1>5, <1>6, <1>7, <1>3, <1>4 DEF ContentInv

(* One more or one less at c leaves the numbers natural. *)
LEMMA MoreAt ==
  ASSUME NEW Dom, NEW g \in [Dom -> Nat], NEW c \in Dom
  PROVE  /\ [g EXCEPT ![c] = @ + 1] \in [Dom -> Nat]
         /\ \A d \in Dom : [g EXCEPT ![c] = @ + 1][d] > 0 => d = c \/ g[d] > 0
  OBVIOUS

LEMMA LessAt ==
  ASSUME NEW Dom, NEW g \in [Dom -> Nat], NEW c \in Dom, g[c] > 0
  PROVE  /\ [g EXCEPT ![c] = @ - 1] \in [Dom -> Nat]
         /\ \A d \in Dom : [g EXCEPT ![c] = @ - 1][d] > 0 => g[d] > 0
  OBVIOUS

LEMMA OneMore ==
  ASSUME SkipTypes, FoundPresent, url \in C!Urls
  PROVE  /\ C!CheckCurrentShort \in [C!Urls \X BOOLEAN -> Nat]
         /\ \A s \in C!Urls : C!CheckCurrentShort[s, TRUE] > 0 => s \in present
  <1>1. CASE url \notin skipped
    <2> DEFINE c == <<url, C!RendererFound>>
               more == [skips EXCEPT ![c] = @ + 1]
    <2>1. C!RendererFound = TRUE \/ C!RendererFound = FALSE
      <3>1. CASE url \in present
        BY <3>1 DEF C!RendererFound
      <3>2. CASE url \notin present
        BY <3>2 DEF C!RendererFound
      <3>. QED
        BY <3>1, <3>2
    <2>2. c \in C!Urls \X BOOLEAN
      BY <1>1, <2>1
    <2>3. C!CheckCurrentShort = more
      BY <1>1, Zenon DEF C!CheckCurrentShort
    <2>4. /\ more \in [C!Urls \X BOOLEAN -> Nat]
          /\ \A d \in C!Urls \X BOOLEAN : more[d] > 0 => d = c \/ skips[d] > 0
      <3>. HIDE DEF c
      <3>. QED
        BY <2>2, MoreAt, Zenon DEF SkipTypes
    <2>5. ASSUME NEW s \in C!Urls, more[s, TRUE] > 0 PROVE s \in present
      <3>. HIDE DEF more
      <3>1. <<s, TRUE>> \in C!Urls \X BOOLEAN
        OBVIOUS
      <3>2. CASE <<s, TRUE>> = c
        <4>1. s = url /\ C!RendererFound = TRUE
          BY <3>2
        <4>. QED
          BY <4>1, Zenon DEF C!RendererFound
      <3>3. CASE skips[<<s, TRUE>>] > 0
        BY <3>3 DEF FoundPresent
      <3>. QED
        BY <2>4, <2>5, <3>1, <3>2, <3>3, Zenon
    <2>. HIDE DEF more
    <2>. QED
      BY <2>3, <2>4, <2>5
  <1>2. CASE url \in skipped
    BY <1>2 DEF C!CheckCurrentShort, SkipTypes, FoundPresent
  <1>. QED
    BY <1>1, <1>2

LEMMA OneLess ==
  ASSUME SkipTypes, FoundPresent, NEW s \in C!Urls, NEW f \in BOOLEAN, skips[s, f] > 0,
         skips' = [skips EXCEPT ![<<s, f>>] = @ - 1], present' = present
  PROVE  (SkipTypes /\ FoundPresent)'
  <1> DEFINE c == <<s, f>>
  <1>1. c \in C!Urls \X BOOLEAN /\ skips[c] > 0
    OBVIOUS
  <1>2. skips' = [skips EXCEPT ![c] = @ - 1]
    OBVIOUS
  <1>3. \A t \in C!Urls : <<t, TRUE>> \in C!Urls \X BOOLEAN
    OBVIOUS
  <1>. HIDE DEF c
  <1>4. /\ [skips EXCEPT ![c] = @ - 1] \in [C!Urls \X BOOLEAN -> Nat]
        /\ \A d \in C!Urls \X BOOLEAN : [skips EXCEPT ![c] = @ - 1][d] > 0 => skips[d] > 0
    BY <1>1, LessAt, Zenon DEF SkipTypes
  <1>5. SkipTypes' /\ \A d \in C!Urls \X BOOLEAN : skips'[d] > 0 => skips[d] > 0
    BY <1>2, <1>4, Zenon DEF SkipTypes
  <1>6. \A t \in C!Urls : skips'[<<t, TRUE>>] > 0 => skips[<<t, TRUE>>] > 0
    BY <1>3, <1>5, Zenon
  <1>. QED
    BY <1>5, <1>6, Zenon DEF FoundPresent

LEMMA NextScript ==
  ASSUME ContentAssumptions, ContentInv, [C!Next]_C!vars
  PROVE  ScriptTypes'
  <1>. USE DEF ContentInv, ScriptTypes
  <1>. USE DEF C!settings, C!page, C!marks, C!watch, C!delayed, C!checks, C!history, C!count
  <1>1. CASE UNCHANGED C!vars
    BY <1>1 DEF C!vars
  <1>2. CASE C!StartTimer
    BY <1>2 DEF C!StartTimer
  <1>3. CASE C!PollUrl
    BY <1>3 DEF C!PollUrl
  <1>4. CASE C!Scan
    BY <1>4 DEF C!Scan
  <1>5. CASE C!DebounceTimer
    BY <1>5 DEF C!DebounceTimer
  <1>6. ASSUME NEW s \in C!Urls, NEW f \in BOOLEAN, C!SkipAnswered(s, f) PROVE ScriptTypes'
    BY <1>6 DEF C!SkipAnswered
  <1>7. ASSUME NEW i \in C!Items, C!HideAnswered(i) PROVE ScriptTypes'
    BY <1>7 DEF C!HideAnswered
  <1>8. ASSUME NEW s \in C!Urls, NEW f \in BOOLEAN, C!SkipCheckFails(s, f) PROVE ScriptTypes'
    BY <1>8 DEF C!SkipCheckFails
  <1>9. ASSUME NEW i \in C!Items, C!HideCheckFails(i) PROVE ScriptTypes'
    BY <1>9 DEF C!HideCheckFails
  <1>10. ASSUME NEW new \in SUBSET C!Items, C!Mutation(new) PROVE ScriptTypes'
    BY <1>10 DEF C!Mutation
  <1>11. ASSUME NEW to \in C!Urls, C!Navigate(to) PROVE ScriptTypes'
    BY <1>11 DEF C!Navigate
  <1>12. CASE C!OnNavigate
    BY <1>12 DEF C!OnNavigate
  <1>13. CASE C!EventUnheard
    BY <1>13 DEF C!EventUnheard
  <1>14. CASE C!ReadEnabled
    BY <1>14 DEF C!ReadEnabled
  <1>15. CASE C!ReadFilter
    BY <1>15 DEF C!ReadFilter, C!Observe
  <1>16. ASSUME NEW setting \in {"enabled", "filter"}, C!Toggle(setting) PROVE ScriptTypes'
    BY <1>16 DEF C!Toggle, C!EnabledChanged, C!FilterChanged, C!Observe, C!StartShortsMode,
                 C!StopShortsMode, C!AskedByStart
  <1>. QED
    BY <1>1, <1>2, <1>3, <1>4, <1>5, <1>6, <1>7, <1>8, <1>9, <1>10, <1>11, <1>12, <1>13, <1>14,
       <1>15, <1>16, ContentCases

(* An event that comes between shorts is one more than were due. *)
LEMMA BetweenKnown ==
  ASSUME ContentAssumptions, PageTypes, NEW n \in C!BetweenShorts
  PROVE  n \in Events \cup {0, 1} /\ (n = 0 => due = 0)
  BY DEF ContentAssumptions, C!EventsAssumption, PageTypes, C!BetweenShorts

LEMMA NextPage ==
  ASSUME ContentAssumptions, ContentInv, [C!Next]_C!vars
  PROVE  (PageTypes /\ PageKnown)'
  <1>. USE DEF ContentInv, ContentAssumptions, PageTypes, PageKnown, ElementTypes, C!Urls, C!Type
  <1>. USE DEF C!settings, C!page, C!marks, C!watch, C!delayed, C!checks, C!history, C!count
  <1>1. CASE UNCHANGED C!vars
    BY <1>1 DEF C!vars
  <1>2. CASE C!StartTimer
    BY <1>2 DEF C!StartTimer, C!StartShortsMode, C!CheckCurrentShort
  <1>3. CASE C!PollUrl
    BY <1>3 DEF C!PollUrl
  <1>4. CASE C!Scan
    BY <1>4 DEF C!Scan
  <1>5. CASE C!DebounceTimer
    BY <1>5 DEF C!DebounceTimer
  <1>6. ASSUME NEW s \in C!Urls, NEW f \in BOOLEAN, C!SkipAnswered(s, f)
        PROVE  (PageTypes /\ PageKnown)'
    <2>1. UNCHANGED <<script, pageType, lastUrl>>
      BY <1>6 DEF C!SkipAnswered
    <2>2. unskipped' \subseteq C!FlaggedShorts
      BY <1>6 DEF C!SkipAnswered, C!Back, C!FlaggedShorts
    <2>3. CASE UNCHANGED <<url, due>>
      BY <2>1, <2>2, <2>3
    <2>4. CASE {url, url'} \subseteq Shorts /\ due' \in C!BetweenShorts
      BY <2>1, <2>2, <2>4, BetweenKnown
    <2>5. UNCHANGED <<url, due>> \/ C!SkipToNextShort
      BY <1>6, Zenon DEF C!SkipAnswered
    <2>. QED
      BY <2>3, <2>4, <2>5 DEF C!SkipToNextShort, C!BetweenShorts
  <1>7. ASSUME NEW i \in C!Items, C!HideAnswered(i) PROVE (PageTypes /\ PageKnown)'
    BY <1>7 DEF C!HideAnswered
  <1>8. ASSUME NEW s \in C!Urls, NEW f \in BOOLEAN, C!SkipCheckFails(s, f)
        PROVE  (PageTypes /\ PageKnown)'
    BY <1>8 DEF C!SkipCheckFails, C!Fault, C!FlaggedShorts
  <1>9. ASSUME NEW i \in C!Items, C!HideCheckFails(i) PROVE (PageTypes /\ PageKnown)'
    BY <1>9 DEF C!HideCheckFails, C!Fault
  <1>10. ASSUME NEW new \in SUBSET C!Items, C!Mutation(new) PROVE (PageTypes /\ PageKnown)'
    BY <1>10 DEF C!Mutation
  <1>11. ASSUME NEW to \in C!Urls, C!Navigate(to) PROVE (PageTypes /\ PageKnown)'
    <2>1. /\ url' = to /\ due' \in IF {url, to} \subseteq Shorts THEN C!BetweenShorts ELSE Events
          /\ UNCHANGED <<script, pageType, lastUrl>>
      BY <1>11, Zenon DEF C!Navigate
    <2>2. unskipped' \subseteq C!FlaggedShorts
      BY <1>11 DEF C!Navigate, C!Back, C!FlaggedShorts
    <2>3. CASE {url, to} \subseteq Shorts
      BY <2>1, <2>2, <2>3, BetweenKnown
    <2>4. CASE due' \in Events
      BY <2>1, <2>2, <2>4 DEF C!EventsAssumption
    <2>. QED
      BY <2>1, <2>3, <2>4
  <1>12. CASE C!OnNavigate
    BY <1>12 DEF C!OnNavigate, C!StopShortsMode, C!EventsAssumption
  <1>13. CASE C!EventUnheard
    BY <1>13 DEF C!EventUnheard, C!EventsAssumption
  <1>14. CASE C!ReadEnabled
    BY <1>14 DEF C!ReadEnabled
  <1>15. CASE C!ReadFilter
    BY <1>15 DEF C!ReadFilter
  <1>16. ASSUME NEW setting \in {"enabled", "filter"}, C!Toggle(setting)
         PROVE  (PageTypes /\ PageKnown)'
    BY <1>16 DEF C!Toggle, C!EnabledChanged, C!FilterChanged, C!Observe, C!StartShortsMode,
                 C!StopShortsMode, C!AskedByStart
  <1>. QED
    BY <1>1, <1>2, <1>3, <1>4, <1>5, <1>6, <1>7, <1>8, <1>9, <1>10, <1>11, <1>12, <1>13, <1>14,
       <1>15, <1>16, ContentCases

LEMMA NextCounts ==
  ASSUME ContentAssumptions, ContentInv, [C!Next]_C!vars
  PROVE  CountTypes'
  <1>. USE ContentBounds DEF ContentInv, CountTypes
  <1>. USE DEF C!settings, C!page, C!marks, C!watch, C!delayed, C!checks, C!history, C!count
  <1>1. CASE UNCHANGED C!vars
    BY <1>1 DEF C!vars
  <1>2. CASE C!StartTimer
    BY <1>2 DEF C!StartTimer
  <1>3. CASE C!PollUrl
    BY <1>3 DEF C!PollUrl
  <1>4. CASE C!Scan
    BY <1>4 DEF C!Scan
  <1>5. CASE C!DebounceTimer
    BY <1>5 DEF C!DebounceTimer
  <1>6. ASSUME NEW s \in C!Urls, NEW f \in BOOLEAN, C!SkipAnswered(s, f) PROVE CountTypes'
    <2>1. /\ toggles' = toggles /\ faults' = faults
          /\ \/ navigations' = navigations
             \/ navigations < MaxNavigations /\ navigations' = navigations + 1
      BY <1>6, Zenon DEF C!SkipAnswered, C!SkipToNextShort
    <2>. QED
      BY <2>1
  <1>7. ASSUME NEW i \in C!Items, C!HideAnswered(i) PROVE CountTypes'
    BY <1>7 DEF C!HideAnswered
  <1>8. ASSUME NEW s \in C!Urls, NEW f \in BOOLEAN, C!SkipCheckFails(s, f) PROVE CountTypes'
    <2>1. /\ faults < MaxFaults /\ faults' = faults + 1
          /\ navigations' = navigations /\ toggles' = toggles
      BY <1>8, Zenon DEF C!SkipCheckFails, C!Fault
    <2>. QED
      BY <2>1
  <1>9. ASSUME NEW i \in C!Items, C!HideCheckFails(i) PROVE CountTypes'
    BY <1>9 DEF C!HideCheckFails, C!Fault
  <1>10. ASSUME NEW new \in SUBSET C!Items, C!Mutation(new) PROVE CountTypes'
    BY <1>10 DEF C!Mutation
  <1>11. ASSUME NEW to \in C!Urls, C!Navigate(to) PROVE CountTypes'
    <2>1. /\ navigations < MaxNavigations /\ navigations' = navigations + 1
          /\ toggles' = toggles /\ faults' = faults
      BY <1>11, Zenon DEF C!Navigate
    <2>. QED
      BY <2>1
  <1>12. CASE C!OnNavigate
    BY <1>12 DEF C!OnNavigate
  <1>13. CASE C!EventUnheard
    BY <1>13 DEF C!EventUnheard
  <1>14. CASE C!ReadEnabled
    BY <1>14 DEF C!ReadEnabled
  <1>15. CASE C!ReadFilter
    BY <1>15 DEF C!ReadFilter
  <1>16. ASSUME NEW setting \in {"enabled", "filter"}, C!Toggle(setting) PROVE CountTypes'
    BY <1>16 DEF C!Toggle
  <1>. QED
    BY <1>1, <1>2, <1>3, <1>4, <1>5, <1>6, <1>7, <1>8, <1>9, <1>10, <1>11, <1>12, <1>13, <1>14,
       <1>15, <1>16, ContentCases

LEMMA NextElements ==
  ASSUME ContentAssumptions, ContentInv, [C!Next]_C!vars
  PROVE  ElementTypes'
  <1>. USE DEF ContentInv, ContentAssumptions, PageTypes, ElementTypes, C!Urls, C!Items,
               C!ItemsAssumption
  <1>. USE DEF C!settings, C!page, C!marks, C!watch, C!delayed, C!checks, C!history, C!count
  <1>1. CASE UNCHANGED C!vars
    BY <1>1 DEF C!vars
  <1>2. CASE C!StartTimer
    BY <1>2 DEF C!StartTimer, C!AskedByStart
  <1>3. CASE C!PollUrl
    BY <1>3 DEF C!PollUrl
  <1>4. CASE C!Scan
    BY <1>4 DEF C!Scan, C!Matched
  <1>5. CASE C!DebounceTimer
    BY <1>5 DEF C!DebounceTimer, C!Matched
  <1>6. ASSUME NEW s \in C!Urls, NEW f \in BOOLEAN, C!SkipAnswered(s, f) PROVE ElementTypes'
    BY <1>6 DEF C!SkipAnswered, C!SkipToNextShort, FoundPresent
  <1>7. ASSUME NEW i \in C!Items, C!HideAnswered(i) PROVE ElementTypes'
    BY <1>7 DEF C!HideAnswered
  <1>8. ASSUME NEW s \in C!Urls, NEW f \in BOOLEAN, C!SkipCheckFails(s, f) PROVE ElementTypes'
    BY <1>8 DEF C!SkipCheckFails
  <1>9. ASSUME NEW i \in C!Items, C!HideCheckFails(i) PROVE ElementTypes'
    BY <1>9 DEF C!HideCheckFails
  <1>10. ASSUME NEW new \in SUBSET C!Items, C!Mutation(new) PROVE ElementTypes'
    BY <1>10 DEF C!Mutation, C!NewShorts
  <1>11. ASSUME NEW to \in C!Urls, C!Navigate(to) PROVE ElementTypes'
    BY <1>11 DEF C!Navigate
  <1>12. CASE C!OnNavigate
    BY <1>12 DEF C!OnNavigate
  <1>13. CASE C!EventUnheard
    BY <1>13 DEF C!EventUnheard
  <1>14. CASE C!ReadEnabled
    BY <1>14 DEF C!ReadEnabled
  <1>15. CASE C!ReadFilter
    BY <1>15 DEF C!ReadFilter
  <1>16. ASSUME NEW setting \in {"enabled", "filter"}, C!Toggle(setting) PROVE ElementTypes'
    BY <1>16 DEF C!Toggle, C!EnabledChanged, C!FilterChanged, C!Observe, C!StartShortsMode,
                 C!StopShortsMode, C!AskedByStart, C!Matched
  <1>. QED
    BY <1>1, <1>2, <1>3, <1>4, <1>5, <1>6, <1>7, <1>8, <1>9, <1>10, <1>11, <1>12, <1>13, <1>14,
       <1>15, <1>16, ContentCases

(* Shorts mode keeps its two variables in step, whatever calls it. *)
LEMMA WatchChanges ==
  ASSUME shortsMode \in BOOLEAN, C!WatchersKnown,
         UNCHANGED <<shortsMode, watchers>> \/ C!StartShortsMode \/ C!StopShortsMode
  PROVE  shortsMode' \in BOOLEAN /\ watchers' \in Nat /\ C!WatchersKnown'
  <1>1. CASE UNCHANGED <<shortsMode, watchers>>
    BY <1>1 DEF C!WatchersKnown
  <1>2. CASE C!StartShortsMode
    <2>1. shortsMode' = TRUE /\ watchers' = (IF shortsMode THEN watchers - 1 ELSE watchers) + 1
      BY <1>2, Zenon DEF C!StartShortsMode
    <2>. QED
      BY <2>1 DEF C!WatchersKnown
  <1>3. CASE C!StopShortsMode
    <2>1. ~shortsMode' /\ shortsMode' \in BOOLEAN /\ (shortsMode => watchers' = watchers - 1)
      BY <1>3, Zenon DEF C!StopShortsMode
    <2>2. ~shortsMode => watchers' = watchers
      BY <1>3, Zenon DEF C!StopShortsMode
    <2>3. watchers' = 0
      BY <2>1, <2>2 DEF C!WatchersKnown
    <2>. QED
      BY <2>1, <2>3 DEF C!WatchersKnown
  <1>. QED
    BY <1>1, <1>2, <1>3

LEMMA NextTimers ==
  ASSUME ContentAssumptions, ContentInv, [C!Next]_C!vars
  PROVE  (TimerTypes /\ C!WatchersKnown)'
  <1>. USE DEF ContentInv, TimerTypes, C!WatchersKnown
  <1>. USE DEF C!settings, C!page, C!marks, C!watch, C!delayed, C!checks, C!history, C!count
  <1>1. CASE UNCHANGED C!vars
    BY <1>1 DEF C!vars
  <1>2. CASE C!StartTimer
    BY <1>2 DEF C!StartTimer, C!StartShortsMode
  <1>3. CASE C!PollUrl
    BY <1>3 DEF C!PollUrl
  <1>4. CASE C!Scan
    BY <1>4 DEF C!Scan
  <1>5. CASE C!DebounceTimer
    BY <1>5 DEF C!DebounceTimer
  <1>6. ASSUME NEW s \in C!Urls, NEW f \in BOOLEAN, C!SkipAnswered(s, f)
        PROVE  (TimerTypes /\ C!WatchersKnown)'
    BY <1>6 DEF C!SkipAnswered
  <1>7. ASSUME NEW i \in C!Items, C!HideAnswered(i) PROVE (TimerTypes /\ C!WatchersKnown)'
    BY <1>7 DEF C!HideAnswered
  <1>8. ASSUME NEW s \in C!Urls, NEW f \in BOOLEAN, C!SkipCheckFails(s, f)
        PROVE  (TimerTypes /\ C!WatchersKnown)'
    BY <1>8 DEF C!SkipCheckFails
  <1>9. ASSUME NEW i \in C!Items, C!HideCheckFails(i) PROVE (TimerTypes /\ C!WatchersKnown)'
    BY <1>9 DEF C!HideCheckFails
  <1>10. ASSUME NEW new \in SUBSET C!Items, C!Mutation(new) PROVE (TimerTypes /\ C!WatchersKnown)'
    BY <1>10 DEF C!Mutation
  <1>11. ASSUME NEW to \in C!Urls, C!Navigate(to) PROVE (TimerTypes /\ C!WatchersKnown)'
    BY <1>11 DEF C!Navigate
  <1>12. CASE C!OnNavigate
    <2>1. scans' = scans + 1 /\ starts' \in {starts, starts + 1}
      BY <1>12 DEF C!OnNavigate
    <2>2. UNCHANGED <<shortsMode, watchers>> \/ C!StopShortsMode
      BY <1>12 DEF C!OnNavigate
    <2>. QED
      BY <2>1, <2>2, WatchChanges
  <1>13. CASE C!EventUnheard
    BY <1>13 DEF C!EventUnheard
  <1>14. CASE C!ReadEnabled
    BY <1>14 DEF C!ReadEnabled
  <1>15. CASE C!ReadFilter
    BY <1>15 DEF C!ReadFilter
  <1>16. ASSUME NEW setting \in {"enabled", "filter"}, C!Toggle(setting)
         PROVE (TimerTypes /\ C!WatchersKnown)'
    <2>1. UNCHANGED <<shortsMode, watchers>> \/ C!StartShortsMode \/ C!StopShortsMode
      BY <1>16 DEF C!Toggle, C!EnabledChanged, C!FilterChanged
    <2>2. UNCHANGED <<starts, scans>>
      BY <1>16 DEF C!Toggle
    <2>. QED
      BY <2>1, <2>2, WatchChanges
  <1>. QED
    BY <1>1, <1>2, <1>3, <1>4, <1>5, <1>6, <1>7, <1>8, <1>9, <1>10, <1>11, <1>12, <1>13, <1>14,
       <1>15, <1>16, ContentCases

LEMMA NextSkips ==
  ASSUME ContentAssumptions, ContentInv, [C!Next]_C!vars
  PROVE  (SkipTypes /\ FoundPresent)'
  <1>. USE DEF ContentInv, SkipTypes, FoundPresent
  <1>. USE DEF C!settings, C!page, C!marks, C!watch, C!delayed, C!checks, C!history, C!count
  <1>0. url \in C!Urls
    BY DEF PageTypes
  <1>1. CASE UNCHANGED C!vars
    BY <1>1 DEF C!vars
  <1>2. CASE C!StartTimer
    BY <1>0, <1>2, OneMore DEF C!StartTimer, C!StartShortsMode, C!page
  <1>3. CASE C!PollUrl
    BY <1>0, <1>3, OneMore DEF C!PollUrl, C!page
  <1>4. CASE C!Scan
    BY <1>4 DEF C!Scan
  <1>5. CASE C!DebounceTimer
    BY <1>5 DEF C!DebounceTimer
  <1>6. ASSUME NEW s \in C!Urls, NEW f \in BOOLEAN, C!SkipAnswered(s, f)
        PROVE  (SkipTypes /\ FoundPresent)'
    BY <1>6, OneLess DEF C!SkipAnswered
  <1>7. ASSUME NEW i \in C!Items, C!HideAnswered(i) PROVE (SkipTypes /\ FoundPresent)'
    BY <1>7 DEF C!HideAnswered
  <1>8. ASSUME NEW s \in C!Urls, NEW f \in BOOLEAN, C!SkipCheckFails(s, f)
        PROVE  (SkipTypes /\ FoundPresent)'
    BY <1>8, OneLess DEF C!SkipCheckFails, C!page
  <1>9. ASSUME NEW i \in C!Items, C!HideCheckFails(i) PROVE (SkipTypes /\ FoundPresent)'
    BY <1>9 DEF C!HideCheckFails
  <1>10. ASSUME NEW new \in SUBSET C!Items, C!Mutation(new) PROVE (SkipTypes /\ FoundPresent)'
    BY <1>10 DEF C!Mutation
  <1>11. ASSUME NEW to \in C!Urls, C!Navigate(to) PROVE (SkipTypes /\ FoundPresent)'
    <2>1. CASE {url, to} \subseteq Shorts
      BY <1>11, <2>1 DEF C!Navigate
    <2>2. CASE ~ {url, to} \subseteq Shorts
      <3>1. skips' = [c \in C!Urls \X BOOLEAN |->
                       IF c[2] THEN 0 ELSE skips[c[1], TRUE] + skips[c[1], FALSE]]
        BY <1>11, <2>2, Zenon DEF C!Navigate
      <3>2. \A c \in C!Urls \X BOOLEAN :
               (IF c[2] THEN 0 ELSE skips[c[1], TRUE] + skips[c[1], FALSE]) \in Nat
        <4>1. ASSUME NEW c \in C!Urls \X BOOLEAN
              PROVE  skips[c[1], TRUE] + skips[c[1], FALSE] \in Nat
          <5>1. <<c[1], TRUE>> \in C!Urls \X BOOLEAN /\ <<c[1], FALSE>> \in C!Urls \X BOOLEAN
            BY <4>1
          <5>2. skips[<<c[1], TRUE>>] \in Nat /\ skips[<<c[1], FALSE>>] \in Nat
            BY <5>1, Zenon
          <5>. QED
            BY <5>2, Arithmetic, Zenon
        <4>. QED
          BY <4>1
      <3>3. \A s \in C!Urls : <<s, TRUE>> \in C!Urls \X BOOLEAN /\ <<s, TRUE>>[2] = TRUE
        OBVIOUS
      <3>4. \A s \in C!Urls : skips'[<<s, TRUE>>] = 0
        BY <3>1, <3>3
      <3>. QED
        <4>1. SkipTypes'
          BY <3>1, <3>2, Zenon
        <4>2. FoundPresent'
          BY <3>4, Arithmetic, Zenon
        <4>. QED
          BY <4>1, <4>2
    <2>. QED
      BY <2>1, <2>2
  <1>12. CASE C!OnNavigate
    BY <1>12 DEF C!OnNavigate
  <1>13. CASE C!EventUnheard
    BY <1>13 DEF C!EventUnheard
  <1>14. CASE C!ReadEnabled
    BY <1>14 DEF C!ReadEnabled
  <1>15. CASE C!ReadFilter
    BY <1>15 DEF C!ReadFilter
  <1>16. ASSUME NEW setting \in {"enabled", "filter"}, C!Toggle(setting)
         PROVE  (SkipTypes /\ FoundPresent)'
    BY <1>0, <1>16, OneMore DEF C!Toggle, C!page, C!checks, C!EnabledChanged, C!FilterChanged,
                          C!Observe, C!StartShortsMode, C!StopShortsMode, C!AskedByStart
  <1>. QED
    BY <1>1, <1>2, <1>3, <1>4, <1>5, <1>6, <1>7, <1>8, <1>9, <1>10, <1>11, <1>12, <1>13, <1>14,
       <1>15, <1>16, ContentCases

(* Without an event to come, the selectors match whatever is on the page. *)
LEMMA MatchedAll ==
  ASSUME ContentAssumptions, PageTypes, ElementTypes, PageKnown, script = "on"
  PROVE  due > 0 \/ present \subseteq C!Matched(present)
  <1>1. due = 0 \/ due > 0
    BY DueNat
  <1>2. ASSUME due = 0, NEW i \in present PROVE i \in C!Matched(present)
    <2>1. CASE url = Home
      BY <1>2, <2>1 DEF ContentAssumptions, C!ItemsAssumption, C!Items, ElementTypes, PageKnown,
                        C!Type, C!Matched
    <2>2. CASE url # Home
      BY <1>2, <2>2 DEF ContentAssumptions, C!ItemsAssumption, C!Items, ElementTypes, PageKnown,
                        PageTypes, C!Urls, C!Type, C!Matched
    <2>. QED
      BY <2>1, <2>2
  <1>. QED
    BY <1>1, <1>2

LEMMA BetweenDue ==
  ASSUME ContentAssumptions, PageTypes, NEW n \in C!BetweenShorts PROVE due > 0 => n > 0
  BY DEF ContentAssumptions, C!EventsAssumption, PageTypes, C!BetweenShorts

LEMMA NextAccounted ==
  ASSUME ContentAssumptions, ContentInv, [C!Next]_C!vars
  PROVE  C!FlaggedAccounted'
  <1>. USE DEF ContentInv, C!FlaggedAccounted, ScriptTypes, ElementTypes, TimerTypes, PageTypes,
               PageKnown
  <1>. USE DEF C!settings, C!page, C!marks, C!watch, C!delayed, C!checks, C!history, C!count
  <1>1. CASE UNCHANGED C!vars
    BY <1>1 DEF C!vars
  <1>2. CASE C!StartTimer
    BY <1>2 DEF C!StartTimer
  <1>3. CASE C!PollUrl
    BY <1>3 DEF C!PollUrl
  <1>4. CASE C!Scan
    <2>3. due \in Nat
      BY DueNat
    <2>4. /\ enabled => /\ asked' = asked \cup C!Matched(present)
                        /\ missed' = missed \ C!Matched(present)
          /\ UNCHANGED <<script, enabled, present, due, hidden, batch>>
      BY <1>4, Zenon DEF C!Scan
    <2>. QED
      BY <2>3, <2>4, MatchedAll
  <1>5. CASE C!DebounceTimer
    BY <1>5 DEF C!DebounceTimer, C!Matched
  <1>6. ASSUME NEW s \in C!Urls, NEW f \in BOOLEAN, C!SkipAnswered(s, f) PROVE C!FlaggedAccounted'
    <2>1. /\ UNCHANGED <<script, enabled, present, scans, hidden, batch, asked, missed>>
          /\ UNCHANGED due \/ C!SkipToNextShort
      BY <1>6 DEF C!SkipAnswered
    <2>. QED
      BY <2>1, BetweenDue DEF C!SkipToNextShort
  <1>7. ASSUME NEW i \in C!Items, C!HideAnswered(i) PROVE C!FlaggedAccounted'
    BY <1>7 DEF C!HideAnswered
  <1>8. ASSUME NEW s \in C!Urls, NEW f \in BOOLEAN, C!SkipCheckFails(s, f)
        PROVE  C!FlaggedAccounted'
    BY <1>8 DEF C!SkipCheckFails
  <1>9. ASSUME NEW i \in C!Items, C!HideCheckFails(i) PROVE C!FlaggedAccounted'
    BY <1>9 DEF C!HideCheckFails
  <1>10. ASSUME NEW new \in SUBSET C!Items, C!Mutation(new) PROVE C!FlaggedAccounted'
    BY <1>10 DEF C!Mutation
  <1>11. ASSUME NEW to \in C!Urls, C!Navigate(to) PROVE C!FlaggedAccounted'
    <2>1. CASE {url, to} \subseteq Shorts
      <3>1. /\ UNCHANGED <<script, enabled, present, scans, hidden, batch, asked, missed>>
            /\ due' \in C!BetweenShorts
        BY <1>11, <2>1 DEF C!Navigate
      <3>. QED
        BY <3>1, BetweenDue
    <2>2. CASE ~ {url, to} \subseteq Shorts
      BY <1>11, <2>2 DEF C!Navigate
    <2>. QED
      BY <2>1, <2>2
  <1>12. CASE C!OnNavigate
    BY <1>12 DEF C!OnNavigate
  <1>13. CASE C!EventUnheard
    BY <1>13 DEF C!EventUnheard
  <1>14. CASE C!ReadEnabled
    BY <1>14 DEF C!ReadEnabled
  <1>15. CASE C!ReadFilter
    <2>1. scans' = 1
      BY <1>15, Zenon DEF C!ReadFilter
    <2>. QED
      BY <2>1, Arithmetic, Zenon
  <1>16. ASSUME NEW setting \in {"enabled", "filter"}, C!Toggle(setting) PROVE C!FlaggedAccounted'
    <2>1. /\ UNCHANGED <<script, present, due, hidden, batch, scans>>
          /\ \/ UNCHANGED <<enabled, missed>> /\ asked \subseteq asked'
             \/ ~enabled'
             \/ /\ script = "on" /\ missed' = missed \ C!Matched(present)
                /\ asked \cup C!Matched(present) \subseteq asked'
      BY <1>16 DEF C!Toggle, C!EnabledChanged, C!FilterChanged
    <2>. QED
      BY <2>1, MatchedAll
  <1>. QED
    BY <1>1, <1>2, <1>3, <1>4, <1>5, <1>6, <1>7, <1>8, <1>9, <1>10, <1>11, <1>12, <1>13, <1>14,
       <1>15, <1>16, ContentCases

(* The invariant holds in every state of the content script. *)
THEOREM ContentInvariance ==
  ASSUME ContentAssumptions PROVE C!Spec => []ContentInv
  <1>1. C!Init => ContentInv
    BY InitContent
  <1>2. ContentInv /\ [C!Next]_C!vars => ContentInv'
    BY NextScript, NextPage, NextCounts, NextElements, NextTimers, NextSkips, NextAccounted
       DEF ContentInv
  <1>. QED
    BY <1>1, <1>2, PTL DEF C!Spec

(* Types of all the script's variables; a mark is on a flagged video of the page. *)
THEOREM ContentTypeCorrect ==
  ASSUME ContentAssumptions PROVE C!Spec => []C!TypeOK
  <1>1. ASSUME ContentInv PROVE C!TypeOK
    BY <1>1 DEF ContentInv, ScriptTypes, PageTypes, CountTypes, ElementTypes, TimerTypes,
                SkipTypes, C!TypeOK
  <1>. QED
    BY <1>1, ContentInvariance, PTL

(***************************************************************************)
(* stopShortsMode can always stop what startShortsMode has started: no     *)
(* observer or interval is left behind by delayed starts, navigation and   *)
(* settings in any order.                                                  *)
(***************************************************************************)
THEOREM WatchersAreKnown ==
  ASSUME ContentAssumptions PROVE C!Spec => []C!WatchersKnown
  <1>1. ContentInv => C!WatchersKnown
    BY DEF ContentInv
  <1>. QED
    BY <1>1, ContentInvariance, PTL

(***************************************************************************)
(* While the extension is enabled no flagged video on the page is out of   *)
(* sight of scanVisibleVideos, the debounce or a check, but for the known  *)
(* ways of missing one, for any number of videos and settings changed.     *)
(***************************************************************************)
THEOREM FlaggedAreAccounted ==
  ASSUME ContentAssumptions PROVE C!Spec => []C!FlaggedAccounted
  <1>1. ContentInv => C!FlaggedAccounted
    BY DEF ContentInv
  <1>. QED
    BY <1>1, ContentInvariance, PTL
=============================================================================
