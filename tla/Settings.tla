------------------------------ MODULE Settings ------------------------------
(***************************************************************************)
(* The settings in chrome.storage.sync and who writes and follows them:    *)
(* the switch of the popup, the options page with its delayed save, and    *)
(* the background's cached server URL.                                     *)
(*                                                                         *)
(* popup.tsx, options.tsx and getConfig of api-client.ts; the content      *)
(* script, which follows the storage too, is in ContentScript.  Of the     *)
(* settings only `enabled`, which both pages write, and `serverUrl`, which *)
(* the background keeps, are told apart: the options page treats the       *)
(* others as it treats serverUrl.                                          *)
(***************************************************************************)
EXTENDS Naturals, FiniteSets

CONSTANTS Urls,        \* what the user types as the server URL
          Rejected,    \* those that are neither https nor on localhost
          Default,     \* DEFAULT_BASE_URL, and the setting when it is empty
          None,
          Requests,    \* calls of getConfig in flight at once
          MaxChoices,  \* bound on changes by the user
          MaxFaults    \* bound on ends of the worker and failed loads

Keys == {"enabled", "serverUrl"}
Bases == (Urls \ Rejected) \cup {Default}

ASSUME UrlsAssumption == Rejected \subseteq Urls /\ Default \notin Urls
ASSUME NoneAssumption == None \notin Urls \cup {Default}
ASSUME BoundsAssumption == MaxChoices \in Nat /\ MaxFaults \in Nat

Values(key) == IF key = "enabled" THEN BOOLEAN ELSE Urls \cup {Default}
Setting == [enabled : BOOLEAN, serverUrl : Urls \cup {Default}]

VARIABLES stored,        \* chrome.storage.sync
          popup,         \* "closed", "loading" or "open"
          popupEnabled,  \* enabled of the popup
          options,       \* "closed", "loading" or "open"
          settings,      \* settings of the options page
          saveTimer, toastTimer,  \* set; the toast is visible with toastTimer
          changed,       \* an onChanged event for serverUrl is on its way
          cachedBaseUrl,
          reading,       \* reading[r]: what a getConfig has read; old: an
                         \* onChanged came meanwhile
          chosen,        \* history: what the user last chose
          edited,        \* history: keys edited since the page last saved
          behind,        \* history: the popup toggled after the page loaded
          overwritten,   \* history: a save wrote an `enabled` read before a toggle
          abandoned,     \* history: keys whose edit was closed with the page
          outrun,        \* history: a getConfig stored what an event had ended
          choices, faults  \* so far

pages   == <<popup, popupEnabled, options, settings, saveTimer, toastTimer>>
base    == <<changed, cachedBaseUrl, reading, outrun>>
history == <<chosen, edited, behind, overwritten, abandoned>>
vars    == <<stored, pages, base, history, choices, faults>>

NoRead == [url |-> None, old |-> FALSE]

TypeOK ==
  /\ stored \in Setting /\ chosen \in Setting /\ settings \in Setting
  /\ popup \in {"closed", "loading", "open"} /\ popupEnabled \in BOOLEAN
  /\ options \in {"closed", "loading", "open"}
  /\ saveTimer \in BOOLEAN /\ toastTimer \in BOOLEAN /\ changed \in BOOLEAN
  /\ behind \in BOOLEAN /\ overwritten \in BOOLEAN /\ outrun \in BOOLEAN
  /\ saveTimer \/ toastTimer => options = "open"
  /\ cachedBaseUrl \in Bases \cup {None}
  /\ reading \in [Requests -> [url : Bases \cup {None}, old : BOOLEAN]]
  /\ edited \subseteq Keys /\ abandoned \subseteq Keys
  /\ choices \in 0..MaxChoices /\ faults \in 0..MaxFaults

DEFAULT_SETTINGS == [enabled |-> TRUE, serverUrl |-> Default]

Init ==
  /\ stored \in Setting /\ chosen = stored
  /\ popup = "closed" /\ popupEnabled = TRUE
  /\ options = "closed" /\ settings = DEFAULT_SETTINGS
  /\ saveTimer = FALSE /\ toastTimer = FALSE
  /\ changed = FALSE /\ cachedBaseUrl = None
  /\ reading = [r \in Requests |-> NoRead]
  /\ edited = {} /\ behind = FALSE /\ overwritten = FALSE /\ abandoned = {}
  /\ outrun = FALSE
  /\ choices = 0 /\ faults = 0

Fault == faults < MaxFaults /\ faults' = faults + 1

-----------------------------------------------------------------------------
(* Writing the storage notifies the background if the URL is another. *)
Store(new) ==
  /\ stored' = new
  /\ changed' = (changed \/ new.serverUrl # stored.serverUrl)
  /\ UNCHANGED <<cachedBaseUrl, reading, outrun>>

Chooses(key, value) ==
  /\ choices < MaxChoices
  /\ choices' = choices + 1
  /\ chosen' = [chosen EXCEPT ![key] = value]
  /\ abandoned' = abandoned \ {key}
  /\ overwritten' = (overwritten /\ key # "enabled")

-----------------------------------------------------------------------------
(***************************************************************************)
(* The popup.  It closes when the user turns to another page.              *)
(***************************************************************************)
OpenPopup ==
  /\ popup = "closed"
  /\ popup' = "loading" /\ popupEnabled' = TRUE
  /\ UNCHANGED <<stored, options, settings, saveTimer, toastTimer, base, history,
                 choices, faults>>

LoadData ==
  /\ popup = "loading"
  /\ popup' = "open" /\ popupEnabled' = stored.enabled
  /\ UNCHANGED <<stored, options, settings, saveTimer, toastTimer, base, history,
                 choices, faults>>

(* The switch stays as it is drawn first. *)
LoadDataFails ==
  /\ popup = "loading" /\ Fault
  /\ popup' = "open"
  /\ UNCHANGED <<stored, popupEnabled, options, settings, saveTimer, toastTimer, base,
                 history, choices>>

HandleToggle ==
  /\ popup = "open"
  /\ popupEnabled' = ~popupEnabled
  /\ Store([stored EXCEPT !.enabled = ~popupEnabled])
  /\ Chooses("enabled", ~popupEnabled)
  /\ behind' = (options = "open")
  /\ edited' = edited \ {"enabled"}
  /\ UNCHANGED <<popup, options, settings, saveTimer, toastTimer, faults>>

ClosePopup ==
  /\ popup # "closed"
  /\ popup' = "closed"
  /\ UNCHANGED <<stored, popupEnabled, options, settings, saveTimer, toastTimer, base,
                 history, choices, faults>>

-----------------------------------------------------------------------------
(***************************************************************************)
(* The options page.                                                       *)
(***************************************************************************)
OpenOptions ==
  /\ options = "closed"
  /\ options' = "loading"
  /\ settings' = DEFAULT_SETTINGS
  /\ popup' = "closed"
  /\ UNCHANGED <<stored, popupEnabled, saveTimer, toastTimer, base, history, choices, faults>>

(* The page reads the storage once and does not follow it. *)
LoadSettings ==
  /\ options = "loading"
  /\ options' = "open"
  /\ settings' = stored
  /\ behind' = FALSE
  /\ UNCHANGED <<stored, popup, popupEnabled, saveTimer, toastTimer, base, chosen, edited,
                 overwritten, abandoned, choices, faults>>

(* Mutant of Save: the edit starts from what is stored, not from the page. *)
SaveOverStored(key, value) ==
  /\ options = "open" /\ popup = "closed"
  /\ settings' = [stored EXCEPT ![key] = value]
  /\ saveTimer' = TRUE
  /\ Chooses(key, value)
  /\ edited' = edited \cup {key}
  /\ behind' = (behind /\ key # "enabled")
  /\ UNCHANGED <<stored, popup, popupEnabled, options, toastTimer, base, faults>>

(* A control calls save: the page changes at once, the write is delayed anew. *)
Save(key, value) ==
  /\ options = "open" /\ popup = "closed"
  /\ settings' = [settings EXCEPT ![key] = value]
  /\ saveTimer' = TRUE
  /\ Chooses(key, value)
  /\ edited' = edited \cup {key}
  /\ behind' = (behind /\ key # "enabled")
  /\ UNCHANGED <<stored, popup, popupEnabled, options, toastTimer, base, faults>>

(* Mutant of SaveTimer: only the URL is written. *)
SaveTimerUrl ==
  /\ saveTimer
  /\ saveTimer' = FALSE /\ toastTimer' = TRUE
  /\ Store([stored EXCEPT !.serverUrl = settings.serverUrl])
  /\ edited' = {} /\ overwritten' = (overwritten \/ behind)
  /\ UNCHANGED <<popup, popupEnabled, options, settings, chosen, behind, abandoned, choices,
                 faults>>

(* All settings of the page are written, not only those that were edited. *)
SaveTimer ==
  /\ saveTimer
  /\ saveTimer' = FALSE /\ toastTimer' = TRUE
  /\ Store(settings)
  /\ edited' = {} /\ overwritten' = (overwritten \/ behind)
  /\ UNCHANGED <<popup, popupEnabled, options, settings, chosen, behind, abandoned, choices,
                 faults>>

ToastTimer ==
  /\ toastTimer
  /\ toastTimer' = FALSE
  /\ UNCHANGED <<stored, popup, popupEnabled, options, settings, saveTimer, base, history,
                 choices, faults>>

(* The timers go with the page. *)
CloseOptions ==
  /\ options # "closed"
  /\ options' = "closed"
  /\ saveTimer' = FALSE /\ toastTimer' = FALSE
  /\ abandoned' = abandoned \cup edited
  /\ edited' = {} /\ behind' = FALSE
  /\ UNCHANGED <<stored, popup, popupEnabled, settings, base, chosen, overwritten, choices,
                 faults>>

-----------------------------------------------------------------------------
(***************************************************************************)
(* The background's server URL.                                            *)
(***************************************************************************)
(* Mutant of Resolve: the scheme is not looked at. *)
ResolveAny(url) == url

Resolve(url) == IF url \in Rejected THEN Default ELSE url

(* A request finds nothing cached and reads the storage. *)
GetConfig(r) ==
  /\ cachedBaseUrl = None /\ reading[r] = NoRead
  /\ reading' = [reading EXCEPT ![r].url = Resolve(stored.serverUrl)]
  /\ UNCHANGED <<stored, pages, changed, cachedBaseUrl, outrun, history, choices, faults>>

ConfigRead(r) ==
  /\ reading[r] # NoRead
  /\ reading' = [reading EXCEPT ![r] = NoRead]
  /\ cachedBaseUrl' = reading[r].url
  /\ outrun' = reading[r].old
  /\ UNCHANGED <<stored, pages, changed, history, choices, faults>>

(* Mutant of OnChanged: the cached URL stays. *)
OnChangedKeeps ==
  /\ changed
  /\ changed' = FALSE
  /\ reading' = [r \in Requests |-> IF reading[r] = NoRead THEN NoRead
                                    ELSE [reading[r] EXCEPT !.old = TRUE]]
  /\ UNCHANGED <<stored, pages, cachedBaseUrl, outrun, history, choices, faults>>

OnChanged ==
  /\ changed
  /\ changed' = FALSE
  /\ cachedBaseUrl' = None /\ outrun' = FALSE
  /\ reading' = [r \in Requests |-> IF reading[r] = NoRead THEN NoRead
                                    ELSE [reading[r] EXCEPT !.old = TRUE]]
  /\ UNCHANGED <<stored, pages, history, choices, faults>>

(* The browser ends the worker and starts it for the next event. *)
Restart ==
  /\ Fault
  /\ cachedBaseUrl' = None /\ outrun' = FALSE
  /\ reading' = [r \in Requests |-> NoRead]
  /\ UNCHANGED <<stored, pages, changed, history, choices>>

-----------------------------------------------------------------------------
Popup == OpenPopup \/ LoadData \/ LoadDataFails \/ HandleToggle \/ ClosePopup

Options == \/ OpenOptions \/ LoadSettings \/ SaveTimer \/ ToastTimer \/ CloseOptions
           \/ \E key \in Keys : \E value \in Values(key) : Save(key, value)

Background == OnChanged \/ Restart \/ \E r \in Requests : GetConfig(r) \/ ConfigRead(r)

Next == Popup \/ Options \/ Background

Spec == Init /\ [][Next]_vars

(* Timers fire and events arrive; the user owes nothing. *)
FairSpec == Spec /\ WF_vars(SaveTimer) /\ WF_vars(OnChanged)

-----------------------------------------------------------------------------
Excused(key) == key \in abandoned \/ (key = "enabled" /\ overwritten)

(***************************************************************************)
(* What the user last chose, in the popup or on the options page, is       *)
(* stored or about to be, unless the page was closed before its timer      *)
(* fired or saved an `enabled` older than the popup's switch (save,        *)
(* handleToggle).  No restart, no reading of the storage at the wrong time *)
(* and no order of the two pages' writes loses it otherwise.               *)
(***************************************************************************)
ChoicesKept ==
  \A key \in Keys : \/ stored[key] = chosen[key] \/ Excused(key)
                    \/ saveTimer /\ settings[key] = chosen[key]

(***************************************************************************)
(* In the end every choice is stored, with the same two exceptions.        *)
(***************************************************************************)
ChoicesSettle == <>[](\A key \in Keys : stored[key] = chosen[key] \/ Excused(key))

(***************************************************************************)
(* The background talks to the server of the settings, as soon as it has   *)
(* heard of them ("Listen for storage changes to invalidate the cache"),   *)
(* unless a getConfig stores what it read before the event.                *)
(***************************************************************************)
BaseFollows ==
  cachedBaseUrl \in {None, Resolve(stored.serverUrl)} \/ changed \/ outrun
=============================================================================
