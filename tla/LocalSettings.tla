---------------------------- MODULE LocalSettings ----------------------------
(***************************************************************************)
(* The settings file and the windows that share it (settings.ts, bridge.ts,*)
(* Onboarding.tsx, Privacy.tsx, the pause controls of Mother.tsx and       *)
(* PetApp.tsx, StatusBar.tsx). The panel and the pet each keep a copy,     *)
(* merge a change into it, write the whole of it and announce that; one    *)
(* that hears the announcement reads the file again. The status bar keeps  *)
(* none: once dragged it reads the file, changes one flag in what it read  *)
(* and writes the whole of it, and announces nothing.                      *)
(*                                                                         *)
(* settings_load and settings_save are synchronous commands: they run one  *)
(* at a time, in order, and their answers reach a window in that order.    *)
(***************************************************************************)
EXTENDS Values
LOCAL INSTANCE Integers
LOCAL INSTANCE Sequences
LOCAL INSTANCE FiniteSets

CONSTANTS
  Sites, Origins, \* domains to observe, addresses to write to
  BrowserApps, OtherApps, \* bundle ids: those of the browsers, those of other apps
  Extras,         \* values of everything else the file holds
  PauseLengths,
  Unreadable,     \* a file that does not parse
  MaxClock, MaxUpdates, \* bounds
  MaxMishaps      \* bound: failed calls and lapses of the pet's listener, together

\* A pause has a length, the file holds something besides what is modelled, and every bound is a number.
ASSUME SettingsAssumption ==
  /\ PauseLengths \subseteq Nat \ {0} /\ Extras # {}
  /\ MaxClock \in Nat /\ MaxUpdates \in Nat /\ MaxMishaps \in Nat

Windows == {"panel", "pet"} \* those that keep a copy
Callers == Windows \cup {"bar"}

VARIABLES
  settingsFile, \* the settings; None while there is no file
  copies,       \* per window: its copy
  opened,       \* per window: "closed", "loading" or "hydrated"
  listens,      \* per window: whether its listener is registered
  commands,     \* sequence of [window, kind, json]; a "resume" is the save hydrate waits for
  replies,      \* per caller: sequence of [kind, ok, raw]
  news,         \* per window: settings_changed events not yet handled
  clock, updates, mishaps,
  loadedAt,     \* history: per window, when it last loaded
  astray        \* history: windows one of whose calls failed, that missed an announcement, or behind whose back
                \* the bar saved, since they last read the file

settingsVars == <<settingsFile, copies, opened, listens, commands, replies, news, clock, updates, mishaps,
                  loadedAt, astray>>

-----------------------------------------------------------------------------
\* localSettingsSchema: paused until the user consents.
DefaultSettings ==
  [consented |-> FALSE, paused |-> TRUE, until |-> None, sites |-> {}, apps |-> {}, writable |-> {},
   follows |-> TRUE, rest |-> CHOOSE x \in Extras : TRUE]

Parsed(raw) == IF raw \in {None, Unreadable} THEN DefaultSettings ELSE raw

\* bundlesForDomains: a site implies the browsers it runs in, no site implies nothing.
BundlesForDomains(sites, existing) == IF sites = {} THEN existing ELSE existing \cup BrowserApps

Invoke(w, kind, json) == commands' = Append(commands, [window |-> w, kind |-> kind, json |-> json])

\* update: the copy changes at once, the file when the command runs.
Updated == updates < MaxUpdates /\ updates' = updates + 1
Update(w, kind, next) ==
  /\ Updated /\ copies' = [copies EXCEPT ![w] = next]
  /\ Invoke(w, kind, next)

SettingsInit ==
  /\ settingsFile \in {None, Unreadable, [DefaultSettings EXCEPT !.consented = TRUE, !.paused = FALSE]}
  /\ copies = [w \in Windows |-> DefaultSettings] /\ opened = [w \in Windows |-> "closed"]
  /\ listens = [w \in Windows |-> FALSE]
  /\ commands = <<>> /\ replies = [w \in Callers |-> <<>>] /\ news = [w \in Windows |-> 0]
  /\ clock = 0 /\ updates = 0 /\ mishaps = 0
  /\ loadedAt = [w \in Windows |-> 0] /\ astray = {}

\* The first effects of App and PetApp: hydrate, and a listener that takes a moment to register.
OpenWindow(w) ==
  /\ opened[w] = "closed" /\ opened' = [opened EXCEPT ![w] = "loading"]
  /\ Invoke(w, "load", None)
  /\ UNCHANGED <<settingsFile, copies, listens, replies, news, clock, updates, mishaps, loadedAt, astray>>
Listen(w) ==
  /\ opened[w] # "closed" /\ ~listens[w] /\ listens' = [listens EXCEPT ![w] = TRUE]
  /\ UNCHANGED <<settingsFile, copies, opened, commands, replies, news, clock, updates, mishaps, loadedAt, astray>>
\* The pet's effect runs again whenever the state of the animal changes: it lets go of its listener first.
PetRelistens ==
  /\ listens["pet"] /\ mishaps < MaxMishaps /\ mishaps' = mishaps + 1
  /\ listens' = [listens EXCEPT !["pet"] = FALSE]
  /\ UNCHANGED <<settingsFile, copies, opened, commands, replies, news, clock, updates, loadedAt, astray>>

SettingsChanged(w) ==
  /\ news[w] > 0 /\ news' = [news EXCEPT ![w] = @ - 1]
  /\ Invoke(w, "load", None)
  /\ UNCHANGED <<settingsFile, copies, opened, listens, replies, clock, updates, mishaps, loadedAt, astray>>

-----------------------------------------------------------------------------
(* settings_load, settings_save *)

SettingsCommandRuns ==
  /\ commands # <<>>
  /\ LET c == Head(commands) IN
       /\ settingsFile' = IF c.kind = "load" THEN settingsFile ELSE c.json
       /\ replies' = [replies EXCEPT ![c.window] =
            Append(@, [kind |-> c.kind, ok |-> TRUE, raw |-> settingsFile])]
       /\ astray' = IF c.kind = "load" THEN astray \ {c.window} ELSE IF c.window = "bar" THEN Windows ELSE astray
  /\ commands' = Tail(commands)
  /\ UNCHANGED <<copies, opened, listens, news, clock, updates, mishaps, loadedAt>>

SettingsCommandFails ==
  /\ commands # <<>> /\ mishaps < MaxMishaps /\ mishaps' = mishaps + 1
  /\ replies' = [replies EXCEPT ![Head(commands).window] = Append(@, [kind |-> Head(commands).kind, ok |-> FALSE, raw |-> None])]
  /\ astray' = astray \cup ({Head(commands).window} \cap Windows) /\ commands' = Tail(commands)
  /\ UNCHANGED <<settingsFile, copies, opened, listens, news, clock, updates, loadedAt>>

-----------------------------------------------------------------------------
(* What the window does with an answer *)

\* expirePauseIfDue: the check is made on the settings just read.
Lapsed(s) == s.paused /\ s.until # None /\ clock >= s.until
Resumed(s) == [s EXCEPT !.paused = FALSE, !.until = None]
ExpirePauseIfDue(w, s) ==
  IF Lapsed(s) THEN Update(w, "resume", Resumed(s))
  ELSE copies' = [copies EXCEPT ![w] = s] /\ UNCHANGED <<commands, updates>>

\* What cannot be read or parsed is the defaults; only settings that parse are followed by the check of the pause.
LoadAnswered(w) ==
  /\ replies[w] # <<>> /\ Head(replies[w]).kind = "load"
  /\ LET raw == Head(replies[w]).raw IN
       /\ IF raw \in {None, Unreadable}
          THEN copies' = [copies EXCEPT ![w] = DefaultSettings] /\ UNCHANGED <<commands, updates>>
          ELSE ExpirePauseIfDue(w, raw)
  /\ replies' = [replies EXCEPT ![w] = Tail(@)]
  /\ opened' = [opened EXCEPT ![w] = "hydrated"] /\ loadedAt' = [loadedAt EXCEPT ![w] = clock]
  /\ UNCHANGED <<settingsFile, listens, news, clock, mishaps, astray>>

\* emitAppEvent: every window that listens hears it, the one that saved too.
AnnouncedNowhere == news \* a mutant
Announced == [w \in Windows |-> IF listens[w] THEN news[w] + 1 ELSE news[w]]

\* A save that failed throws out of update, past the announcement; hydrate catches that of the save it waits for,
\* and falls through to the defaults.
SaveAcknowledged(w) ==
  /\ replies[w] # <<>> /\ Head(replies[w]).kind # "load"
  /\ IF Head(replies[w]).ok
     THEN news' = Announced /\ astray' = astray \cup {x \in Windows : opened[x] # "closed" /\ ~listens[x]}
     ELSE UNCHANGED <<news, astray>>
  /\ copies' = IF Head(replies[w]).kind = "resume" /\ ~Head(replies[w]).ok
               THEN [copies EXCEPT ![w] = DefaultSettings] ELSE copies
  /\ replies' = [replies EXCEPT ![w] = Tail(@)]
  /\ UNCHANGED <<settingsFile, opened, listens, commands, clock, updates, mishaps, loadedAt>>

-----------------------------------------------------------------------------
(* The status bar: half a second after the user let go of it, it turns following off in the file. *)

BarDragged ==
  /\ Updated /\ Invoke("bar", "load", None)
  /\ UNCHANGED <<settingsFile, copies, opened, listens, replies, news, clock, mishaps, loadedAt, astray>>

\* No file is an empty record to it; a file it cannot read or parse ends it, as does one that says so already.
BarAnswered ==
  /\ replies["bar"] # <<>> /\ replies' = [replies EXCEPT !["bar"] = Tail(@)]
  /\ LET r == Head(replies["bar"])
         found == Parsed(r.raw) IN
       IF r.kind = "load" /\ r.ok /\ r.raw # Unreadable /\ found.follows
       THEN Invoke("bar", "save", [found EXCEPT !.follows = FALSE])
       ELSE UNCHANGED commands
  /\ UNCHANGED <<settingsFile, copies, opened, listens, news, clock, updates, mishaps, loadedAt, astray>>

-----------------------------------------------------------------------------
(* What the user changes. The panel shows nothing until it is hydrated, and Onboarding until it is done;  *)
(* the pet's menu is there from the start.                                                                *)

PanelReach == opened["panel"] = "hydrated" /\ copies["panel"].consented
Reach(w) == IF w = "panel" THEN PanelReach ELSE opened[w] # "closed"
Only(w, next) ==
  /\ Update(w, "save", next)
  /\ UNCHANGED <<settingsFile, opened, listens, replies, news, clock, mishaps, loadedAt, astray>>

PauseFor(w, n) ==
  /\ Reach(w) /\ (w = "panel" => ~copies[w].paused)
  /\ Only(w, [copies[w] EXCEPT !.paused = TRUE, !.until = clock + n])
Resume(w) ==
  /\ Reach(w) /\ (w = "panel" => copies[w].paused)
  /\ Only(w, Resumed(copies[w]))
RemoveDomain(s) == PanelReach /\ s \in copies["panel"].sites /\ Only("panel", [copies["panel"] EXCEPT !.sites = @ \ {s}])
AddDomain(s) == PanelReach /\ s \notin copies["panel"].sites /\ Only("panel", [copies["panel"] EXCEPT !.sites = @ \cup {s}])
ToggleApp(a) ==
  /\ PanelReach
  /\ Only("panel", [copies["panel"] EXCEPT !.apps = IF a \in @ THEN @ \ {a} ELSE @ \cup {a}])
AddActuationOrigin(o) ==
  PanelReach /\ o \notin copies["panel"].writable /\ Only("panel", [copies["panel"] EXCEPT !.writable = @ \cup {o}])
RemoveActuationOrigin(o) ==
  PanelReach /\ o \in copies["panel"].writable /\ Only("panel", [copies["panel"] EXCEPT !.writable = @ \ {o}])
ChangeOther(x) == PanelReach /\ Only("panel", [copies["panel"] EXCEPT !.rest = x])

\* motherTick, in the panel: what it does before it looks for suggestions
PauseLapses ==
  /\ opened["panel"] = "hydrated" /\ Lapsed(copies["panel"])
  /\ Only("panel", Resumed(copies["panel"]))

Minute ==
  /\ clock < MaxClock /\ clock' = clock + 1
  /\ UNCHANGED <<settingsFile, copies, opened, listens, commands, replies, news, updates, mishaps, loadedAt, astray>>

\* Onboarding: its boxes ticked, the sites checked there. finish takes the apps from the copy as it is then.
Finish(chosen, observe) ==
  /\ opened["panel"] = "hydrated" /\ ~copies["panel"].consented
  /\ Only("panel", [copies["panel"] EXCEPT !.consented = TRUE, !.paused = ~observe, !.until = None,
                      !.sites = chosen, !.apps = BundlesForDomains(chosen, @)])

SettingsNext ==
  \/ \E w \in Windows :
       \/ OpenWindow(w) \/ Listen(w) \/ SettingsChanged(w) \/ LoadAnswered(w) \/ SaveAcknowledged(w) \/ Resume(w)
       \/ \E n \in PauseLengths : PauseFor(w, n)
  \/ BarDragged \/ BarAnswered \/ PetRelistens \/ SettingsCommandRuns \/ SettingsCommandFails \/ PauseLapses \/ Minute
  \/ \E s \in Sites : AddDomain(s) \/ RemoveDomain(s)
  \/ \E a \in OtherApps \cup BrowserApps : ToggleApp(a)
  \/ \E o \in Origins : AddActuationOrigin(o) \/ RemoveActuationOrigin(o)
  \/ \E x \in Extras : ChangeOther(x)
  \/ \E chosen \in SUBSET Sites, observe \in BOOLEAN : Finish(chosen, observe)

SettingsSpec == SettingsInit /\ [][SettingsNext]_settingsVars

-----------------------------------------------------------------------------
(* Properties *)

Quiet == commands = <<>> /\ (\A w \in Callers : replies[w] = <<>>) /\ \A w \in Windows : news[w] = 0

\* The windows' copies follow the file, however their loads, saves and announcements interleave: once nothing
\* is under way, an open window holds what the file holds, unless a call of its own failed, an announcement
\* passed while it had no listener, or the status bar wrote the file after it last read it (which is not
\* announced), and in no case a pause whose deadline had passed when it last read the file.
SettingsAreShared ==
  Quiet => \A w \in Windows :
    opened[w] = "hydrated" =>
      /\ w \in astray \/ copies[w] = Parsed(settingsFile)
      /\ ~(copies[w].paused /\ copies[w].until # None /\ copies[w].until <= loadedAt[w])
==============================================================================
