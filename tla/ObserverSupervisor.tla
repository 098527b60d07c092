-------------------------- MODULE ObserverSupervisor --------------------------
(***************************************************************************)
(* The desktop side of observation (lib.rs, observer.rs): the settings     *)
(* file and its cache, the ingest gate every event passes, the supervisor  *)
(* of the observer process, the queue of control lines it drains, and the  *)
(* native lane, on which the observer carries out one approved browser     *)
(* action at a time (BrowserActor.swift).                                  *)
(*                                                                         *)
(* The settings file is written by the panel while the supervisor and the  *)
(* connection threads of the browser bridge read it.                       *)
(***************************************************************************)
EXTENDS Values, SequencesExt

CONSTANTS
  Asks,           \* request ids of native-lane actions
  RestartBudget,   \* MAX_RESTARTS
  MaxSettings, MaxChildren, \* bounds: settings saved, observers spawned
  MaxQueue        \* bound: control lines not handled yet

\* What the observer showed is never taken for nothing.
ASSUME ObserverAssumption == None \notin {"alive", "denied", "seen", "broken"}

VARIABLES
  gateFile,   \* settings.json: "paused", "watching", or None while it is rewritten
  gateCache,  \* GateSettingsCache
  saving,     \* settings_save under way: None or the value written
  gateLoads,  \* load_gate_settings under way, per thread
  settingsSaved,
  supervisor, \* "top", "starting", "tick", "reading", "reaping", "cooling" or "stopped"
  child,      \* the observer: None, "alive" or "exited"
  intentional, crashes, childrenSpawned,
  observerStatus,
  controlQueue, \* TeachControlState: lines the supervisor has not written yet
  stdin, results, \* lines the observer has not handled, results it has written
  asks,       \* native_action_dispatch: None, "waiting", the answer, or "timeout"
  nativeWaiters, expiredAsks,
  keptAfterPause, \* history: an event was stored although observation was off from its arrival on
  evidence        \* history: what the observer last showed: None, "alive", "denied", "seen", "broken"

gateVars == <<gateFile, gateCache, saving, gateLoads, settingsSaved>>
nativeVars == <<asks, nativeWaiters, expiredAsks>>
superVars == <<supervisor, child, intentional, crashes, childrenSpawned, observerStatus, evidence>>
pipeVars == <<controlQueue, stdin, results>>
observerVars == <<gateVars, superVars, pipeVars, nativeVars, keptAfterPause>>

Loaders == {"supervisor", "bridge"}

ObserverInit ==
  /\ gateFile \in {"paused", "watching"} /\ gateCache = None /\ saving = None
  /\ gateLoads = [t \in Loaders |-> None] /\ settingsSaved = 0
  /\ supervisor = "top" /\ child = None /\ intentional = FALSE /\ crashes = 0 /\ childrenSpawned = 0
  /\ observerStatus = "disabled" /\ evidence = None
  /\ controlQueue = <<>> /\ stdin = <<>> /\ results = <<>>
  /\ asks = [r \in Asks |-> None] /\ nativeWaiters = {} /\ expiredAsks = {}
  /\ keptAfterPause = FALSE

-----------------------------------------------------------------------------
(* Settings and the gate. *)

\* settings_save: the file is emptied, written, and then the cache is dropped.
SettingsSave(value) ==
  /\ saving = None /\ settingsSaved < MaxSettings
  /\ saving' = value /\ gateFile' = None /\ settingsSaved' = settingsSaved + 1
  /\ UNCHANGED <<gateCache, gateLoads, superVars, pipeVars, nativeVars, keptAfterPause>>

SettingsWritten ==
  /\ saving # None /\ gateFile = None /\ gateFile' = saving
  /\ UNCHANGED <<gateCache, saving, gateLoads, settingsSaved, superVars, pipeVars, nativeVars, keptAfterPause>>

InvalidateCache ==
  /\ saving # None /\ gateFile # None /\ saving' = None /\ gateCache' = None
  /\ UNCHANGED <<gateFile, gateLoads, settingsSaved, superVars, pipeVars, nativeVars, keptAfterPause>>

\* load_gate_settings_from_disk, load_observer_gate: what cannot be parsed counts as paused.
FromDisk == IF gateFile = None THEN "paused" ELSE gateFile
ShouldObserve == FromDisk # "paused"

\* load_gate_settings: a hit returns, a miss goes to the disk without the lock.
BeginLoad(t) ==
  gateLoads' = [gateLoads EXCEPT ![t] =
    [at |-> IF gateCache = None THEN "miss" ELSE "loaded", value |-> gateCache,
     since |-> IF saving = None /\ gateFile = "paused" THEN settingsSaved ELSE None]]

LoadReads(t) ==
  /\ gateLoads[t] # None /\ gateLoads[t].at = "miss"
  /\ gateLoads' = [gateLoads EXCEPT ![t].at = "read", ![t].value = FromDisk]
  /\ UNCHANGED <<gateFile, gateCache, saving, settingsSaved, superVars, pipeVars, nativeVars, keptAfterPause>>

LoadCaches(t) ==
  /\ gateLoads[t] # None /\ gateLoads[t].at = "read"
  /\ gateLoads' = [gateLoads EXCEPT ![t].at = "loaded"] /\ gateCache' = gateLoads[t].value
  /\ UNCHANGED <<gateFile, saving, settingsSaved, superVars, pipeVars, nativeVars, keptAfterPause>>

\* gate_event: hard-denied, private and unlisted places are refused whatever the settings say.
GateEvent(value, place) == value # "paused" /\ place = "listed"

\* The bridge hands an event, or a trace, of the browser to the gate.
BrowserEventArrives ==
  /\ gateLoads["bridge"] = None /\ BeginLoad("bridge")
  /\ UNCHANGED <<gateFile, gateCache, saving, settingsSaved, superVars, pipeVars, nativeVars, keptAfterPause>>

Ingest(t) ==
  /\ gateLoads[t] # None /\ gateLoads[t].at = "loaded" /\ gateLoads' = [gateLoads EXCEPT ![t] = None]
  /\ \E place \in {"listed", "denied"} :
       keptAfterPause' = (keptAfterPause \/ (GateEvent(gateLoads[t].value, place) /\ gateLoads[t].since = settingsSaved))
  /\ UNCHANGED <<gateFile, gateCache, saving, settingsSaved>>

BrowserEventIngested == Ingest("bridge") /\ UNCHANGED <<superVars, pipeVars, nativeVars>>

-----------------------------------------------------------------------------
(* The supervisor. *)

Status(s, shown) == observerStatus' = s /\ evidence' = shown

\* The gate is closed: wait five seconds.
StayDisabled ==
  /\ supervisor = "top" /\ ~ShouldObserve /\ Status("disabled", None)
  /\ UNCHANGED <<gateVars, supervisor, child, intentional, crashes, childrenSpawned, pipeVars, nativeVars, keptAfterPause>>

NoBinary ==
  /\ supervisor = "top" /\ ShouldObserve /\ Status("failed", None)
  /\ UNCHANGED <<gateVars, supervisor, child, intentional, crashes, childrenSpawned, pipeVars, nativeVars, keptAfterPause>>

\* RestartPolicy.on_crash and on_stable: crashes older than the window are forgotten.
GivesUp(n) == n > RestartBudget
OnCrash(stable) == crashes' \in IF stable THEN {1} ELSE {k \in 1..(crashes + 1) : k <= RestartBudget + 1}

\* A spawn that fails for the fourth time ends the supervisor for good.
SpawnFails ==
  /\ supervisor = "top" /\ ShouldObserve /\ OnCrash(FALSE)
  /\ IF GivesUp(crashes') THEN Status("failed", None) /\ supervisor' = "stopped"
     ELSE Status("starting", None) /\ UNCHANGED supervisor
  /\ UNCHANGED <<gateVars, child, intentional, childrenSpawned, pipeVars, nativeVars, keptAfterPause>>

Spawn ==
  /\ supervisor = "top" /\ ShouldObserve /\ childrenSpawned < MaxChildren
  /\ Status("starting", None) /\ supervisor' = "starting" /\ BeginLoad("supervisor")
  /\ childrenSpawned' = childrenSpawned + 1
  /\ child' = "alive"
  /\ intentional' = FALSE /\ stdin' = <<>> /\ results' = <<>>
  /\ UNCHANGED <<gateFile, gateCache, saving, settingsSaved, crashes, controlQueue, nativeVars, keptAfterPause>>

\* observer_configure_line: the allowlists go to the observer when they differ from what it has,
\* and with every tick the control lines that wait.
Configure ==
  /\ supervisor \in {"starting", "tick"} /\ gateLoads["supervisor"] # None
  /\ gateLoads["supervisor"].at = "loaded" /\ gateLoads' = [gateLoads EXCEPT !["supervisor"] = None]
  /\ supervisor' = IF supervisor = "starting" THEN "tick" ELSE "reading"
  /\ IF supervisor = "tick"
     THEN stdin' = stdin \o controlQueue /\ controlQueue' = <<>>
     ELSE UNCHANGED <<stdin, controlQueue>>
  /\ UNCHANGED <<gateFile, gateCache, saving, settingsSaved, child, intentional, crashes, childrenSpawned,
                 observerStatus, evidence, results, nativeVars, keptAfterPause>>

\* The top of the inner loop: stop promptly on a pause, or look at the settings again.
Tick ==
  /\ supervisor = "tick" /\ gateLoads["supervisor"] = None
  /\ IF ~ShouldObserve
     THEN intentional' = TRUE /\ supervisor' = "reaping" /\ UNCHANGED gateLoads
     ELSE BeginLoad("supervisor") /\ UNCHANGED <<intentional, supervisor>>
  /\ UNCHANGED <<gateFile, gateCache, saving, settingsSaved, child, crashes, childrenSpawned,
                 observerStatus, evidence, pipeVars, nativeVars, keptAfterPause>>

\* A mutant: any sign of life repaints the status.
PromoteAlways(definitive) ==
  /\ evidence' = IF definitive THEN "seen" ELSE IF evidence = None THEN "alive" ELSE evidence
  /\ observerStatus' = "observing"

\* promote_observer_observing
Promote(definitive) ==
  /\ evidence' = IF definitive THEN "seen" ELSE IF evidence = None THEN "alive" ELSE evidence
  /\ observerStatus' = IF observerStatus = "starting" \/ (definitive /\ observerStatus = "permission_required")
                       THEN "observing" ELSE observerStatus

\* parse_observer_line and the arms of the supervisor: a line of the observer, other than an event.
ReadLine ==
  /\ supervisor = "reading" /\ supervisor' = "tick"
  /\ \E line \in {"none", "hello", "boundary", "permission", "fatal", "other"} :
       CASE line \in {"hello", "boundary"} -> Promote(FALSE)
         [] line = "permission" -> Status("permission_required", "denied") \* status_for_error
         [] line = "fatal"      -> Status("failed", "broken")
         [] OTHER               -> UNCHANGED <<observerStatus, evidence>>
  /\ UNCHANGED <<gateVars, child, intentional, crashes, childrenSpawned, pipeVars, nativeVars, keptAfterPause>>

\* An event: proof that observation works, and then the gate (ingest_observer_value).
ReadEvent ==
  /\ supervisor = "reading" /\ gateLoads["supervisor"] = None
  /\ Promote(TRUE) /\ BeginLoad("supervisor")
  /\ UNCHANGED <<gateFile, gateCache, saving, settingsSaved, supervisor, child, intentional, crashes,
                 childrenSpawned, pipeVars, nativeVars, keptAfterPause>>

ObservedEventIngested ==
  /\ supervisor = "reading" /\ Ingest("supervisor") /\ supervisor' = "tick"
  /\ UNCHANGED <<child, intentional, crashes, childrenSpawned, observerStatus, evidence, pipeVars, nativeVars>>

\* A result goes to whoever waits for it, and nowhere when nobody does.
ReadResult ==
  /\ supervisor = "reading" /\ gateLoads["supervisor"] = None /\ results # <<>>
  /\ supervisor' = "tick" /\ results' = Tail(results)
  /\ LET got == Head(results)
     IN /\ nativeWaiters' = nativeWaiters \ {got.ask}
        /\ asks' = IF got.ask \in nativeWaiters THEN [asks EXCEPT ![got.ask] = got.outcome] ELSE asks
  /\ UNCHANGED <<gateVars, child, intentional, crashes, childrenSpawned, observerStatus, evidence,
                 controlQueue, stdin, expiredAsks, keptAfterPause>>

\* stdout closed: the observer exited by itself.
ChildExits ==
  /\ supervisor = "reading" /\ gateLoads["supervisor"] = None
  /\ child' = "exited" /\ supervisor' = "reaping"
  /\ UNCHANGED <<gateVars, intentional, crashes, childrenSpawned, observerStatus, evidence, pipeVars,
                 nativeVars, keptAfterPause>>

\* The wait for the child is over: a deliberate stop costs nothing, a crash counts.
Reaped ==
  /\ supervisor = "reaping" /\ child' = None /\ stdin' = <<>> /\ results' = <<>>
  /\ IF intentional
     THEN Status("disabled", None) /\ supervisor' = "top" /\ UNCHANGED crashes
     ELSE \E stable \in BOOLEAN :
            /\ OnCrash(stable)
            /\ IF GivesUp(crashes') THEN Status("failed", None) /\ supervisor' = "cooling"
               ELSE UNCHANGED <<observerStatus, evidence>> /\ supervisor' = "top"
  /\ UNCHANGED <<gateVars, intentional, childrenSpawned, controlQueue, nativeVars, keptAfterPause>>

\* A minute later the supervisor tries again.
CooledOff ==
  /\ supervisor = "cooling" /\ supervisor' = "top"
  /\ UNCHANGED <<gateVars, child, intentional, crashes, childrenSpawned, observerStatus, evidence, pipeVars,
                 nativeVars, keptAfterPause>>

-----------------------------------------------------------------------------
(* The control queue and the native lane. *)

\* teach_mode_start, teach_mode_stop: queue_teach_control.
QueueTeachControl ==
  /\ Len(controlQueue \o stdin) < MaxQueue /\ controlQueue' = Append(controlQueue, None)
  /\ UNCHANGED <<gateVars, superVars, stdin, results, nativeVars, keptAfterPause>>

\* native_action_dispatch: interest first, then the line.
NativeActionDispatch(r) ==
  /\ asks[r] = None /\ observerStatus = "observing" /\ Len(controlQueue \o stdin) < MaxQueue
  /\ asks' = [asks EXCEPT ![r] = "waiting"] /\ nativeWaiters' = nativeWaiters \cup {r}
  /\ controlQueue' = Append(controlQueue, r)
  /\ UNCHANGED <<gateVars, superVars, stdin, results, expiredAsks, keptAfterPause>>

NativeTimeout(r) ==
  /\ asks[r] = "waiting" /\ asks' = [asks EXCEPT ![r] = "timeout"] /\ nativeWaiters' = nativeWaiters \ {r}
  /\ UNCHANGED <<gateVars, superVars, pipeVars, expiredAsks, keptAfterPause>>

\* The request outlives its window.
AskExpires(r) ==
  /\ asks[r] # None /\ expiredAsks' = expiredAsks \cup {r}
  /\ UNCHANGED <<gateVars, superVars, pipeVars, asks, nativeWaiters, keptAfterPause>>

\* What stands in the way of the action, in the order in which it is looked at.
Obstacles == {"no_chrome", "no_window", "private_window", "no_page", "no_address", "other_origin",
              "no_match", "ambiguous_match", "secure_field", "not_editable", "changed", "renamed", "none"}

\* BrowserActor.execute: a request that expired is refused before the page is looked at.
Execute(r, obstacle) ==
  CASE r \in expiredAsks -> "refused"
    [] obstacle \in {"no_chrome", "no_window", "no_page", "no_address"} -> "failed"
    [] obstacle # "none" -> "refused"
    [] OTHER -> "applied"

\* handleControl: a browser action is carried out and its result written; the rest is Teach Mode's.
HandleControl ==
  /\ child = "alive" /\ stdin # <<>> /\ stdin' = Tail(stdin)
  /\ IF Head(stdin) = None THEN UNCHANGED results
     ELSE \E obstacle \in Obstacles :
            results' = Append(results, [ask |-> Head(stdin), outcome |-> Execute(Head(stdin), obstacle)])
  /\ UNCHANGED <<gateVars, superVars, controlQueue, nativeVars, keptAfterPause>>

-----------------------------------------------------------------------------
ObserverNext ==
  \/ \E v \in {"paused", "watching"} : SettingsSave(v)
  \/ SettingsWritten \/ InvalidateCache \/ BrowserEventArrives \/ BrowserEventIngested
  \/ \E t \in Loaders : LoadReads(t) \/ LoadCaches(t)
  \/ StayDisabled \/ NoBinary \/ SpawnFails \/ Spawn \/ Configure \/ Tick
  \/ ReadLine \/ ReadEvent \/ ObservedEventIngested \/ ReadResult \/ ChildExits \/ Reaped \/ CooledOff
  \/ QueueTeachControl \/ HandleControl
  \/ \E r \in Asks : NativeActionDispatch(r) \/ NativeTimeout(r) \/ AskExpires(r)

ObserverSpec == ObserverInit /\ [][ObserverNext]_observerVars

\* The status is honest, through crashes, pauses and refused permissions: "observing" was earned
\* from this observer, a missing permission stays on the screen until an event disproves it, and
\* nothing runs while the status says it is switched off.
StatusIsHonest ==
  /\ observerStatus = "observing" => evidence \in {"alive", "seen"}
  /\ evidence = "denied" => observerStatus = "permission_required"
  /\ observerStatus = "disabled" => child = None

\* "The cache is invalidated on every settings_save, which is the only writer, so a stale read is
\* impossible": an event that comes in after observation was switched off is not stored.
PauseIsObeyed == ~keptAfterPause

=============================================================================
