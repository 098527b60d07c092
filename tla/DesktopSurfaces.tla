---------------------------- MODULE DesktopSurfaces ----------------------------
(***************************************************************************)
(* What the desktop shows outside its panel: the pet's state machine       *)
(* (pet/machine.ts, PetApp.tsx), the frames that animate it                *)
(* (pet/scheduler.ts, SpriteMaman.tsx) and the status bar (StatusBar.tsx,  *)
(* lib/status.ts).                                                         *)
(***************************************************************************)
EXTENDS Values

VARIABLES
  conditions, \* the pet's condition flags that are set
  shows,      \* the state the pet is in
  gazing,     \* the user is engaged: a static look frame replaces the animation
  player,     \* FrameScheduler: the plan's state, timers set and not cleared, paused
  beat, fallback, hold, \* StatusBar: what it says, what it falls back to, the hold timer
  health,     \* what the bar's last poll of the store, the settings and the observer answered
  funnel      \* the last funnel beat sent to the bar

surfaceVars == <<conditions, shows, gazing, player, beat, fallback, hold, health, funnel>>

-----------------------------------------------------------------------------
(* The pet's machine *)

\* resolvePetState: the highest condition wins.
ResolvePetState(c) ==
  CASE "approvalPending" \in c -> "waiting"
    [] c \cap {"approvalPending"} = {} /\ "running" \in c -> "working"
    [] c \cap {"approvalPending", "running"} = {} /\ "reviewing" \in c -> "reviewing"
    [] c \cap {"approvalPending", "running", "reviewing"} = {} /\ "thinking" \in c -> "thinking"
    [] c \cap {"approvalPending", "running", "reviewing", "thinking"} = {} /\ "suggestion" \in c -> "waving"
    [] c \subseteq {"paused", "private", "observing"} /\ c \cap {"paused", "private"} # {} -> "sleeping"
    [] c = {"observing"} -> "looking_around"
    [] c = {} -> "idle"

\* conditionUpdates
Raises == [OBSERVATION_PAUSED |-> "paused", PRIVATE_CONTEXT_ENTERED |-> "private",
           OBSERVING_STARTED |-> "observing", THINKING_STARTED |-> "thinking",
           SUGGESTION_READY |-> "suggestion", APPROVAL_REQUIRED |-> "approvalPending",
           RUN_STARTED |-> "running", REVIEW_STARTED |-> "reviewing"]
Clears == [OBSERVATION_RESUMED |-> "paused", PRIVATE_CONTEXT_LEFT |-> "private",
           OBSERVING_STOPPED |-> "observing", THINKING_FINISHED |-> "thinking",
           SUGGESTION_HANDLED |-> "suggestion", APPROVAL_RESOLVED |-> "approvalPending",
           RUN_SUCCEEDED |-> "running", RUN_FAILED |-> "running", REVIEW_FINISHED |-> "reviewing"]

ApplyEvent(e) ==
  (conditions \cup (IF e \in DOMAIN Raises THEN {Raises[e]} ELSE {}))
    \ (IF e \in DOMAIN Clears THEN {Clears[e]} ELSE {})

\* petMachine: success and failed are displayed for a time.  Success gives way to three events, each
\* with a state of its own; failed to nothing but an acknowledgement.
InSuccess(e) ==
  CASE e = "APPROVAL_REQUIRED" -> "waiting" [] e = "RUN_FAILED" -> "failed"
    [] e = "RUN_STARTED" -> "working" [] OTHER -> "success"

AfterEvent(e) ==
  CASE shows = "failed" -> IF e = "FAILURE_ACKNOWLEDGED" THEN ResolvePetState(conditions) ELSE "failed"
    [] shows = "success" -> InSuccess(e)
    [] shows \notin {"failed", "success"} ->
         CASE e = "RUN_SUCCEEDED" -> "success" [] e = "RUN_FAILED" -> "failed"
           [] OTHER -> ResolvePetState(ApplyEvent(e))

-----------------------------------------------------------------------------
(* The frames: a plan is played once its timers are gone; a static plan sets none *)

Cancelled == [queue |-> FALSE, timers |-> 0, paused |-> FALSE]

\* planForState: sleeping is one frame, and so is every state when motion is reduced.
PlanIsStatic(state, reduced) == state = "sleeping" \/ reduced

\* play, which cancels first, and step, which sets the next timer
Play(state, reduced) ==
  IF PlanIsStatic(state, reduced) THEN Cancelled ELSE [Cancelled EXCEPT !.queue = TRUE, !.timers = 1]

\* SpriteMaman's effect, after any change of state or gaze
GazeActive(state, gaze) == gaze /\ state \in {"idle", "looking_around"}
Animate(state, gaze, reduced) ==
  player' = IF GazeActive(state, gaze) THEN Cancelled
            ELSE IF state = shows /\ GazeActive(state, gaze) = GazeActive(shows, gazing) THEN player
            ELSE Play(state, reduced)

PetUnchanged == UNCHANGED <<conditions, shows, gazing, player>>
BarUnchanged == UNCHANGED <<beat, fallback, hold, health, funnel>>

\* An event for the machine (PetApp sends what the panel emits, the pause setting and the click).
PetHears(e, reduced) ==
  /\ conditions' = ApplyEvent(e) /\ shows' = AfterEvent(e)
  /\ Animate(AfterEvent(e), gazing, reduced)
  /\ UNCHANGED gazing /\ BarUnchanged

\* successDisplay, failedDisplay
DisplayEnds(reduced) ==
  /\ shows \in {"success", "failed"} /\ shows' = ResolvePetState(conditions)
  /\ Animate(ResolvePetState(conditions), gazing, reduced)
  /\ UNCHANGED <<conditions, gazing>> /\ BarUnchanged

\* updateGaze, lingerThenClearGaze
GazeChanges(reduced) ==
  /\ gazing' = ~gazing /\ Animate(shows, ~gazing, reduced)
  /\ UNCHANGED <<conditions, shows>> /\ BarUnchanged

\* FrameScheduler.step when its timer fires, and Pet Lab's pause, resume and restart
FrameTimer == /\ player.timers > 0 /\ UNCHANGED surfaceVars
PauseFrames == [player EXCEPT !.paused = TRUE, !.timers = 0]
ResumeFrames == IF player.paused THEN [player EXCEPT !.paused = FALSE, !.timers = IF player.queue THEN 1 ELSE 0]
                ELSE player
RestartFrames == IF player.queue THEN [PauseFrames EXCEPT !.paused = FALSE, !.timers = 1] ELSE player
LabControl ==
  /\ player' \in {PauseFrames, ResumeFrames, RestartFrames}
  /\ UNCHANGED <<conditions, shows, gazing>> /\ BarUnchanged

-----------------------------------------------------------------------------
(* The status bar *)

FunnelBeats == {"idle", "watching", "suggested"}
StickyBeats == {"running", "run_done"} \* for the seven beats that hold the bar

\* A sticky beat takes the bar and starts the hold again.
StickyBeat(b) ==
  /\ beat' = b /\ hold' = TRUE /\ UNCHANGED <<fallback, health, funnel>> /\ PetUnchanged

\* A funnel beat waits behind a hold.
FunnelBeat(b) ==
  /\ fallback' = b /\ funnel' = b /\ beat' = (IF hold THEN beat ELSE b)
  /\ UNCHANGED <<hold, health>> /\ PetUnchanged

HoldEnds ==
  /\ hold /\ hold' = FALSE /\ beat' = fallback /\ UNCHANGED <<fallback, health, funnel>> /\ PetUnchanged

\* The health poll; one that fails leaves the health it had.
HealthAnswers == [store : {"ok", "blocked"}, paused : BOOLEAN, observer : {"observing", "failed"}]
HealthPolled(answer) ==
  /\ health' = answer /\ UNCHANGED <<beat, fallback, hold, funnel>> /\ PetUnchanged

\* dotFor: a blocked store outranks everything, a pause the observer.
DotFor(h) == IF h.store # "ok" THEN "red" ELSE IF h.paused THEN "gray"
             ELSE IF h.observer = "observing" THEN "green" ELSE "red"

\* statusLine: a blocked store, then an observer that is paused or broken, outrank every beat.
StatusLine == IF health.store # "ok" THEN "store" ELSE IF DotFor(health) \in {"red", "gray"} THEN DotFor(health)
              ELSE beat

-----------------------------------------------------------------------------
SurfaceInit ==
  /\ conditions = {"paused"} /\ shows = "sleeping" /\ gazing = FALSE /\ player = Cancelled
  /\ beat = "idle" /\ fallback = "idle" /\ hold = FALSE /\ funnel = "idle"
  /\ health = [store |-> "ok", paused |-> FALSE, observer |-> "observing"]

PetEvents == DOMAIN Raises \cup DOMAIN Clears \cup {"FAILURE_ACKNOWLEDGED"}
PetNext ==
  \/ \E e \in PetEvents, reduced \in BOOLEAN : PetHears(e, reduced)
  \/ \E reduced \in BOOLEAN : DisplayEnds(reduced) \/ GazeChanges(reduced)
  \/ FrameTimer \/ LabControl
BarNext ==
  \/ \E b \in StickyBeats : StickyBeat(b)
  \/ \E b \in FunnelBeats : FunnelBeat(b)
  \/ HoldEnds \/ \E h \in HealthAnswers : HealthPolled(h)
SurfaceNext == PetNext \/ BarNext

SurfaceSpec == SurfaceInit /\ [][SurfaceNext]_surfaceVars

-----------------------------------------------------------------------------
Reasons == [waiting |-> {"approvalPending"}, working |-> {"running"}, reviewing |-> {"reviewing"},
            thinking |-> {"thinking"}, waving |-> {"suggestion"}, sleeping |-> {"paused", "private"},
            looking_around |-> {"observing"}]

\* What the surfaces show is so: the pet has the condition it shows, at most one frame timer runs, and
\* a bar that nothing holds says the last thing the funnel told it, or why it cannot.
SurfacesAreTrue ==
  /\ shows \in DOMAIN Reasons => Reasons[shows] \cap conditions # {}
  /\ player.timers <= 1 /\ (player.paused => player.timers = 0)
  /\ ~hold => StatusLine \in {funnel, "store", "red", "gray"}

\* "failed > waiting > working > ... (highest wins; only one state renders)"
HighestWins == shows \notin {"failed", "success"} => shows = ResolvePetState(conditions)
=============================================================================
