------------------------------- MODULE TeachMode -------------------------------
(***************************************************************************)
(* Teach Mode, from the panel (state/teach.ts, lib/teachMode.ts) through   *)
(* the core (lib.rs, vision.rs) to the observer's capture                  *)
(* (TeachCapture.swift, TeachModeGate.swift) and back.                     *)
(*                                                                         *)
(* The user starts a session, the observer sends masked frames of one app, *)
(* the vision model names what it saw, and the user says of every reading  *)
(* whether it is right.  Sessions, captures and answers overlap: a capture *)
(* outlives its tick, a frame outlives its session, and a new session may  *)
(* be asked for while the last one's answers still arrive.                 *)
(*                                                                         *)
(* FrameRead is what the panel does with frames that carry the metadata    *)
(* capturedFrameSchema asks for.  The observer of this commit leaves two   *)
(* of its fields out, so its frames all take the case seen = {}.           *)
(***************************************************************************)
EXTENDS Values

CONSTANTS
  Readings,     \* the actions a frame may be read as (TeachReading.id)
  LineCap,      \* queue_teach_control: lines waiting for the observer
  MaxTaught,    \* bound: sessions the core starts
  MaxFrames     \* bound: frames sent

\* No word of the user and nothing on show is taken for its absence, and every bound is a number.
ASSUME TeachAssumption ==
  /\ None \notin {"kept", "discarded"}
  /\ None \notin [verdict : {"unreviewed", "kept", "discarded"}, frame : Nat]
  /\ LineCap \in Nat /\ MaxTaught \in Nat /\ MaxFrames \in Nat

VARIABLES
  taught,    \* the panel's session: its phase, and its id when it has one
  answers,   \* answers of the core the panel has not seen
  review,    \* readings, with what the panel says of each and the frame it keeps
  word,      \* what the user last said of each reading
  consent,   \* Teach Mode is enabled and observation is not paused
  lines,     \* TeachControlState: control lines for the observer
  capture,   \* the observer: its session, the capture in flight, the last digest
  front,     \* what the screen shows
  pipe,      \* lines the observer wrote
  vision,    \* the frame the core has sent to the model
  frames, minted, \* counters: frames sent, sessions started
  saved      \* readings stored as events

panelTeach == <<taught, answers, review, word>>
teachVars == <<taught, answers, review, word, consent, lines, capture, front, pipe, vision, frames,
               minted, saved>>

\* What the screen shows: the demonstrated app with one content or another, or a place no frame may
\* come from (another app, a private one, a password field).
Screens == {"one", "two", "closed"}

TeachInit ==
  /\ taught = [phase |-> "idle", id |-> 0] /\ answers = <<>>
  /\ review = [r \in Readings |-> None] /\ word = [r \in Readings |-> None]
  /\ consent = TRUE /\ lines = <<>> /\ capture = [id |-> 0, flight |-> 0, last |-> None]
  /\ front = "one" /\ pipe = <<>> /\ vision = None /\ frames = 0 /\ minted = 0 /\ saved = {}

-----------------------------------------------------------------------------
(* The panel and the commands it calls *)

Forget == /\ review' = [r \in Readings |-> None] /\ word' = [r \in Readings |-> None]

\* teach_mode_start, behind queue_teach_control: a line for the observer and an id for the panel.
TeachModeStart ==
  IF consent /\ Len(lines) < LineCap
    THEN /\ minted' = minted + 1
         /\ lines' = Append(lines, minted + 1) /\ answers' = Append(answers, [phase |-> "recording", id |-> minted + 1])
    ELSE answers' = Append(answers, [phase |-> "refused", id |-> 0]) /\ UNCHANGED <<minted, lines>>

StartTeach ==
  /\ minted < MaxTaught /\ Len(answers) < MaxTaught
  /\ taught' = [phase |-> "starting", id |-> 0] /\ Forget /\ TeachModeStart
  /\ UNCHANGED <<consent, capture, front, pipe, vision, frames, saved>>

\* teach_mode_stop: the line 0.
StopTeach ==
  /\ minted > 0 /\ Len(answers) < MaxTaught
  /\ IF Len(lines) < LineCap
       THEN lines' = Append(lines, 0) /\ answers' = Append(answers, [phase |-> "stopped", id |-> 0])
       ELSE UNCHANGED <<lines, answers>>
  /\ UNCHANGED <<taught, review, word, consent, capture, front, pipe, vision, frames, minted, saved>>

\* What start and stop do with the answer, once it is there.
TeachAnswered ==
  /\ answers # <<>> /\ answers' = Tail(answers)
  /\ taught' = IF Head(answers).phase # "stopped" THEN Head(answers)
               ELSE IF taught.phase = "recording" THEN [taught EXCEPT !.phase = "ended"] ELSE taught
  /\ UNCHANGED <<review, word, consent, lines, capture, front, pipe, vision, frames, minted, saved>>

\* applyStatus: an "ended" is taken for the session on show, whichever session it names.
ApplyStatus(line) ==
  taught' = CASE line.kind = "ended" /\ taught.phase = "recording" -> [taught EXCEPT !.phase = "ended"]
              [] line.kind = "refused" -> [phase |-> "refused", id |-> 0]
              [] OTHER -> taught

\* mergeReading: a repeat keeps the first frame and the verdict.
MergeReading(r, frame) ==
  IF review[r] = None THEN [verdict |-> "unreviewed", frame |-> frame] ELSE review[r]

\* interpretVisionResponse: an answer that does not fit, is unsure or has nothing above the floor is
\* rejected whole.
Interpreted(answer, seen) == IF answer = "actions" THEN seen ELSE {}
NothingUsable == {"invalid_output", "model_uncertain", "no_actions", "below_confidence_floor"}

\* readingsFromObservation
ReadingsFrom(frame, answer, seen) ==
  [r \in Readings |-> IF r \in Interpreted(answer, seen) THEN MergeReading(r, frame) ELSE review[r]]

ApplyObservation(frame, answer, seen) == review' = ReadingsFrom(frame, answer, seen)

SetVerdict(r, verdict) ==
  /\ review[r] # None
  /\ review' = [review EXCEPT ![r].verdict = verdict]
  /\ word' = [word EXCEPT ![r] = verdict]
  /\ UNCHANGED <<taught, answers, consent, lines, capture, front, pipe, vision, frames, minted, saved>>

VerdictForAll(verdict) == \* a mutant
  /\ review' = [r \in Readings |-> IF review[r] # None THEN [review[r] EXCEPT !.verdict = verdict] ELSE None]
  /\ word' = [r \in Readings |-> IF review[r] # None /\ word[r] = None THEN verdict ELSE word[r]]
  /\ UNCHANGED <<taught, answers, consent, lines, capture, front, pipe, vision, frames, minted, saved>>

\* keepAll, discardAll: only what nobody has spoken about.
VerdictForTheRest(verdict) ==
  /\ review' = [r \in Readings |->
       IF review[r] # None THEN
         IF review[r].verdict = "unreviewed" THEN [review[r] EXCEPT !.verdict = verdict] ELSE review[r]
       ELSE None]
  /\ word' = [r \in Readings |-> IF review[r] # None /\ word[r] = None THEN verdict ELSE word[r]]
  /\ UNCHANGED <<taught, answers, consent, lines, capture, front, pipe, vision, frames, minted, saved>>

\* saveKept, eventFromReading
SaveKept ==
  /\ saved' = saved \cup
       {[reading |-> r, frame |-> review[r].frame, word |-> word[r]] :
          r \in {k \in Readings : review[k] # None /\ review[k].verdict = "kept"}}
  /\ UNCHANGED <<panelTeach, consent, lines, capture, front, pipe, vision, frames, minted>>

ResetTeach ==
  /\ taught' = [phase |-> "idle", id |-> 0] /\ Forget
  /\ UNCHANGED <<answers, consent, lines, capture, front, pipe, vision, frames, minted, saved>>

-----------------------------------------------------------------------------
(* The observer *)

EndedLine(id) == IF id = 0 THEN <<>> ELSE <<[kind |-> "ended", id |-> id]>>

\* start replaces the running session; without the system's grant it ends there.
StartCapture(id, granted) ==
  /\ pipe' = pipe \o EndedLine(capture.id) \o <<[kind |-> IF granted THEN "started" ELSE "refused", id |-> id]>>
  /\ capture' = IF granted THEN [capture EXCEPT !.id = id, !.last = None] ELSE [capture EXCEPT !.id = 0]

\* stopInternal
StopInternal == /\ pipe' = pipe \o EndedLine(capture.id) /\ capture' = [capture EXCEPT !.id = 0]

\* The supervisor's loop writes control lines between two lines it reads, never during a vision call.
ControlLine(granted) ==
  /\ lines # <<>> /\ vision = None /\ lines' = Tail(lines)
  /\ IF Head(lines) = 0 THEN StopInternal ELSE StartCapture(Head(lines), granted)
  /\ UNCHANGED <<panelTeach, consent, front, vision, frames, minted, saved>>

\* frameEgressDecision, over what the observer sees at that moment
FrameEgress == consent /\ front # "closed"

TimeBoxElapses ==
  /\ capture.id # 0 /\ StopInternal
  /\ UNCHANGED <<panelTeach, consent, lines, front, vision, frames, minted, saved>>

CaptureTick ==
  /\ capture.id # 0 /\ capture.flight = 0 /\ FrameEgress
  /\ capture' = [capture EXCEPT !.flight = capture.id]
  /\ UNCHANGED <<panelTeach, consent, lines, front, pipe, vision, frames, minted, saved>>

\* captureOnce: the frame belongs to the session of its tick, whatever runs by now; one that shows
\* what the last one showed is dropped, and so is one the gate refuses the second time.
CaptureOnce ==
  /\ capture.flight # 0
  /\ IF front = "closed" \/ front = capture.last
       THEN capture' = [capture EXCEPT !.flight = 0] /\ UNCHANGED <<pipe, frames>>
       ELSE /\ frames < MaxFrames /\ frames' = frames + 1
            /\ capture' = [capture EXCEPT !.flight = 0, !.last = front]
            /\ pipe' = Append(pipe, [kind |-> "frame", id |-> capture.flight])
  /\ UNCHANGED <<panelTeach, consent, lines, front, vision, minted, saved>>

ScreenChanges ==
  /\ front' \in Screens \ {front}
  /\ UNCHANGED <<panelTeach, consent, lines, capture, pipe, vision, frames, minted, saved>>

-----------------------------------------------------------------------------
(* The core *)

\* A line from the observer: a status goes to the panel, a frame to the model.
ReadTeachLine ==
  /\ pipe # <<>> /\ vision = None /\ pipe' = Tail(pipe)
  /\ IF Head(pipe).kind = "frame"
       THEN vision' = Head(pipe).id /\ UNCHANGED taught
       ELSE ApplyStatus(Head(pipe)) /\ UNCHANGED vision
  /\ UNCHANGED <<answers, review, word, consent, lines, capture, front, frames, minted, saved>>

\* ingest_teach_frame: the answer goes to the panel.
FrameRead(answer, seen) ==
  /\ vision # None /\ vision' = None
  /\ ApplyObservation(vision, answer, seen)
  /\ UNCHANGED <<taught, answers, word, consent, lines, capture, front, pipe, frames, minted, saved>>

\* infer_frame: no key or model, a frame too large, a failed call, an answer without text.
InferenceFails ==
  /\ vision # None /\ vision' = None
  /\ UNCHANGED <<panelTeach, consent, lines, capture, front, pipe, frames, minted, saved>>

TeachSettingChanges ==
  /\ consent' = ~consent
  /\ UNCHANGED <<panelTeach, lines, capture, front, pipe, vision, frames, minted, saved>>

TeachNext ==
  \/ StartTeach \/ StopTeach \/ TeachAnswered
  \/ \E r \in Readings, v \in {"kept", "discarded"} : SetVerdict(r, v)
  \/ \E v \in {"kept", "discarded"} : VerdictForTheRest(v)
  \/ SaveKept \/ ResetTeach
  \/ \E granted \in BOOLEAN : ControlLine(granted)
  \/ TimeBoxElapses \/ CaptureTick \/ CaptureOnce \/ ScreenChanges
  \/ ReadTeachLine
  \/ \E answer \in NothingUsable \cup {"actions"}, seen \in SUBSET Readings : FrameRead(answer, seen)
  \/ InferenceFails
  \/ TeachSettingChanges

TeachSpec == TeachInit /\ [][TeachNext]_teachVars

-----------------------------------------------------------------------------
\* What is stored was kept by the user, who did not take it back: a reading that comes in again after
\* it was discarded ("having discarded a misreading once") is not offered to keepAll a second time.
SavedWereKept == \A s \in saved : s.word = "kept"

\* "Every field is a fact, not a guess": a session the panel shows as ended is not running.
EndedIsEnded == taught.phase = "ended" /\ lines = <<>> => capture.id # taught.id
=============================================================================
