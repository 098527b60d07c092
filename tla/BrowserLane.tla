------------------------------ MODULE BrowserLane ------------------------------
(***************************************************************************)
(* A run in the browser lane: the plan built from a diff (plan.ts), the    *)
(* executor that sends it step by step (execute.ts), the script that       *)
(* carries a step out in the page (inpage.ts), the record behind the page, *)
(* and the revert (runs.ts, browserRun.ts).                                *)
(*                                                                         *)
(* Somebody else may edit the page between any two steps, an answer may    *)
(* get lost, and the site may drop a value when it is saved.               *)
(***************************************************************************)
EXTENDS Values, SequencesExt

CONSTANTS
  Fields, Contents, \* the controls of the page and what they can hold
  MaxEdits    \* bound: edits by somebody else

VARIABLES
  controls,   \* per field: role, match_count, secure, editable
  changes,    \* the changes of the diff for the open record
  page, record, \* what the page shows, and what is committed
  steps, at,  \* the plan, and the step that is next
  lane,       \* "diff", "gate", "running", "done", "reverting", "reverted", "refused"
  outcome,    \* of executeBrowserPlan: halted, writes_applied, all_writes_verified
  revertable, \* what a revert would put back
  edits,
  held,       \* history: what each field held when the run wrote it,
  touched     \* the fields somebody else edited since the current plan started

laneVars == <<controls, changes, page, record, steps, at, lane, outcome, revertable, edits, held, touched>>

Plain == [role |-> "textbox", count |-> 1, secure |-> FALSE, editable |-> TRUE]
Controls == {Plain, [Plain EXCEPT !.role = "combobox"], [Plain EXCEPT !.count = 2],
             [Plain EXCEPT !.secure = TRUE], [Plain EXCEPT !.editable = FALSE]}
Clean == [halted |-> FALSE, writes |-> 0, verified |-> TRUE]
Unheld == [f \in Fields |-> None]

LaneInit ==
  /\ controls \in [Fields -> Controls] /\ changes = <<>> /\ steps = <<>> /\ at = 1
  /\ page \in [Fields -> Contents] /\ record = page
  /\ lane = "diff" /\ outcome = Clean /\ revertable = <<>>
  /\ held = Unheld /\ touched = {} /\ edits = 0

-----------------------------------------------------------------------------
(* The plan. *)

Step(kind, change) == [kind |-> kind, change |-> change]

\* planBrowserWrites: no plan for nothing, for a change that changes nothing, and for
\* two changes of one control.
PlanRefused(list) ==
  \/ list = <<>>
  \/ \E i \in DOMAIN list : list[i].from = list[i].to
  \/ \E i, j \in DOMAIN list : i # j /\ list[i].field = list[j].field

\* Every change is shown, set and read back; a select is read first, because it carries
\* no expected value.  After the save every change is read once more.
StepsFor(c) ==
  IF controls[c.field].role = "combobox"
  THEN <<Step("focus", c), Step("read", c), Step("select", c), Step("read", c)>>
  ELSE <<Step("focus", c), Step("set", c), Step("read", c)>>
Confirms(list) == <<Step("save", None)>> \o [i \in DOMAIN list |-> Step("read", list[i])]
PlanSteps(list, saves) ==
  FlattenSeq([i \in DOMAIN list |-> StepsFor(list[i])]) \o (IF saves THEN Confirms(list) ELSE <<>>)

\* changesForRecord, previewBrowserPlan: the changes of the diff for the record that is
\* open.  The page may have moved on since the diff was made.
PreviewBrowserPlan ==
  /\ lane = "diff"
  /\ \E list \in SeqOf([field : Fields, from : Contents, to : Contents], 2) :
       changes' = list /\ lane' = IF PlanRefused(list) THEN "refused" ELSE "gate"
  /\ UNCHANGED <<controls, page, record, steps, at, outcome, revertable, edits, held, touched>>

\* approve: the plan that was shown is the one that runs.
ApprovePlan ==
  /\ lane = "gate" /\ lane' = "running" /\ steps' = PlanSteps(changes, TRUE) /\ at' = 1
  /\ touched' = {}
  /\ UNCHANGED <<controls, changes, page, record, outcome, revertable, edits, held>>

-----------------------------------------------------------------------------
(* The page. *)

Writes(step) == step.kind \in {"set", "select", "save"}

\* Mutant: the page does not compare with expect_current.
ResolveRequestBlindly(step) ==
  LET c == controls[step.change.field]
  IN c.count = 1 /\ ~c.secure /\ (Writes(step) => c.editable)
\* matchingControls, resolveRequest, checkPreconditions: one visible control of that role
\* and name, not secure, editable for a write, and for set_value holding what is expected.
ResolveRequest(step) ==
  LET c == controls[step.change.field]
  IN /\ c.count = 1 /\ ~c.secure
     /\ Writes(step) => c.editable
     /\ step.kind = "set" => page[step.change.field] = step.change.from
PageTakes(step) == IF step.kind = "save" THEN TRUE ELSE ResolveRequest(step)

\* set_value, select_option: the script sets the value; the site may keep another one.
PageSets(step) ==
  \E kept \in {step.change.to, page[step.change.field]} :
    /\ page' = [page EXCEPT ![step.change.field] = kept]
    /\ held' = IF lane = "running" THEN [held EXCEPT ![step.change.field] = page[step.change.field]]
               ELSE held
    /\ UNCHANGED record

\* click_control on Save: the site commits what the page shows, or only a part of it.
PageSaves ==
  \E dropped \in SUBSET Fields :
    /\ record' = [f \in Fields |-> IF f \in dropped THEN record[f] ELSE page[f]]
    /\ page' = record' /\ UNCHANGED held

-----------------------------------------------------------------------------
(* executeBrowserPlan *)

Executing == lane \in {"running", "reverting"} /\ at <= Len(steps) /\ ~outcome.halted
Halt(verified) == outcome' = [outcome EXCEPT !.halted = TRUE, !.verified = verified]

\* Mutant: the value to put back is the one the diff predicted.
UndoPredicted(step) ==
  [change |-> step.change, before |-> step.change.from, wrote |-> step.change.to]
\* runBrowserPlan: what to put back is what the page held.
Undo(step) ==
  [change |-> step.change, before |-> page[step.change.field], wrote |-> step.change.to]

\* The page carries the step out and says so: a write that reads back, or a click, counts
\* as applied; a write that does not read back halts the run.  What a read shows is
\* recorded and nothing more.
StepAnswered ==
  /\ Executing /\ PageTakes(steps[at])
  /\ IF ~Writes(steps[at]) THEN UNCHANGED <<page, record, held, outcome, revertable>>
     ELSE IF steps[at].kind = "save"
     THEN /\ PageSaves /\ outcome' = [outcome EXCEPT !.writes = @ + 1] /\ UNCHANGED revertable
     ELSE /\ PageSets(steps[at])
          /\ LET ok == page'[steps[at].change.field] = steps[at].change.to
             IN outcome' = [halted |-> ~ok, writes |-> outcome.writes + 1,
                            verified |-> outcome.verified /\ ok]
          /\ revertable' = IF lane = "running" THEN Append(revertable, Undo(steps[at])) ELSE revertable
  /\ at' = at + 1
  /\ UNCHANGED <<controls, changes, steps, lane, edits, touched>>

\* The page refuses, or the gate on the device does not issue the request: the user is
\* away, has paused it, or the origin is not allowed.
StepRefused ==
  /\ Executing /\ Halt(outcome.verified /\ ~Writes(steps[at]))
  /\ UNCHANGED <<controls, changes, page, record, steps, at, lane, revertable, edits, held, touched>>

\* No answer in time: the write may have landed, it is not sent again.
StepLost ==
  /\ Executing /\ Halt(outcome.verified /\ ~Writes(steps[at]))
  /\ \/ UNCHANGED <<page, record, held>>
     \/ /\ PageTakes(steps[at]) /\ steps[at].kind \in {"set", "select"} /\ PageSets(steps[at])
     \/ steps[at].kind = "save" /\ PageSaves
  /\ UNCHANGED <<controls, changes, steps, at, lane, revertable, edits, touched>>

\* All steps ran or were skipped.
RunEnds ==
  /\ lane \in {"running", "reverting"} /\ (at > Len(steps) \/ outcome.halted)
  /\ lane' = IF lane = "running" THEN "done" ELSE "reverted"
  /\ UNCHANGED <<controls, changes, page, record, steps, at, outcome, revertable, edits, held, touched>>

\* revert, planRevert: last change first, each expecting what the run wrote.
Restorable == Chosen(revertable, {i \in DOMAIN revertable : revertable[i].before # revertable[i].wrote})
Undoing ==
  LET back == Reverse(Restorable)
  IN [i \in DOMAIN back |-> [field |-> back[i].change.field, from |-> back[i].wrote, to |-> back[i].before]]
Revert ==
  /\ lane = "done" /\ Restorable # <<>> /\ steps' = PlanSteps(Undoing, FALSE)
  /\ lane' = "reverting" /\ at' = 1 /\ outcome' = Clean /\ touched' = {}
  /\ UNCHANGED <<controls, changes, page, record, revertable, edits, held>>

\* Somebody else types into the page.
SomebodyEdits ==
  /\ lane \in {"gate", "running", "done", "reverting"} /\ edits < MaxEdits /\ edits' = edits + 1
  /\ \E f \in Fields, v \in Contents : v # page[f] /\ page' = [page EXCEPT ![f] = v] /\ touched' = touched \cup {f}
  /\ UNCHANGED <<controls, changes, record, steps, at, lane, outcome, revertable, held>>

LaneNext ==
  \/ PreviewBrowserPlan \/ ApprovePlan \/ StepAnswered \/ StepRefused \/ StepLost
  \/ RunEnds \/ Revert \/ SomebodyEdits

LaneSpec == LaneInit /\ [][LaneNext]_laneVars

-----------------------------------------------------------------------------
(* Properties. *)

\* A revert that ends without a halt has put every field the run wrote back to what the
\* page held at that moment, even where that is not what the diff had said.
RevertRestores ==
  (lane = "reverted" /\ ~outcome.halted) =>
    \A i \in DOMAIN Restorable :
      LET f == Restorable[i].change.field IN f \in touched \/ page[f] = held[f]

\* A text field whose content is not what the user was shown is never written, neither
\* by the run nor by its revert: somebody else's edit is not typed over.
NoBlindOverwrite ==
  [][\A f \in Fields :
       (page'[f] # page[f] /\ edits' = edits /\ steps[at].kind = "set") =>
         \E i \in DOMAIN changes :
           /\ changes[i].field = f
           /\ page[f] = IF lane = "running" THEN changes[i].from ELSE changes[i].to
    ]_laneVars

\* A run that ends without a halt and with every write verified has its changes on the
\* record (plan.ts: "only a read after it proves the value survived being committed").
\* TLC refutes it: what that read shows is recorded and compared with nothing.
CompletedMeansSaved ==
  (lane = "done" /\ ~outcome.halted /\ outcome.verified) =>
    \A i \in DOMAIN changes :
      changes[i].field \in touched \/ record[changes[i].field] = changes[i].to
==============================================================================
