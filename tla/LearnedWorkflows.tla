--------------------------- MODULE LearnedWorkflows ---------------------------
(***************************************************************************)
(* What the user taught (learnedWorkflows.ts): drafts seeded from an       *)
(* observed pattern as explain.ts reads it, the edits that complete them,  *)
(* and the file they are kept in, which the panel loads when it opens.     *)
(*                                                                         *)
(* The load and save commands run one at a time and are answered in order, *)
(* as in LocalSettings. Nothing else writes the file.                      *)
(***************************************************************************)
EXTENDS Values, SequencesExt

CONSTANTS
  Observations, \* canonical sequences of the patterns: sequences of tokens
  MaxDrafts, MaxTaughtEdits, MaxLoads, MaxInvoked \* bounds

VARIABLES
  shelf,        \* learned-workflows.json: [kind |-> "absent" or "unreadable"], or [kind |-> "list", works]
  workflows,    \* the store's workflows
  taughtLoad,   \* [hydrated, failed]: failed is loadFailure
  invoked,      \* commands not yet run: sequence of [kind, works]
  answered,     \* answers of load not yet taken
  nextId, taughtEdits, loads,
  early,        \* history: a workflow was touched before the first load settled
  foundAs       \* history: how the file was found

learnedVars == <<shelf, workflows, taughtLoad, invoked, answered, nextId, taughtEdits, loads, early, foundAs>>

-----------------------------------------------------------------------------
(* explainWorkflowSteps *)

\* capabilitiesForToken with the strongest mode of each capability, in catalog order; the tokens stand for the
\* classes the catalog tells apart.
Chains ==
  [look  |-> <<[browser |-> TRUE, mode |-> "read"]>>,
   edit  |-> <<[browser |-> TRUE, mode |-> "propose_write"], [browser |-> TRUE, mode |-> "write"]>>,
   paste |-> <<[browser |-> FALSE, mode |-> "propose_write"]>>,
   switch |-> <<>>, drag |-> <<>>]
ContextTokens == {"switch"}
ASSUME ObservationsAssumption == Observations \subseteq Seq(DOMAIN Chains)

AutomationFor(token) ==
  CASE Chains[token] # <<>> -> "automated"
    [] Chains[token] = <<>> /\ token \in ContextTokens -> "context"
    [] OTHER -> "manual"

\* Repeats collapse into one step.
Collapsed(sequence) == Chosen(sequence, {i \in DOMAIN sequence : i = 1 \/ sequence[i] # sequence[i - 1]})

-----------------------------------------------------------------------------
(* A learned workflow *)

\* draftFromCandidate: nothing observed gives a target or a value, and each is listed as missing.
DraftSteps(sequence) ==
  LET seen == Collapsed(sequence)
      work == Chosen(seen, {i \in DOMAIN seen : AutomationFor(seen[i]) = "automated"})
  IN [i \in DOMAIN work |->
        LET chosen == Head(Chains[work[i]])
        IN [browser |-> chosen.browser, mode |-> chosen.mode, target |-> FALSE, value |-> None,
            checked |-> chosen.mode # "read"]]

DraftFromCandidate(sequence, id) ==
  LET steps == DraftSteps(sequence)
  IN [id |-> id, pattern |-> sequence, version |-> 1, origin |-> FALSE, steps |-> steps, provenance |-> "observed",
      missing |-> {<<"origin", 0>>} \cup {<<"target", i>> : i \in DOMAIN steps}
                  \cup {<<"value", i>> : i \in {j \in DOMAIN steps : steps[j].mode # "read"}}]

\* workflowReadiness: what the record itself shows to be missing. A value is "given" or the index of the step
\* whose output it is.
StepQuestions(steps, i) ==
  LET s == steps[i]
  IN (IF s.browser /\ ~s.target THEN {<<"target", i>>} ELSE {})
     \cup (IF s.mode # "read" /\ s.value = None THEN {<<"value", i>>} ELSE {})
     \cup (IF s.mode # "read" /\ ~s.checked THEN {<<"success_condition", i>>} ELSE {})
     \cup (IF \E j \in i .. Len(steps) + 1 : s.value = <<"output", j>> THEN {<<"field_mapping", i>>} ELSE {})

OpenQuestions(w) ==
  (IF w.origin THEN {} ELSE {<<"origin", 0>>})
  \cup (IF w.steps = <<>> THEN {<<"workflow_definition", 0>>} ELSE {})
  \cup UNION {StepQuestions(w.steps, i) : i \in DOMAIN w.steps}
Ready(w) == w.missing \cup OpenQuestions(w) = {}

\* applyEdit: a new version, and what is missing worked out again.
ApplyEdit(w, edited) ==
  [edited EXCEPT !.version = w.version + 1, !.provenance = "user_configured", !.missing = OpenQuestions(edited)]

StepValues == {None, <<"given", 0>>, <<"output", 1>>, <<"output", 2>>}
ASSUME StepValuesAssumption == None \notin {"output"} \X Nat

\* What one edit may change: the site, the steps (one of them configured, or taken out)
WithStep(w, i, s) == [w EXCEPT !.steps = [@ EXCEPT ![i] = s]]
Edits(w) ==
  {[w EXCEPT !.origin = o] : o \in BOOLEAN}
  \cup UNION {{WithStep(w, i, [w.steps[i] EXCEPT !.target = t]) : t \in BOOLEAN}
              \cup {WithStep(w, i, [w.steps[i] EXCEPT !.value = v]) : v \in StepValues}
              \cup {WithStep(w, i, [w.steps[i] EXCEPT !.checked = c]) : c \in BOOLEAN}
              \cup {[w EXCEPT !.steps = RemoveAt(@, i)]}
              : i \in DOMAIN w.steps}

-----------------------------------------------------------------------------
(* The store *)

LearnedInit ==
  /\ shelf \in {[kind |-> "absent"], [kind |-> "unreadable"], [kind |-> "partly", works |-> <<>>]}
  /\ workflows = <<>> /\ taughtLoad = [hydrated |-> FALSE, failed |-> FALSE]
  /\ invoked = <<>> /\ answered = <<>> /\ nextId = 1 /\ taughtEdits = 0 /\ loads = 0 /\ early = FALSE
  /\ foundAs = shelf.kind

Hydrate ==
  /\ loads < MaxLoads /\ loads' = loads + 1
  /\ invoked' = Append(invoked, [kind |-> "load"])
  /\ UNCHANGED <<shelf, workflows, taughtLoad, answered, nextId, taughtEdits, early, foundAs>>

\* learned_workflows_load: a read may fail, whatever the file holds
LoadRuns(fails) ==
  /\ invoked # <<>> /\ Head(invoked).kind = "load" /\ invoked' = Tail(invoked)
  /\ answered' = Append(answered, IF fails THEN [kind |-> "unreadable"] ELSE shelf)
  /\ UNCHANGED <<shelf, workflows, taughtLoad, nextId, taughtEdits, loads, early, foundAs>>

\* parseWorkflowsFile and hydrate: of a file that is read in part, the records that parse are taken.
LoadSettles ==
  /\ answered # <<>> /\ answered' = Tail(answered)
  /\ LET load == Head(answered) IN
       /\ workflows' = IF load.kind \in {"list", "partly"} THEN load.works ELSE <<>>
       /\ taughtLoad' = [hydrated |-> TRUE, failed |-> load.kind = "unreadable"]
  /\ UNCHANGED <<shelf, invoked, nextId, taughtEdits, loads, early, foundAs>>

\* persist: refused while the last load failed; the list on the screen has changed by then.
Persist(works) ==
  invoked' = IF taughtLoad.failed THEN invoked ELSE Append(invoked, [kind |-> "save", works |-> works])
SaveRuns ==
  /\ invoked # <<>> /\ Head(invoked).kind = "save" /\ invoked' = Tail(invoked)
  /\ shelf' = [kind |-> "list", works |-> Head(invoked).works]
  /\ UNCHANGED <<workflows, taughtLoad, answered, nextId, taughtEdits, loads, early, foundAs>>

SetWorkflows(works) ==
  /\ Len(invoked) < MaxInvoked
  /\ workflows' = works /\ Persist(works)
  /\ early' = (early \/ ~taughtLoad.hydrated) /\ foundAs' = foundAs

StartFor(sequence) ==
  /\ nextId <= MaxDrafts /\ nextId' = nextId + 1
  /\ ~\E i \in DOMAIN workflows : workflows[i].pattern = sequence
  /\ SetWorkflows(Append(workflows, DraftFromCandidate(sequence, nextId)))
  /\ UNCHANGED <<shelf, taughtLoad, answered, taughtEdits, loads>>

UpdateWorkflow(i) ==
  /\ i \in DOMAIN workflows /\ taughtEdits < MaxTaughtEdits /\ taughtEdits' = taughtEdits + 1
  /\ \E edited \in Edits(workflows[i]) : SetWorkflows([workflows EXCEPT ![i] = ApplyEdit(workflows[i], edited)])
  /\ UNCHANGED <<shelf, taughtLoad, answered, nextId, loads>>

RemoveWorkflow(i) ==
  /\ i \in DOMAIN workflows /\ SetWorkflows(RemoveAt(workflows, i))
  /\ UNCHANGED <<shelf, taughtLoad, answered, nextId, taughtEdits, loads>>

TaughtNext ==
  \/ Hydrate \/ (\E fails \in BOOLEAN : LoadRuns(fails)) \/ LoadSettles \/ SaveRuns
  \/ \E o \in Observations : StartFor(o)
  \/ \E i \in 1..MaxDrafts : UpdateWorkflow(i) \/ RemoveWorkflow(i)

TaughtSpec == LearnedInit /\ [][TaughtNext]_learnedVars

-----------------------------------------------------------------------------
(* Properties *)

\* What a workflow needs to run, said of the record alone: a site, a step, and for each step its control, its value
\* from the user or an earlier step, and a check.
Complete(w) ==
  /\ w.origin /\ w.steps # <<>>
  /\ \A i \in DOMAIN w.steps :
       LET s == w.steps[i] IN
       /\ s.browser => s.target
       /\ s.mode # "read" => s.value # None /\ s.checked
       /\ s.value = None \/ s.value = <<"given", 0>> \/ \E j \in 1 .. i - 1 : s.value = <<"output", j>>

Listed(works) == {works[i] : i \in DOMAIN works}
Stored == Listed(workflows) \cup (IF shelf.kind = "list" THEN Listed(shelf.works) ELSE {})

\* A taught workflow is ready exactly when the user has answered every question it asks, whatever the order of the
\* edits, the taking out of steps included: none blocks on an answered question, and none that was only observed
\* is ready. A pattern has one workflow. And a file that could not be read is never written over, unless a
\* workflow was touched before the panel had loaded it.
TaughtIsHonest ==
  /\ \A w \in Stored :
       /\ Ready(w) => Complete(w) /\ w.provenance = "user_configured"
       /\ (w.provenance = "user_configured" /\ Complete(w)) => Ready(w)
  /\ \A i, j \in DOMAIN workflows : workflows[i].pattern = workflows[j].pattern => i = j
  /\ foundAs = "unreadable" /\ ~early => shelf.kind = "unreadable"
==============================================================================
