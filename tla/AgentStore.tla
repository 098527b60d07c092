------------------------------ MODULE AgentStore ------------------------------
(***************************************************************************)
(* The agents file and the store that caches it in the panel, with the     *)
(* creation of an agent (apps/desktop/src/lib/agents.ts, agentService.ts,  *)
(* the Agents screen).                                                     *)
(*                                                                         *)
(* Every mutation computes the whole list, awaits the save and only then   *)
(* publishes the list; saves are carried out in the order in which they    *)
(* were asked for.                                                         *)
(***************************************************************************)
EXTENDS Values

CONSTANTS
  Agents,
  Threshold,   \* autonomy_min_approved_runs
  MaxRuns, MaxSaves, MaxStarts \* bounds

ASSUME StoreAssumption ==
  /\ Threshold \in Nat \ {0} /\ MaxRuns \in Nat /\ MaxSaves \in Nat /\ MaxStarts \in Nat
  /\ None \notin Agents

VARIABLES
  file, damaged,       \* agents.json, and whether it cannot be understood
  agents, loadFailure, \* the store of the panel
  saves,       \* its mutations whose save is not answered yet, oldest first
  reading,     \* what a hydrate call has read and not published yet
  panel,       \* "off", "booting" until the store is hydrated, then "on"
  creating,    \* the agent in createAgentAndActivate, and its phase
  originGranted, \* the trace's origin is in browser_actuation_origins
  approvals, starts \* history: the approved runs; starts of the app

saved == <<file, damaged>>
store == <<agents, loadFailure, saves, reading>>
storeVars == <<saved, store, panel, creating, originGranted, approvals, starts>>

\* An agent record: lifecycle state, approved_runs, draft_autonomy.
Record == [state : {"draft", "shadow", "archived"}, runs : 0..MaxRuns, auto : BOOLEAN]

NoAgents == [a \in Agents |-> None]
Nobody == [agent |-> None, phase |-> "idle"]
NewDraft == [state |-> "draft", runs |-> 0, auto |-> FALSE]

\* The app is closed; the file is what an earlier session left.
StoreInit ==
  /\ file \in [Agents -> {None, [NewDraft EXCEPT !.state = "shadow"]}]
  /\ damaged \in BOOLEAN
  /\ agents = NoAgents /\ loadFailure = FALSE /\ saves = <<>> /\ reading = None
  /\ panel = "off" /\ creating = Nobody /\ originGranted = FALSE
  /\ approvals = [a \in Agents |-> 0] /\ starts = 0

OpenApp ==
  /\ panel = "off" /\ starts < MaxStarts
  /\ panel' = "booting" /\ starts' = starts + 1
  /\ UNCHANGED <<saved, store, creating, originGranted, approvals>>

\* The app is quit or dies: what is not in the file is gone.
QuitApp ==
  /\ panel # "off" /\ panel' = "off"
  /\ agents' = NoAgents /\ loadFailure' = FALSE /\ saves' = <<>> /\ reading' = None
  /\ creating' = Nobody
  /\ UNCHANGED <<saved, originGranted, approvals, starts>>

-----------------------------------------------------------------------------
(* hydrate, persist *)

\* hydrate reads the file (loadRaw, parseAgentsFile): at boot, and whenever the
\* Agents screen is opened.
HydrateReads ==
  /\ panel # "off" /\ reading = None
  /\ \E readable \in BOOLEAN :
       reading' = [ok |-> readable /\ ~damaged,
                   list |-> IF readable /\ ~damaged THEN file ELSE NoAgents]
  /\ UNCHANGED <<saved, agents, loadFailure, saves, panel, creating, originGranted, approvals, starts>>

\* ... and publishes what it read, whatever was saved in the meantime.
HydrateSets ==
  /\ reading # None /\ reading' = None
  /\ agents' = reading.list /\ loadFailure' = ~reading.ok /\ panel' = "on"
  /\ UNCHANGED <<saved, saves, creating, originGranted, approvals, starts>>

\* persist throws while the file is not understood; otherwise the list is put into
\* JSON at once, and published when the save is answered.
Persist(list, a, next) ==
  IF loadFailure THEN UNCHANGED saves
  ELSE /\ Len(saves) < MaxSaves
       /\ saves' = Append(saves, [json |-> list, list |-> list, target |-> a,
                                  next |-> next, written |-> FALSE])

\* agents_save
SaveWrites ==
  /\ \E n \in 1..Len(saves) :
       /\ ~saves[n].written /\ \A m \in 1..(n - 1) : saves[m].written
       /\ file' = saves[n].json /\ damaged' = FALSE
       /\ saves' = [saves EXCEPT ![n].written = TRUE]
  /\ UNCHANGED <<agents, loadFailure, reading, panel, creating, originGranted, approvals, starts>>

\* The answer: the list that was saved replaces the one in memory, whatever became
\* of that in the meantime.
SaveAnswered ==
  /\ saves # <<>> /\ Head(saves).written
  /\ agents' = Head(saves).list /\ saves' = Tail(saves)
  /\ creating' = IF Head(saves).next # None THEN [creating EXCEPT !.phase = Head(saves).next] ELSE creating
  /\ UNCHANGED <<saved, loadFailure, reading, panel, originGranted, approvals, starts>>

\* The write fails: the mutation throws, and with it the creation it was part of.
SaveFails ==
  /\ saves # <<>> /\ ~Head(saves).written /\ saves' = Tail(saves)
  /\ creating' = IF Head(saves).next # None THEN Nobody ELSE creating
  /\ UNCHANGED <<saved, agents, loadFailure, reading, panel, originGranted, approvals, starts>>

-----------------------------------------------------------------------------
(* Mutations. *)

\* What a mutation leaves alone.
Rest == UNCHANGED <<saved, loadFailure, reading, panel, starts>>

\* setState, recordApprovedRun, grantDraftAutonomy, recordRuntimeActivity: a list
\* with a changed copy of one record.
Change(a, record) == Persist([agents EXCEPT ![a] = record], a, None) /\ UNCHANGED agents

\* editDescription and finalizeCreation change the record itself before they save:
\* lists not published yet that hold the same object see the change too.
ChangeInPlace(a, record, next) ==
  /\ agents' = [agents EXCEPT ![a] = record]
  /\ IF loadFailure THEN UNCHANGED saves
     ELSE /\ Len(saves) < MaxSaves
          /\ \E shared \in SUBSET {n \in 1..Len(saves) : saves[n].target # a} :
               saves' = Append([n \in 1..Len(saves) |->
                                  IF n \in shared THEN [saves[n] EXCEPT !.list[a] = record]
                                  ELSE saves[n]],
                               [json |-> agents', list |-> agents', target |-> a,
                                next |-> next, written |-> FALSE])

\* The Agents screen shows the agents that are not archived.
Visible(a) == panel = "on" /\ ~loadFailure /\ agents[a] # None /\ agents[a].state # "archived"

ArchiveAgent(a) ==
  /\ Visible(a) /\ Change(a, [agents[a] EXCEPT !.state = "archived"])
  /\ Rest /\ UNCHANGED <<creating, originGranted, approvals>>

EditDescription(a) ==
  /\ Visible(a) /\ ChangeInPlace(a, [agents[a] EXCEPT !.state = "shadow"], None)
  /\ Rest /\ UNCHANGED <<creating, originGranted, approvals>>

\* The runtime had a trigger or a run: saved without anyone waiting for it, also
\* when the list does not hold the agent.
RecordRuntimeActivity(a) ==
  /\ panel = "on" /\ ~loadFailure /\ Change(a, agents[a])
  /\ Rest /\ UNCHANGED <<creating, originGranted, approvals>>

\* An approved run completed.
RecordApprovedRun(a) ==
  /\ Visible(a) /\ approvals[a] < MaxRuns
  /\ Change(a, [agents[a] EXCEPT !.runs = @ + 1])
  /\ approvals' = [approvals EXCEPT ![a] = @ + 1]
  /\ Rest /\ UNCHANGED <<creating, originGranted>>

\* Mutant: the meter's limit is off by one.
MeterFullEarly(a) == agents[a].runs + 1 >= Threshold
\* AutonomyMeter: the Grant button is there once the meter is full.
MeterFull(a) == agents[a].runs >= Threshold
GrantDraftAutonomy(a) ==
  /\ Visible(a) /\ ~agents[a].auto /\ MeterFull(a)
  /\ Change(a, [agents[a] EXCEPT !.auto = TRUE])
  /\ Rest /\ UNCHANGED <<creating, originGranted, approvals>>

-----------------------------------------------------------------------------
(* createAgentAndActivate; ids are never used twice. *)

\* createDraft, createFromSpec: the agent goes into the list as a draft.  Nothing
\* waits for the store to be hydrated.
AddDraft(a) ==
  /\ Persist([agents EXCEPT ![a] = NewDraft], a, "saved")
  /\ creating' = [agent |-> a, phase |-> "drafting"]

\* compileFromRepresentativeTrace: an origin that is not granted is asked for and the
\* creation ends; a trace that does not compile ends it too; without a trace the
\* pattern itself is compiled.
CompileFromTrace(a) ==
  /\ panel # "off" /\ ~loadFailure /\ creating = Nobody
  /\ \A list \in {agents, file} \cup {saves[n].json : n \in 1..Len(saves)} : list[a] = None
  /\ \/ creating' = [agent |-> a, phase |-> "pattern"] /\ UNCHANGED saves
     \/ originGranted /\ AddDraft(a)
  /\ Rest /\ UNCHANGED <<agents, originGranted, approvals>>

\* grantOriginAndRetry: the one origin is granted, and the creation starts again.
GrantOrigin ==
  /\ panel # "off" /\ creating = Nobody /\ ~originGranted /\ originGranted' = TRUE
  /\ Rest /\ UNCHANGED <<agents, saves, creating, approvals>>

\* createDraft, with what compileAgentSpec answers.
CreateDraft(a) ==
  /\ creating = [agent |-> a, phase |-> "pattern"]
  /\ \/ creating' = Nobody /\ UNCHANGED saves
     \/ ~loadFailure /\ AddDraft(a)
     \/ loadFailure /\ creating' = Nobody /\ UNCHANGED saves
  /\ Rest /\ UNCHANGED <<agents, originGranted, approvals>>

\* finalizeCreation: null when the list does not hold the agent any more.
Finalize(a) ==
  /\ creating = [agent |-> a, phase |-> "saved"]
  /\ IF agents[a] = None
     THEN creating' = Nobody /\ UNCHANGED <<agents, saves>>
     ELSE /\ ChangeInPlace(a, [agents[a] EXCEPT !.state = "shadow"], "final")
          /\ creating' = IF loadFailure THEN Nobody ELSE [agent |-> a, phase |-> "finalizing"]
  /\ Rest /\ UNCHANGED <<originGranted, approvals>>

\* browserAutomationReady, registerAgent: registered, and the runtime has its
\* activity saved; or refused, and the record goes back to draft.
Register(a) ==
  /\ creating = [agent |-> a, phase |-> "final"] /\ creating' = Nobody
  /\ \/ Change(a, agents[a])
     \/ Change(a, IF agents[a] = None THEN None ELSE [agents[a] EXCEPT !.state = "draft"])
  /\ Rest /\ UNCHANGED <<originGranted, approvals>>

StoreNext ==
  \/ OpenApp \/ QuitApp \/ HydrateReads \/ HydrateSets
  \/ SaveWrites \/ SaveAnswered \/ SaveFails \/ GrantOrigin
  \/ \E a \in Agents : \/ ArchiveAgent(a) \/ EditDescription(a) \/ RecordRuntimeActivity(a)
                       \/ RecordApprovedRun(a) \/ GrantDraftAutonomy(a)
                       \/ CompileFromTrace(a) \/ CreateDraft(a) \/ Finalize(a) \/ Register(a)

StoreSpec == StoreInit /\ [][StoreNext]_storeVars

-----------------------------------------------------------------------------
(* Properties. *)

Lists == {file, agents} \cup {saves[n].json : n \in 1..Len(saves)}
           \cup {saves[n].list : n \in 1..Len(saves)}
           \cup (IF reading = None THEN {} ELSE {reading.list})

\* However mutations, reads of the file, failed saves and restarts overlap, no copy of
\* a record counts more approved runs than there were, and no agent has draft autonomy
\* before that many runs were approved: lost updates only ever lower the meter.
AutonomyIsEarned ==
  \A list \in Lists : \A a \in Agents : list[a] # None =>
    /\ list[a].runs <= approvals[a]
    /\ list[a].auto => approvals[a] >= Threshold

\* A file that nobody has understood is not saved over.
DamagedFileKept == [][damaged => damaged']_storeVars
==============================================================================
