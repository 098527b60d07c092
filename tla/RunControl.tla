----------------------------- MODULE RunControl -----------------------------
(***************************************************************************)
(* The API's control of durable runs for one organisation: publishing an   *)
(* agent, triggering, approving, rejecting and cancelling a run, and the   *)
(* kill switch (apps/api/src/server.ts over packages/db/src/repositories.ts*)
(* and apps/api/src/orchestrator.ts).                                      *)
(*                                                                         *)
(* Every handler is a sequence of awaits on two stores that share no       *)
(* transaction, PostgreSQL and Temporal; other requests run between them   *)
(* and a crash of the API process cuts them off.  The workflow itself is   *)
(* AgentRun, reduced here to one gated write.                              *)
(*                                                                         *)
(* A trigger request draws a fresh run id, so a request also names its run.*)
(***************************************************************************)
EXTENDS Naturals, FiniteSets

CONSTANTS
  Agents, Keys,
  Runs,          \* trigger requests, and the run ids they draw
  PublishStates, \* states of the specs that are published
  MaxCrashes,    \* bound: crashes of the API process
  None

AgentStates == {"draft", "shadow", "supervised", "active", "paused", "degraded",
                "revoked", "archived"}

ASSUME PublishAssumption == PublishStates \subseteq AgentStates
ASSUME NoneIsNoRun == None \notin Runs
ASSUME CrashAssumption == MaxCrashes \in Nat

VARIABLES
  (* PostgreSQL *)
  agent,      \* agents.state, "none" for an agent never published
  row,        \* agent_runs.status, "none" for no row
  (* Trigger requests in the API process *)
  phase,      \* how far the request is
  key,        \* its trigger_idempotency_key
  target,     \* the agent it names
  answer,     \* the run id of its 200 answer, or None
  (* Approve and cancel requests, by run *)
  approving,  \* the pending approval was found to match
  cancelling, \* the cancel signal was accepted, the row not yet updated
  (* Temporal *)
  wf,         \* the workflow of a run
  approved, rejected, cancelled, \* signals its handlers accepted
  (* History *)
  wrote,      \* runs whose write reached the provider
  halted,     \* runs the kill switch marked cancelled
  crashes

tables == <<agent, row>>
trigger == <<phase, key, target, answer>>
handlers == <<approving, cancelling>>
signals == <<approved, rejected, cancelled>>
history == <<wrote, halted>>
vars == <<tables, trigger, handlers, wf, signals, history, crashes>>

Live == {"reading", "waiting", "writing"}

Init ==
  /\ agent = [a \in Agents |-> "none"] /\ row = [r \in Runs |-> "none"]
  /\ phase = [r \in Runs |-> "unsent"] /\ answer = [r \in Runs |-> None]
  /\ key \in [Runs -> Keys] /\ target \in [Runs -> Agents]
  /\ approving = {} /\ cancelling = {}
  /\ wf = [r \in Runs |-> "none"]
  /\ approved = {} /\ rejected = {} /\ cancelled = {}
  /\ wrote = {} /\ halted = {} /\ crashes = 0

-----------------------------------------------------------------------------
(* POST /v1/agents *)

\* persistCompiledAgent: the published spec's state replaces the stored one.
Publish(a, s) ==
  /\ agent' = [agent EXCEPT ![a] = s]
  /\ UNCHANGED <<row, trigger, handlers, wf, signals, history, crashes>>

-----------------------------------------------------------------------------
(* POST /v1/agents/:id/runs *)

Move(r, p) == phase' = [phase EXCEPT ![r] = p]

\* getCurrentAgentSpec: an unknown agent is refused; the state is not looked at.
Lookup(r) ==
  /\ phase[r] = "unsent"
  /\ Move(r, IF agent[target[r]] = "none" THEN "refused" ELSE "found")
  /\ UNCHANGED <<tables, key, target, answer, handlers, wf, signals, history, crashes>>

\* The run a key is already taken by.
Holders(k) == {r \in Runs : row[r] # "none" /\ key[r] = k}

\* Mutant: no unique constraint on the key.
CreateRunAlways(r) ==
  /\ phase[r] = "found"
  /\ row' = [row EXCEPT ![r] = "queued"] /\ Move(r, "created")
  /\ UNCHANGED <<agent, key, target, answer, handlers, wf, signals, history,
                 crashes>>

\* Mutant: a duplicate is answered with the run id just drawn.
CreateRunOwnId(r) ==
  /\ phase[r] = "found"
  /\ IF Holders(key[r]) = {}
       THEN row' = [row EXCEPT ![r] = "queued"] /\ Move(r, "created")
            /\ UNCHANGED answer
       ELSE answer' = [answer EXCEPT ![r] = r] /\ Move(r, "duplicate")
            /\ UNCHANGED row
  /\ UNCHANGED <<agent, key, target, handlers, wf, signals, history, crashes>>

\* createRun: one transaction, deduplicated on the key.  A duplicate is answered
\* with the run that holds the key.
CreateRun(r) ==
  /\ phase[r] = "found"
  /\ IF Holders(key[r]) = {}
       THEN row' = [row EXCEPT ![r] = "queued"] /\ Move(r, "created")
            /\ UNCHANGED answer
       ELSE /\ answer' = [answer EXCEPT ![r] = CHOOSE h \in Holders(key[r]) : TRUE]
            /\ Move(r, "duplicate") /\ UNCHANGED row
  /\ UNCHANGED <<agent, key, target, handlers, wf, signals, history, crashes>>

\* Mutant: the answer does not wait for the start.
StartRunUnawaited(r) ==
  /\ phase[r] = "created"
  /\ answer' = [answer EXCEPT ![r] = r] /\ Move(r, "started")
  /\ UNCHANGED <<tables, key, target, handlers, wf, signals, history, crashes>>

\* startRun: Temporal accepts the workflow, the request is answered.
StartRun(r) ==
  /\ phase[r] = "created"
  /\ wf' = [wf EXCEPT ![r] = "reading"]
  /\ answer' = [answer EXCEPT ![r] = r] /\ Move(r, "started")
  /\ UNCHANGED <<tables, key, target, handlers, signals, history, crashes>>

\* startRun throws, before or after Temporal accepted the workflow: answered 500.
StartRunThrows(r) ==
  /\ phase[r] = "created"
  /\ \E w \in {"none", "reading"} : wf' = [wf EXCEPT ![r] = w]
  /\ Move(r, "failed")
  /\ UNCHANGED <<tables, key, target, answer, handlers, signals, history, crashes>>

-----------------------------------------------------------------------------
(* POST /v1/runs/:id/approve, reject, cancel.  loadOwnRun needs the row. *)

\* The pending approval is queried and found to match.
ApproveMatches(r) ==
  /\ row[r] # "none" /\ wf[r] = "waiting"
  /\ approving' = approving \cup {r}
  /\ UNCHANGED <<tables, trigger, cancelling, wf, signals, history, crashes>>

\* The approval is signalled; the workflow takes it only if it still waits.
ApproveSignals(r) ==
  /\ r \in approving
  /\ approving' = approving \ {r}
  /\ approved' = IF wf[r] = "waiting" THEN approved \cup {r} ELSE approved
  /\ UNCHANGED <<tables, trigger, cancelling, wf, rejected, cancelled, history,
                 crashes>>

Reject(r) ==
  /\ row[r] # "none" /\ wf[r] = "waiting"
  /\ rejected' = rejected \cup {r}
  /\ UNCHANGED <<tables, trigger, handlers, wf, approved, cancelled, history,
                 crashes>>

\* Mutant: the row is updated before the signal is sent.
CancelSignalsLate(r) ==
  /\ row[r] # "none"
  /\ row' = [row EXCEPT ![r] = "cancelled"]
  /\ cancelled' = IF wf[r] \in Live THEN cancelled \cup {r} ELSE cancelled
  /\ UNCHANGED <<agent, trigger, handlers, wf, approved, rejected, history, crashes>>

\* The cancel signal is accepted.  A run with no open workflow makes it throw:
\* answered 500, the row is left alone.
CancelSignals(r) ==
  /\ row[r] # "none" /\ wf[r] \in Live
  /\ cancelled' = cancelled \cup {r} /\ cancelling' = cancelling \cup {r}
  /\ UNCHANGED <<tables, trigger, approving, wf, approved, rejected, history,
                 crashes>>

\* updateRunStatus, whatever became of the run meanwhile.
CancelUpdatesRow(r) ==
  /\ r \in cancelling
  /\ cancelling' = cancelling \ {r}
  /\ row' = [row EXCEPT ![r] = "cancelled"]
  /\ UNCHANGED <<agent, trigger, approving, wf, signals, history, crashes>>

-----------------------------------------------------------------------------
(* POST /v1/admin/kill-switch *)

Haltable == {r \in Runs : row[r] = "queued"}
Pausable == {"shadow", "supervised", "active"}

\* engageKillSwitch: one transaction on the tables; no workflow is signalled.
KillSwitch ==
  /\ agent' = [a \in Agents |-> IF agent[a] \in Pausable THEN "paused" ELSE agent[a]]
  /\ row' = [r \in Runs |-> IF r \in Haltable THEN "cancelled" ELSE row[r]]
  /\ halted' = halted \cup Haltable
  /\ UNCHANGED <<trigger, handlers, wf, signals, wrote, crashes>>

-----------------------------------------------------------------------------
(* The durable workflow, and the API process. *)

Advance(r, s) == wf' = [wf EXCEPT ![r] = s]

\* The reads and the proposal are done: the gate opens.
OpensGate(r) ==
  /\ wf[r] = "reading" /\ Advance(r, "waiting")
  /\ UNCHANGED <<tables, trigger, handlers, signals, history, crashes>>

\* The run ends before its gate: a failure, the policy, a cancellation.
EndsEarly(r) ==
  /\ wf[r] = "reading" /\ Advance(r, "ended")
  /\ UNCHANGED <<tables, trigger, handlers, signals, history, crashes>>

\* The gate is decided, or its timer fires.
PassesGate(r) ==
  /\ wf[r] = "waiting"
  /\ Advance(r, IF r \in approved \ (rejected \cup cancelled) THEN "writing"
                ELSE "ended")
  /\ UNCHANGED <<tables, trigger, handlers, signals, history, crashes>>

\* The write attempt ends, having reached the provider or not.
Writes(r) ==
  /\ wf[r] = "writing" /\ Advance(r, "ended")
  /\ \E w \in {{}, {r}} : wrote' = wrote \cup w
  /\ UNCHANGED <<tables, trigger, handlers, signals, halted, crashes>>

\* The API process dies: what its handlers had not done yet is never done.
ApiCrash ==
  /\ crashes < MaxCrashes /\ crashes' = crashes + 1
  /\ phase' = [r \in Runs |-> IF phase[r] \in {"found", "created"} THEN "cut"
                              ELSE phase[r]]
  /\ approving' = {} /\ cancelling' = {}
  /\ UNCHANGED <<tables, key, target, answer, wf, signals, history>>

-----------------------------------------------------------------------------
Handler(r) == CreateRun(r) \/ StartRun(r) \/ StartRunThrows(r)
              \/ ApproveSignals(r) \/ CancelUpdatesRow(r)
Request(r) == Lookup(r) \/ ApproveMatches(r) \/ Reject(r) \/ CancelSignals(r)
Workflow(r) == OpensGate(r) \/ EndsEarly(r) \/ PassesGate(r) \/ Writes(r)

Next == \/ \E r \in Runs : Handler(r) \/ Request(r) \/ Workflow(r)
        \/ \E a \in Agents, s \in PublishStates : Publish(a, s)
        \/ KillSwitch \/ ApiCrash

\* Event loop and Temporal go on; nobody has to send a request.
Fairness == \A r \in Runs : WF_vars(Handler(r)) /\ WF_vars(Workflow(r))

Spec == Init /\ [][Next]_vars /\ Fairness

-----------------------------------------------------------------------------
(* Properties. *)

\* Every variable keeps its type.
TypeOK ==
  /\ agent \in [Agents -> AgentStates \cup {"none"}]
  /\ row \in [Runs -> {"none", "queued", "cancelled"}]
  /\ phase \in [Runs -> {"unsent", "refused", "found", "created", "duplicate",
                         "started", "failed", "cut"}]
  /\ key \in [Runs -> Keys] /\ target \in [Runs -> Agents]
  /\ answer \in [Runs -> {None} \cup Runs]
  /\ approving \subseteq Runs /\ cancelling \subseteq Runs
  /\ wf \in [Runs -> Live \cup {"none", "ended"}]
  /\ approved \subseteq Runs /\ rejected \subseteq Runs /\ cancelled \subseteq Runs
  /\ wrote \subseteq Runs /\ halted \subseteq Runs
  /\ crashes \in Nat

\* However requests with the same trigger key interleave, crash and are retried,
\* at most one of them starts a workflow, so a trigger writes at most once.
OneWorkflowPerKey ==
  \A r, s \in Runs :
    wf[r] # "none" /\ wf[s] # "none" /\ key[r] = key[s] => r = s

\* All 200 answers to one trigger key name one run, and a workflow of that key,
\* if there is one, is that run's.
AnswersAgree ==
  \A r, s \in Runs :
    answer[r] # None /\ key[r] = key[s] =>
      /\ answer[s] \in {None, answer[r]}
      /\ wf[s] # "none" => s = answer[r]

\* A row that says "cancelled" without the kill switch belongs to a workflow that
\* was told to cancel, also when the cancel request was cut off halfway.
CancelledRowsWereSignalled ==
  \A r \in Runs : row[r] = "cancelled" => r \in cancelled \cup halted

\* Every run a trigger request freshly answered for comes to an end.
AnsweredRunsEnd == \A r \in Runs : (answer[r] = r) ~> (wf[r] = "ended")

-----------------------------------------------------------------------------
(* What the documents and comments say; the code does not keep these. *)

\* ADR-0003: the kill switch halts in-flight runs for the org.  A run it has
\* marked cancelled writes nothing from then on.
KillSwitchHaltsRuns == [][halted \cap wrote' \subseteq wrote]_vars

\* The comments on the trigger route: it starts the durable workflow, and a repeated
\* key returns that run.  Once the request that created the run is over, a repeated
\* request is answered with a run that was started.
DuplicatesNameStartedRuns ==
  \A r, s \in Runs :
    phase[r] = "duplicate" /\ answer[r] = s /\ phase[s] # "created" => wf[s] # "none"
=============================================================================
