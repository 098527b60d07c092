------------------------------ MODULE AgentRun ------------------------------
(***************************************************************************)
(* The durable agent run: the Temporal workflow `agentRunWorkflow`         *)
(* (packages/agent-runtime/src/workflow.ts), the worker activities it      *)
(* calls (apps/worker/src/activities.ts), the step engine behind them      *)
(* (packages/agent-runtime/src/run-engine.ts) and the provider adapter     *)
(* that performs the write (packages/connector-adapters/src/salesforce.ts).*)
(*                                                                         *)
(* The workflow's variables are durable (replayed from history); the       *)
(* worker's run cache and idempotency store are memory and vanish with a   *)
(* restart; an activity may time out while its attempt keeps running.      *)
(*                                                                         *)
(* A diff is the set of field changes it proposes, each on a record of its *)
(* own (one PATCH).  Its hash is taken to be injective, so a diff also     *)
(* stands for its hash.                                                    *)
(***************************************************************************)
EXTENDS Integers, FiniteSets

CONSTANTS
  N,            \* number of steps of an agent spec
  Plans,        \* the specs considered: functions from 1..N to steps
  Changes,      \* field changes a proposal may contain
  Owned,        \* the changes whose field the write adapter owns
  ReadAttempts, \* retry limit of read activities (3 in the code)
  BookAttempts, \* retry limit of bookkeeping activities (5 in the code)
  MaxRestarts,  \* bound: worker restarts per behaviour
  MaxApprovals, \* bound: approve signals per behaviour
  None          \* null

Steps == 1..N
Diffs == SUBSET Changes
StepType == [mode : {"read", "propose_write", "write"}, approval : BOOLEAN]

ASSUME NAssumption == N \in Nat \ {0}
ASSUME PlansAssumption == Plans \subseteq [Steps -> StepType]
ASSUME ChangesAssumption == IsFiniteSet(Changes) /\ Owned \subseteq Changes
ASSUME NoneAssumption ==
  \A d \in Diffs : d # None /\ \A i \in Steps : <<i, d>> # None
ASSUME AttemptsAssumption ==
  /\ ReadAttempts \in Nat \ {0} /\ BookAttempts \in Nat \ {0}
  /\ MaxRestarts \in Nat /\ MaxApprovals \in Nat

VARIABLES
  (* The workflow: durable. *)
  plan,         \* the immutable spec snapshot, steps by order
  mode,         \* run.mode
  inputsReady,  \* whether run.agent_inputs satisfy the spec
  pc,           \* the await the workflow is parked at
  step,         \* number of the current step, 0 before the first
  attempt,      \* attempt of the activity being awaited
  status,       \* what get_status answers
  summaries,    \* stepSummaries, "none" for a step not yet begun
  pending,      \* pendingApproval: <<step, diff>> or None
  approval,     \* the approval the handler accepted, or None
  rejection, cancellation,
  lastDiff,     \* lastDiff and, being its hash, lastDiffSha
  outputs,      \* the first proposal as carried in workflow outputs
  warnings, receipt,
  (* The worker process: volatile. *)
  policyDeny,   \* verdict of the policy compiled into the worker
  cache,        \* runState entry: None, or its copy of the first proposal
  ledger,       \* idempotency store: <<step, diff>> keys applied
  inflight,     \* the awaited write attempt has been picked up
  wphase,       \* the write attempt executing in the worker: how far it is,
  wstep, wdiff, \* the step and the diff it works on
  wtodo,        \* and the changes it has yet to apply
  restarts,
  (* The provider and the people: what really happened. *)
  patched,      \* times step i's write applied change c
  bound,        \* diff handed to step i's write, or None
  checked,      \* what the read-back after step i's write found
  consents,     \* every <<step, diff>> an approver approved
  approvals,    \* approve signals sent
  lastWritable  \* last step a cancel leaves free to write (N: no cancel)

durable == <<plan, mode, inputsReady>>
flow == <<pc, step, attempt, status, summaries>>
gate == <<pending, approval, rejection, cancellation>>
data == <<lastDiff, outputs, warnings, receipt>>
writer == <<wphase, wstep, wdiff, wtodo>>
worker == <<policyDeny, cache, ledger, inflight, writer, restarts>>
world == <<patched, bound, checked>>
people == <<consents, approvals, lastWritable>>
vars == <<durable, flow, gate, data, worker, world, people>>

-----------------------------------------------------------------------------
(* Activity retry policies. *)

\* Mutant: writes retried like other activities.
WriteAttemptsRetried == 2

\* Writes get exactly one attempt from Temporal.
WriteAttempts == 1

BookPcs == {"bk_validating", "bk_read", "bk_result", "bk_readfail", "bk_skip",
            "bk_gate", "bk_approval", "bk_apply", "bk_verify", "bk_written"}
Pcs == BookPcs \cup {"policy", "loop", "exec_read", "waiting", "recheck",
                     "exec_write", "finalize", "done", "aborted"}
Final == {"completed", "completed_with_warnings", "failed", "cancelled",
          "expired", "policy_blocked"}
Statuses == Final \cup {"validating", "running_read", "preparing_diff",
                        "waiting_approval", "applying_write", "verifying"}
Open == pc \notin {"done", "aborted"}

Init ==
  /\ plan \in Plans /\ mode \in {"shadow", "supervised", "active"}
  /\ inputsReady \in BOOLEAN
  /\ pc = "bk_validating" /\ step = 0 /\ attempt = 1
  /\ status = "validating" /\ summaries = [i \in Steps |-> "none"]
  /\ pending = None /\ approval = None
  /\ rejection = FALSE /\ cancellation = FALSE
  /\ lastDiff = None /\ outputs = None /\ warnings = FALSE /\ receipt = None
  /\ policyDeny \in BOOLEAN /\ cache = None /\ ledger = {}
  /\ inflight = FALSE /\ restarts = 0
  /\ wphase = "idle" /\ wstep = 1 /\ wdiff = {} /\ wtodo = {}
  /\ patched = [i \in Steps |-> [c \in Changes |-> 0]]
  /\ bound = [i \in Steps |-> None]
  /\ checked = [i \in Steps |-> "none"]
  /\ consents = {} /\ approvals = 0 /\ lastWritable = N

-----------------------------------------------------------------------------
(* Shared parts of the workflow's actions. *)

\* Parks the workflow at await p with a fresh activity.
Goto(p) == pc' = p /\ attempt' = 1

\* finish(): the final status is published, then finalizeRun is awaited.
Finish(s) == Goto("finalize") /\ status' = s

\* No write attempt is left in the worker.
NoWriter == wphase' = "idle" /\ wstep' = 1 /\ wdiff' = {} /\ wtodo' = {}

Mark(i, s) == summaries' = [summaries EXCEPT ![i] = s]

Proposes(i) == plan[i].mode = "propose_write"
FirstProposal(i) == Proposes(i) /\ \A j \in Steps : Proposes(j) => i <= j

\* An activity merges the workflow's outputs over the cached ones.
Merged == IF outputs # None THEN outputs ELSE cache

-----------------------------------------------------------------------------
(* Signals.  Each handler runs whenever the workflow is open. *)

\* Mutant: the handler compares only the diff hash.
ApproveHashOnly(i, d) ==
  /\ Open /\ approvals < MaxApprovals
  /\ approval' = IF pending # None /\ pending[2] = d THEN <<i, d>> ELSE approval
  /\ consents' = consents \cup {<<i, d>>} /\ approvals' = approvals + 1
  /\ UNCHANGED <<durable, flow, pending, rejection, cancellation, data, worker,
                 world, lastWritable>>

\* approve_step: accepted only for the pending step AND its diff hash.
Approve(i, d) ==
  /\ Open /\ approvals < MaxApprovals
  /\ approval' = IF pending = <<i, d>> THEN <<i, d>> ELSE approval
  /\ consents' = consents \cup {<<i, d>>} /\ approvals' = approvals + 1
  /\ UNCHANGED <<durable, flow, pending, rejection, cancellation, data, worker,
                 world, lastWritable>>

\* reject_step: accepted only for the pending step.
Reject(i) ==
  /\ Open /\ ~rejection
  /\ pending # None /\ pending[1] = i
  /\ rejection' = TRUE
  /\ UNCHANGED <<durable, flow, pending, approval, cancellation, data, worker,
                 world, people>>

\* Where the current step has not been let through to its write yet.
BeforeWrite == {"bk_read", "exec_read", "bk_result", "bk_readfail", "bk_skip",
                "bk_gate", "bk_approval", "waiting"}

\* Mutant: the handler publishes the final status itself.
CancelPublishesStatus ==
  /\ Open /\ ~cancellation
  /\ cancellation' = TRUE /\ status' = "cancelled"
  /\ lastWritable' = IF pc \in BeforeWrite THEN step - 1 ELSE step
  /\ UNCHANGED <<durable, pc, step, attempt, summaries, pending, approval,
                 rejection, data, worker, world, consents, approvals>>

\* cancel_run: recorded at any time, looked at only between steps and at the gate.
Cancel ==
  /\ Open /\ ~cancellation
  /\ cancellation' = TRUE
  /\ lastWritable' = IF pc \in BeforeWrite THEN step - 1 ELSE step
  /\ UNCHANGED <<durable, flow, pending, approval, rejection, data, worker,
                 world, consents, approvals>>

-----------------------------------------------------------------------------
(* Bookkeeping activities: awaited, retried, their results unused. *)

\* recordRunStatus, createApproval or recordStepResult completes: the workflow
\* goes on to the next await.
Bookkept ==
  /\ \/ pc = "bk_validating" /\ Goto("policy")
     \/ pc = "bk_read" /\ Goto("exec_read")
     \/ pc = "bk_gate" /\ Goto("bk_approval")
     \/ pc = "bk_approval" /\ Goto("waiting")
     \/ pc = "bk_apply" /\ Goto("exec_write")
     \/ pc \in {"bk_result", "bk_skip", "bk_written"} /\ Goto("loop")
  /\ UNCHANGED <<durable, step, status, summaries, gate, data, worker, world,
                 people>>

\* recordStepResult of a failed read completes: the run fails.
ReadFailureRecorded ==
  /\ pc = "bk_readfail"
  /\ Finish("failed")
  /\ UNCHANGED <<durable, step, summaries, gate, data, worker, world, people>>

\* Mutant: the read-back's verdict is dropped.
WriteCompletedUnchecked ==
  /\ pc = "bk_verify"
  /\ Mark(step, "completed")
  /\ Goto("bk_written")
  /\ UNCHANGED <<durable, step, status, gate, data, worker, world, people>>

\* The "verifying" status is recorded: the write counts as completed.
WriteCompleted ==
  /\ pc = "bk_verify"
  /\ Mark(step, "completed")
  /\ warnings' = (warnings \/ checked[step] # "passed")
  /\ Goto("bk_written")
  /\ UNCHANGED <<durable, step, status, gate, lastDiff, outputs, receipt,
                 worker, world, people>>

\* A bookkeeping attempt fails or times out.  The last one throws out of the
\* workflow, which nothing catches: no receipt.
BookLost ==
  /\ pc \in BookPcs
  /\ IF attempt < BookAttempts
       THEN attempt' = attempt + 1 /\ pc' = pc
       ELSE Goto("aborted")
  /\ UNCHANGED <<durable, step, status, summaries, gate, data, worker, world,
                 people>>

-----------------------------------------------------------------------------
(* Policy and inputs. *)

\* The first policy evaluation, then the check that the inputs satisfy the spec.
PolicyEvaluated ==
  /\ pc = "policy"
  /\ IF policyDeny THEN Finish("policy_blocked")
     ELSE IF ~inputsReady THEN Finish("failed")
     ELSE Goto("loop") /\ UNCHANGED status
  /\ UNCHANGED <<durable, step, summaries, gate, data, worker, world, people>>

\* The policy is evaluated again, after the approval and before the write.
PolicyRechecked ==
  /\ pc = "recheck"
  /\ IF policyDeny THEN Finish("policy_blocked")
     ELSE Goto("bk_apply") /\ status' = "applying_write"
  /\ UNCHANGED <<durable, step, summaries, gate, data, worker, world, people>>

\* An evaluation attempt is lost; the last loss throws out of the workflow.
PolicyLost ==
  /\ pc \in {"policy", "recheck"}
  /\ IF attempt < ReadAttempts
       THEN attempt' = attempt + 1 /\ pc' = pc
       ELSE Goto("aborted")
  /\ UNCHANGED <<durable, step, status, summaries, gate, data, worker, world,
                 people>>

-----------------------------------------------------------------------------
(* The step loop. *)

Upcoming == step + 1
Enter == pc = "loop" /\ step < N /\ ~cancellation /\ step' = Upcoming

\* A cancellation seen before a step begins.
LoopCancelled ==
  /\ pc = "loop" /\ step < N /\ cancellation
  /\ Finish("cancelled")
  /\ UNCHANGED <<durable, step, summaries, gate, data, worker, world, people>>

\* No step is left.
LoopDone ==
  /\ pc = "loop" /\ step = N
  /\ Finish(IF warnings THEN "completed_with_warnings" ELSE "completed")
  /\ UNCHANGED <<durable, step, summaries, gate, data, worker, world, people>>

BeginRead ==
  /\ Enter /\ plan[Upcoming].mode # "write"
  /\ status' = IF Proposes(Upcoming) THEN "preparing_diff" ELSE "running_read"
  /\ Mark(Upcoming, "running") /\ Goto("bk_read")
  /\ UNCHANGED <<durable, gate, data, worker, world, people>>

\* A shadow run never writes: the step is recorded as skipped.
SkipShadowWrite ==
  /\ Enter /\ plan[Upcoming].mode = "write" /\ mode = "shadow"
  /\ Mark(Upcoming, "skipped") /\ Goto("bk_skip")
  /\ UNCHANGED <<durable, status, gate, data, worker, world, people>>

\* A write that no proposal precedes fails the run.
WriteWithoutProposal ==
  /\ Enter /\ plan[Upcoming].mode = "write" /\ mode # "shadow" /\ lastDiff = None
  /\ Mark(Upcoming, "failed") /\ Finish("failed")
  /\ UNCHANGED <<durable, gate, data, worker, world, people>>

\* The approval gate opens for the step and the last proposed diff.
OpenGate ==
  /\ Enter /\ plan[Upcoming].mode = "write" /\ mode # "shadow"
  /\ lastDiff # None /\ plan[Upcoming].approval
  /\ pending' = <<Upcoming, lastDiff>> /\ approval' = None /\ rejection' = FALSE
  /\ status' = "waiting_approval" /\ Mark(Upcoming, "waiting_approval")
  /\ Goto("bk_gate")
  /\ UNCHANGED <<durable, cancellation, data, worker, world, people>>

\* Mutant: the approval requirement is not looked at.
BeginUngatedWriteAlways ==
  /\ Enter /\ plan[Upcoming].mode = "write" /\ mode # "shadow"
  /\ lastDiff # None
  /\ Mark(Upcoming, "running") /\ Goto("recheck")
  /\ UNCHANGED <<durable, status, gate, data, worker, world, people>>

\* A write step whose spec does not require approval.
BeginUngatedWrite ==
  /\ Enter /\ plan[Upcoming].mode = "write" /\ mode # "shadow"
  /\ lastDiff # None /\ ~plan[Upcoming].approval
  /\ Mark(Upcoming, "running") /\ Goto("recheck")
  /\ UNCHANGED <<durable, status, gate, data, worker, world, people>>

-----------------------------------------------------------------------------
(* The approval gate. *)

Decided == approval # None \/ rejection \/ cancellation

\* Mutant: a cancellation is not looked at after the gate.
GateWakeUncancelled ==
  /\ pc = "waiting" /\ Decided
  /\ pending' = None
  /\ IF rejection THEN Finish("cancelled") ELSE Goto("recheck") /\ UNCHANGED status
  /\ UNCHANGED <<durable, step, summaries, approval, rejection, cancellation,
                 data, worker, world, people>>

\* Mutant: an approval accepted first outweighs a later rejection.
GateWakeApprovalFirst ==
  /\ pc = "waiting" /\ Decided
  /\ pending' = None
  /\ IF cancellation \/ approval = None THEN Finish("cancelled")
     ELSE Goto("recheck") /\ UNCHANGED status
  /\ UNCHANGED <<durable, step, summaries, approval, rejection, cancellation,
                 data, worker, world, people>>

\* The condition holds: a cancellation or a rejection outweighs an approval.
GateWake ==
  /\ pc = "waiting" /\ Decided
  /\ pending' = None
  /\ IF cancellation \/ rejection THEN Finish("cancelled")
     ELSE Goto("recheck") /\ UNCHANGED status
  /\ UNCHANGED <<durable, step, summaries, approval, rejection, cancellation,
                 data, worker, world, people>>

\* Mutant: condition() is given no timeout.
GateExpireNever == pc = "waiting" /\ ~Decided /\ FALSE /\ UNCHANGED vars

\* The approval timer fires on an undecided gate.
GateExpire ==
  /\ pc = "waiting" /\ ~Decided
  /\ pending' = None /\ Finish("expired")
  /\ UNCHANGED <<durable, step, summaries, approval, rejection, cancellation,
                 data, worker, world, people>>

-----------------------------------------------------------------------------
(* executeReadStep: read and propose_write steps. *)

\* A read completes.
ReadCompletes ==
  /\ pc = "exec_read" /\ ~Proposes(step)
  /\ cache' = Merged /\ outputs' = Merged
  /\ Mark(step, "completed") /\ Goto("bk_result")
  /\ UNCHANGED <<durable, step, status, gate, lastDiff, warnings, receipt,
                 policyDeny, ledger, inflight, writer, restarts, world, people>>

\* A proposal completes; the adapter computes the diff from live data.
ProposalCompletes(d) ==
  /\ pc = "exec_read" /\ Proposes(step)
  /\ cache' = (IF FirstProposal(step) THEN d ELSE Merged)
  /\ outputs' = cache'
  /\ lastDiff' = d
  /\ Mark(step, "completed") /\ Goto("bk_result")
  /\ UNCHANGED <<durable, step, status, gate, warnings, receipt, policyDeny,
                 ledger, inflight, writer, restarts, world, people>>

\* The adapter throws: the activity catches it and answers "failed".
ReadFails ==
  /\ pc = "exec_read"
  /\ cache' = Merged /\ outputs' = Merged
  /\ Mark(step, "failed") /\ Goto("bk_readfail")
  /\ UNCHANGED <<durable, step, status, gate, lastDiff, warnings, receipt,
                 policyDeny, ledger, inflight, writer, restarts, world, people>>

\* What a lost attempt may have left in the worker's cache.
LostReadEffects ==
  {cache, Merged} \cup (IF FirstProposal(step) THEN Diffs ELSE {})

\* An attempt is lost, before or after its effect; the workflow catches the
\* last loss and fails the run.
ReadLost ==
  /\ pc = "exec_read"
  /\ \E left \in LostReadEffects : cache' = left
  /\ IF attempt < ReadAttempts
       THEN attempt' = attempt + 1 /\ UNCHANGED <<pc, status, summaries>>
       ELSE Finish("failed") /\ Mark(step, "failed")
  /\ UNCHANGED <<durable, step, gate, data, policyDeny, ledger, inflight,
                 writer, restarts, world, people>>

-----------------------------------------------------------------------------
(* executeWriteStep: the step engine and the adapter's write, in the worker. *)

Key == <<step, lastDiff>>

\* Runs the adapter's write on the diff the workflow carries.  A key the
\* idempotency store knows is not applied again.
StartWrite ==
  /\ pc = "exec_write" /\ ~inflight /\ wphase = "idle"
  /\ inflight' = TRUE /\ cache' = Merged
  /\ bound' = [bound EXCEPT ![step] = lastDiff]
  /\ wstep' = step /\ wdiff' = lastDiff
  /\ IF Key \in ledger THEN wphase' = "verify" /\ wtodo' = {}
                      ELSE wphase' = "patching" /\ wtodo' = lastDiff \cap Owned
  /\ UNCHANGED <<durable, flow, gate, data, policyDeny, ledger, restarts,
                 patched, checked, people>>

\* One change reaches the provider.
Patch(c) ==
  /\ wphase = "patching" /\ c \in wtodo
  /\ patched' = [patched EXCEPT ![wstep][c] = @ + 1]
  /\ wtodo' = wtodo \ {c}
  /\ UNCHANGED <<durable, flow, gate, data, policyDeny, cache, ledger, inflight,
                 wphase, wstep, wdiff, restarts, bound, checked, people>>

\* The engine or the adapter throws: connector not linked, a provider error
\* before a change lands, or a lost answer after it did (see Patch).
WriteThrows ==
  /\ wphase = "patching"
  /\ wphase' = "failed"
  /\ UNCHANGED <<durable, flow, gate, data, policyDeny, cache, ledger, inflight,
                 wstep, wdiff, wtodo, restarts, world, people>>

\* Every change is applied: the key enters the idempotency store.
WriteApplied ==
  /\ wphase = "patching" /\ wtodo = {}
  /\ ledger' = ledger \cup {<<wstep, wdiff>>}
  /\ wphase' = "verify"
  /\ UNCHANGED <<durable, flow, gate, data, policyDeny, cache, inflight, wstep,
                 wdiff, wtodo, restarts, world, people>>

\* The independent read-back.  It passes only if every change of the diff is one
\* the adapter owns; it may fail or throw whatever was written, but an empty diff
\* passes without a read.
Verify(found) ==
  /\ wphase = "verify"
  /\ found = "passed" => wdiff \subseteq Owned
  /\ wdiff = {} => found = "passed"
  /\ checked' = [checked EXCEPT ![wstep] = found]
  /\ wphase' = IF found = "threw" THEN "failed" ELSE "done"
  /\ UNCHANGED <<durable, flow, gate, data, policyDeny, cache, ledger, inflight,
                 wstep, wdiff, wtodo, restarts, patched, bound, people>>

Awaited == pc = "exec_write" /\ inflight

\* The awaited attempt answers "completed".
WriteReported ==
  /\ Awaited /\ wphase = "done"
  /\ NoWriter /\ inflight' = FALSE
  /\ outputs' = cache
  /\ status' = "verifying" /\ Goto("bk_verify")
  /\ UNCHANGED <<durable, step, summaries, gate, lastDiff, warnings, receipt,
                 policyDeny, cache, ledger, restarts, world, people>>

\* The awaited attempt answers "failed".
WriteFailed ==
  /\ Awaited /\ wphase = "failed"
  /\ NoWriter /\ inflight' = FALSE
  /\ outputs' = cache
  /\ Mark(step, "failed") /\ Finish("failed")
  /\ UNCHANGED <<durable, step, gate, lastDiff, warnings, receipt, policyDeny,
                 cache, ledger, restarts, world, people>>

\* The awaited attempt times out.  It may still be running in the worker.
WriteTimeout ==
  /\ Awaited
  /\ inflight' = FALSE
  /\ IF attempt < WriteAttempts
       THEN attempt' = attempt + 1 /\ UNCHANGED <<pc, status, summaries>>
       ELSE Finish("failed") /\ Mark(step, "failed")
  /\ UNCHANGED <<durable, step, gate, data, policyDeny, cache, ledger, writer,
                 restarts, world, people>>

\* A timed-out attempt ends; nobody reads its answer.
LateWriteEnds ==
  /\ ~Awaited /\ wphase \in {"done", "failed"}
  /\ NoWriter
  /\ UNCHANGED <<durable, flow, gate, data, policyDeny, cache, ledger, inflight,
                 restarts, world, people>>

-----------------------------------------------------------------------------
(* finalizeRun and the worker's life. *)

Completed(i) == plan[i].mode = "write" /\ summaries[i] = "completed"
Proposed == IF (\E i \in Steps : Proposes(i)) /\ cache # None
              THEN Cardinality(cache) ELSE 0

Outcome == IF status \in {"completed", "completed_with_warnings"} THEN status
           ELSE IF status \in {"cancelled", "expired"} THEN "cancelled"
           ELSE "failed"

\* buildReceipt, from the worker's cache entry and the step summaries.
BuildReceipt ==
  [outcome |-> Outcome,
   writes_proposed |-> Proposed,
   writes_completed |-> IF mode # "shadow" /\ \E i \in Steps : Completed(i)
                          THEN Proposed ELSE 0,
   verification |-> [i \in Steps |-> IF Completed(i) THEN "independent_read_passed"
                                     ELSE "none"]]

\* finalizeRun answers: the cache entry is dropped, the workflow returns.
RunFinalized ==
  /\ pc = "finalize"
  /\ receipt' = BuildReceipt /\ cache' = None /\ Goto("done")
  /\ UNCHANGED <<durable, step, status, summaries, gate, lastDiff, outputs,
                 warnings, policyDeny, ledger, inflight, writer, restarts, world,
                 people>>

\* A finalizeRun attempt is lost, before or after it dropped the cache entry.
FinalizeLost ==
  /\ pc = "finalize"
  /\ cache' \in {cache, None}
  /\ IF attempt < BookAttempts
       THEN attempt' = attempt + 1 /\ pc' = pc
       ELSE Goto("aborted")
  /\ UNCHANGED <<durable, step, status, summaries, gate, data, policyDeny,
                 ledger, inflight, writer, restarts, world, people>>

\* The worker process restarts: cache, idempotency store and running attempts
\* are gone; the new build may carry another policy.
WorkerRestart ==
  /\ restarts < MaxRestarts
  /\ restarts' = restarts + 1
  /\ cache' = None /\ ledger' = {} /\ NoWriter
  /\ policyDeny' \in BOOLEAN
  /\ UNCHANGED <<durable, flow, gate, data, inflight, world, people>>

-----------------------------------------------------------------------------
User == Cancel \/ \E i \in Steps : Reject(i) \/ \E d \in Diffs : Approve(i, d)

Loop == \/ LoopCancelled \/ LoopDone \/ BeginRead \/ SkipShadowWrite
        \/ WriteWithoutProposal \/ OpenGate \/ BeginUngatedWrite

Workflow == \/ Bookkept \/ ReadFailureRecorded \/ WriteCompleted \/ BookLost
            \/ PolicyEvaluated \/ PolicyRechecked \/ PolicyLost
            \/ Loop \/ GateWake \/ GateExpire
            \/ ReadCompletes \/ ReadFails \/ ReadLost
            \/ \E d \in Diffs : ProposalCompletes(d)
            \/ RunFinalized \/ FinalizeLost

Writing == \/ StartWrite \/ WriteThrows \/ WriteApplied
           \/ \E c \in Changes : Patch(c)
           \/ \E found \in {"passed", "failed", "threw"} : Verify(found)
           \/ WriteReported \/ WriteFailed \/ WriteTimeout \/ LateWriteEnds

Next == User \/ Workflow \/ Writing \/ WorkerRestart

\* Temporal keeps dispatching tasks, timers and retries; approvers may stay
\* silent and the worker need not restart.
Fairness == WF_vars(Workflow) /\ WF_vars(Writing)

Spec == Init /\ [][Next]_vars /\ Fairness

-----------------------------------------------------------------------------
(* Properties. *)

MaybeDiff == {None} \cup Diffs
Receipts == [outcome : {"completed", "completed_with_warnings", "cancelled", "failed"},
             writes_proposed : Nat, writes_completed : Nat,
             verification : [Steps -> {"independent_read_passed", "none"}]]

\* Every variable of the run keeps its type.
TypeOK ==
  /\ plan \in Plans /\ mode \in {"shadow", "supervised", "active"}
  /\ inputsReady \in BOOLEAN
  /\ pc \in Pcs /\ step \in 0..N /\ attempt \in Nat /\ status \in Statuses
  /\ summaries \in [Steps -> {"none", "running", "waiting_approval", "completed",
                              "failed", "skipped"}]
  /\ pending \in {None} \cup (Steps \X Diffs)
  /\ approval \in {None} \cup (Steps \X Diffs)
  /\ rejection \in BOOLEAN /\ cancellation \in BOOLEAN
  /\ lastDiff \in MaybeDiff /\ outputs \in MaybeDiff /\ warnings \in BOOLEAN
  /\ receipt \in {None} \cup Receipts
  /\ policyDeny \in BOOLEAN /\ cache \in MaybeDiff
  /\ ledger \subseteq Steps \X Diffs
  /\ inflight \in BOOLEAN /\ restarts \in Nat
  /\ wphase \in {"idle", "patching", "verify", "done", "failed"}
  /\ wstep \in Steps /\ wdiff \in Diffs /\ wtodo \in Diffs
  /\ patched \in [Steps -> [Changes -> Nat]]
  /\ bound \in [Steps -> MaybeDiff]
  /\ checked \in [Steps -> {"none", "passed", "failed", "threw"}]
  /\ consents \subseteq Steps \X Diffs
  /\ approvals \in Nat /\ lastWritable \in 0..N

Touched(i) == \E c \in Changes : patched[i][c] > 0

\* Whatever signals, retries, timeouts and restarts interleave, a change reaches
\* the provider only in a non-shadow run, as part of the one diff bound to that
\* write step, and, if the step needs approval, only if somebody approved
\* exactly that step with exactly that diff.
WritesAreAuthorised ==
  \A i \in Steps : Touched(i) =>
    /\ mode # "shadow" /\ bound[i] # None
    /\ \A c \in Changes : patched[i][c] > 0 => c \in bound[i]
    /\ plan[i].approval => <<i, bound[i]>> \in consents

\* No write step applies a change twice, although the idempotency store is lost
\* with the worker and a timed-out attempt may still be running.
WritesAtMostOnce == \A i \in Steps, c \in Changes : patched[i][c] <= 1

\* A cancel stops every write that had not been let through the gate when it
\* arrived, including the one a late approval is waiting on.
CancelStopsLaterWrites == \A i \in Steps : i > lastWritable => ~Touched(i)

\* A step that was rejected while pending, even after an approval had been
\* accepted, or whose gate expired, is never written, not even by a late attempt.
RefusedStepsStayUnwritten ==
  rejection \/ status = "expired" => step > 0 /\ ~Touched(step)

\* A run that ends "completed" (without warnings) applied the whole diff of every
\* write it made, exactly once, across worker restarts.
CleanCompletionIsComplete ==
  status = "completed" =>
    \A i \in Steps : bound[i] # None =>
      \A c \in Changes : patched[i][c] = IF c \in bound[i] THEN 1 ELSE 0

\* Once a run has published a final status, the status never changes and no new
\* write attempt starts: at most the attempt that timed out goes on.
FinalIsFinal ==
  [][(status \in Final) => (status' = status /\ bound' = bound)]_vars

\* Every started run ends, approver silent or not: finalised, or aborted by
\* exhausted bookkeeping retries.
RunTerminates == <>(pc \in {"done", "aborted"})

\* The run implements AuthorisedWrites: retries, restarts and late attempts
\* never grant or apply anything outside that contract.
Authorised == INSTANCE AuthorisedWrites WITH
  needsConsent <- [i \in Steps |-> plan[i].approval],
  granted <- bound, applied <- patched, closed <- status \in Final
ImplementsAuthorisedWrites == Authorised!Spec

-----------------------------------------------------------------------------
(* What the documents say of the receipt; the code does not keep these. *)

\* ADR-0007: the receipt records proposed vs. completed writes.  For a run that
\* completed without warnings: as many completed writes as changes were applied.
ReceiptCountsAppliedWrites ==
  receipt # None /\ status = "completed" =>
    receipt.writes_completed =
      Cardinality({p \in Steps \X Changes : patched[p[1]][p[2]] > 0})
=============================================================================
