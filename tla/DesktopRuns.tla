------------------------------ MODULE DesktopRuns ------------------------------
(***************************************************************************)
(* The run executor inside the desktop app (lib/runs.ts) and the run panel *)
(* of the Agents screen that drives it.                                    *)
(*                                                                         *)
(* There is one run store, and every agent's card shows it.  Each call is  *)
(* an async function: what it reads before an await may have changed after *)
(* it, and two calls can be under way at once.  Spec, state, inputs, plan  *)
(* and answers of the current run live in module variables all calls share.*)
(***************************************************************************)
EXTENDS Values, SequencesExt

CONSTANTS
  Helpers,   \* the agents whose cards are on the screen
  MaxStarted, MaxCalls \* bounds: runs started, calls under way

VARIABLES
  phase, runLane,
  pending,     \* the run whose diff waits for approval
  refusal,     \* browserPlanRefusal: the Approve button is disabled
  revertible,  \* the run whose changes in the browser can be put back
  policyHold, receiptSummary,
  active,      \* activeSpec, activeState, activeRunId: agent and run
  plan,        \* activeBrowserPlan: the run it was built for
  inputs,      \* activeInputs: whose answers they hold
  answers,     \* pendingAnswers: the agents they were given for
  resume,      \* resumeContext: agent and mode
  calls,       \* the calls under way, oldest first
  runsStarted,
  approvedOn,  \* history: approvals clicked, with the plan on the screen,
  written,     \* what was written,
  credited, owner, \* the approved runs recorded with the card's agent, and the agent of every run,
  crossed      \* Done was clicked while a call was under way

storeOfRuns == <<phase, runLane, pending, refusal, revertible, policyHold, receiptSummary>>
moduleVars == <<active, plan, inputs, answers, resume>>
runVars == <<storeOfRuns, moduleVars, calls, runsStarted, approvedOn, written, credited, owner, crossed>>

NoRun == [agent |-> None, run |-> 0]

RunsInit ==
  /\ phase = "idle" /\ runLane = "api" /\ pending = 0 /\ refusal = FALSE /\ revertible = 0
  /\ policyHold = FALSE /\ receiptSummary = FALSE
  /\ active = NoRun /\ plan = 0 /\ inputs = {} /\ answers = {} /\ resume = None
  /\ calls = <<>> /\ runsStarted = 0
  /\ approvedOn = {} /\ written = {} /\ credited = {} /\ owner = {} /\ crossed = FALSE

Call(kind, agent, run, at) == [kind |-> kind, agent |-> agent, run |-> run, at |-> at]
Goto(n, at) == calls' = [calls EXCEPT ![n].at = at]
Return(n) == calls' = RemoveAt(calls, n)
\* The app events that are emitted are answered in the order in which they were sent.
Emitted(n) == calls[n].at = "emit" /\ \A m \in 1..(n - 1) : calls[m].at # "emit"

Decided == UNCHANGED <<storeOfRuns, moduleVars, runsStarted, written, credited, owner, crossed>>

-----------------------------------------------------------------------------
(* Starting a run. *)

\* startShadow, startSupervised up to the first await.
Begin(kind, a, given) ==
  /\ runsStarted < MaxStarted /\ Len(calls) < MaxCalls
  /\ phase' = "running_read" /\ runsStarted' = runsStarted + 1
  /\ calls' = Append(calls, Call(kind, a, runsStarted + 1, "emit"))
  /\ owner' = owner \cup {[run |-> runsStarted + 1, agent |-> a]}
  /\ IF kind = "supervised" THEN pending' = 0 /\ policyHold' = FALSE ELSE UNCHANGED <<pending, policyHold>>
  /\ given
  /\ UNCHANGED <<runLane, refusal, revertible, receiptSummary, active, plan, inputs, resume,
                 approvedOn, written, credited, crossed>>

ClickStart(kind, a) == phase = "idle" /\ Begin(kind, a, UNCHANGED answers)

\* evaluateRunPolicy: a domain policy that stops the agent ends a supervised run here.
HoldByPolicy ==
  /\ phase = "idle" /\ phase' = "cancelled" /\ policyHold' = TRUE /\ pending' = 0
  /\ UNCHANGED <<runLane, refusal, revertible, receiptSummary, moduleVars, calls, runsStarted,
                 approvedOn, written, credited, owner, crossed>>

\* setLane
SetLane(l) ==
  /\ phase = "idle" /\ runLane' = l /\ refusal' = FALSE
  /\ UNCHANGED <<phase, pending, revertible, policyHold, receiptSummary, moduleVars, calls,
                 runsStarted, approvedOn, written, credited, owner, crossed>>

\* compile, validateRuntimeCapabilities, beginMeasuring
Compile(n) ==
  /\ calls[n].kind \in {"shadow", "supervised"} /\ Emitted(n)
  /\ \/ active' = [agent |-> calls[n].agent, run |-> calls[n].run] /\ Goto(n, "look")
     \/ UNCHANGED active /\ Goto(n, "throw")
  /\ UNCHANGED <<storeOfRuns, plan, inputs, answers, resume, runsStarted, approvedOn, written, credited, owner, crossed>>

\* discoverInputsFor: a question for the user, an error, or the inputs, which hold what
\* the user has answered so far.
Discover(n) ==
  /\ calls[n].at = "look"
  /\ \/ /\ phase' = "needs_input" /\ resume' = [agent |-> calls[n].agent, kind |-> calls[n].kind]
        /\ Return(n) /\ UNCHANGED inputs
     \/ inputs' = answers /\ Goto(n, "steps") /\ UNCHANGED <<phase, resume>>
     \/ Goto(n, "throw") /\ UNCHANGED <<inputs, phase, resume>>
  /\ UNCHANGED <<runLane, pending, refusal, revertible, policyHold, receiptSummary, active, plan,
                 answers, runsStarted, approvedOn, written, credited, owner, crossed>>

\* Mutant: a shadow run goes on to the write step.
ShadowStepsWrite(n) ==
  /\ calls[n].kind = "shadow" /\ calls[n].at = "steps" /\ phase' = "preparing_diff"
  /\ Goto(n, "report")
  /\ written' = written \cup {[diff |-> calls[n].run, as |-> active.run, plan |-> 0]}
  /\ UNCHANGED <<runLane, pending, refusal, revertible, policyHold, receiptSummary, moduleVars,
                 runsStarted, approvedOn, credited, owner, crossed>>
\* The steps of a shadow run; those that write are left out.
ShadowSteps(n) ==
  /\ calls[n].kind = "shadow" /\ calls[n].at = "steps" /\ phase' = "preparing_diff"
  /\ Goto(n, "report") \/ Goto(n, "throw")
  /\ UNCHANGED <<runLane, pending, refusal, revertible, policyHold, receiptSummary, moduleVars,
                 runsStarted, approvedOn, written, credited, owner, crossed>>

\* The read and propose steps of a supervised run; one that proposes something builds the
\* browser plan now, or learns that there is none.
SupervisedSteps(n) ==
  /\ calls[n].kind = "supervised" /\ calls[n].at = "steps" /\ phase' = "preparing_diff"
  /\ \/ (Goto(n, "report") \/ Goto(n, "throw")) /\ UNCHANGED plan
     \/ plan' = (IF runLane = "browser" THEN calls[n].run ELSE 0) /\ Goto(n, "gate")
     \/ runLane = "browser" /\ plan' = 0 /\ Goto(n, "refused gate")
  /\ UNCHANGED <<runLane, pending, refusal, revertible, policyHold, receiptSummary, active, inputs,
                 answers, resume, runsStarted, approvedOn, written, credited, owner, crossed>>

\* The gate: the diff and the plan are on the screen.
Gate(n) ==
  /\ calls[n].at \in {"gate", "refused gate"}
  /\ phase' = "waiting_approval" /\ pending' = calls[n].run
  /\ refusal' = (calls[n].at = "refused gate") /\ Return(n)
  /\ UNCHANGED <<runLane, revertible, policyHold, receiptSummary, moduleVars, runsStarted,
                 approvedOn, written, credited, owner, crossed>>

\* buildReceipt for a run that wrote nothing.
Report(n) ==
  /\ calls[n].at = "report" /\ phase' = "completed" /\ receiptSummary' = TRUE /\ Return(n)
  /\ UNCHANGED <<runLane, pending, refusal, revertible, policyHold, moduleVars, runsStarted,
                 approvedOn, written, credited, owner, crossed>>

\* Mutant: the error leaves the panel as it is.
Uncaught(n) == calls[n].at \in {"throw", "nothing"} /\ Return(n) /\ Decided /\ UNCHANGED approvedOn
\* The catch of a run or of an approval, and a browser that did none of the plan.
Catch(n) ==
  /\ calls[n].at \in {"throw", "nothing"} /\ phase' = "failed" /\ Return(n)
  /\ revertible' = IF calls[n].at = "nothing" THEN 0 ELSE revertible
  /\ UNCHANGED <<runLane, pending, refusal, policyHold, receiptSummary, moduleVars,
                 runsStarted, approvedOn, written, credited, owner, crossed>>

\* answer: kept for the run, which starts again from the top.  (One that checkAnswer
\* refuses changes nothing.)
Answer ==
  /\ phase = "needs_input" /\ resume # None
  /\ Begin(resume.kind, resume.agent, answers' = answers \cup {resume.agent})

-----------------------------------------------------------------------------
(* Deciding. *)

Waiting == phase = "waiting_approval" /\ pending # 0

\* approve, reject up to their first await: pending stays, so both buttons do.  Any
\* card's button does.
ClickApprove(a) ==
  /\ Waiting /\ ~refusal /\ Len(calls) < MaxCalls
  /\ calls' = Append(calls, Call("approve", a, pending, "emit"))
  /\ approvedOn' = approvedOn \cup {[diff |-> pending, plan |-> plan]} /\ Decided
ClickReject ==
  /\ Waiting /\ Len(calls) < MaxCalls
  /\ calls' = Append(calls, Call("reject", None, pending, "emit"))
  /\ UNCHANGED approvedOn /\ Decided

RejectResumes(n) ==
  /\ calls[n].kind = "reject" /\ Emitted(n)
  /\ phase' = "cancelled" /\ pending' = 0 /\ Return(n)
  /\ UNCHANGED <<runLane, refusal, revertible, policyHold, receiptSummary, moduleVars, runsStarted,
                 approvedOn, written, credited, owner, crossed>>

\* The approved diff is written as the run in the module variables.  In the API lane a
\* second write with the same key does nothing.
ApproveResumes(n) ==
  /\ calls[n].kind = "approve" /\ Emitted(n) /\ pending' = 0
  /\ IF runLane = "browser" /\ plan = 0
     THEN phase' = "failed" /\ Return(n) /\ UNCHANGED written
     ELSE /\ phase' = "applying_write"
          /\ \/ /\ written' = written \cup {[diff |-> calls[n].run, as |-> active.run,
                                             plan |-> IF runLane = "browser" THEN plan ELSE 0]}
                /\ Goto(n, "wrote")
             \/ UNCHANGED written /\ Goto(n, "throw")
             \/ runLane = "browser" /\ UNCHANGED written /\ Goto(n, "nothing")
  /\ UNCHANGED <<runLane, refusal, revertible, policyHold, receiptSummary, moduleVars, runsStarted,
                 approvedOn, credited, owner, crossed>>

\* The receipt, and the card's agent is credited with an approved run.
ApproveReports(n) ==
  /\ calls[n].at = "wrote" /\ Return(n)
  /\ phase' \in {"completed", "completed_with_warnings"} /\ receiptSummary' = TRUE
  /\ revertible' = IF runLane = "browser" THEN calls[n].run ELSE revertible
  /\ credited' = credited \cup {[to |-> calls[n].agent, run |-> calls[n].run]}
  /\ UNCHANGED <<runLane, pending, refusal, policyHold, moduleVars, runsStarted, approvedOn, written, owner, crossed>>

\* revert: the changes are put back, or some are not, and stay revertable.
ClickRevert ==
  /\ revertible # 0 /\ runLane = "browser" /\ Len(calls) < MaxCalls /\ phase' = "applying_write"
  /\ calls' = Append(calls, Call("revert", None, revertible, "reverting"))
  /\ UNCHANGED <<runLane, pending, refusal, revertible, policyHold, receiptSummary, moduleVars,
                 runsStarted, approvedOn, written, credited, owner, crossed>>
RevertReturns(n) ==
  /\ calls[n].at = "reverting" /\ Return(n)
  /\ \/ phase' = "completed" /\ revertible' = 0
     \/ phase' = "completed_with_warnings" /\ revertible' \in {revertible, calls[n].run}
  /\ UNCHANGED <<runLane, pending, refusal, policyHold, receiptSummary, moduleVars, runsStarted,
                 approvedOn, written, credited, owner, crossed>>

-----------------------------------------------------------------------------
(* Done and Cancel. *)

DoneVisible == policyHold \/ receiptSummary \/ phase \in {"cancelled", "failed", "needs_input"}

Reset ==
  /\ plan' = 0 /\ answers' = {} /\ resume' = None
  /\ phase' = "idle" /\ pending' = 0 /\ refusal' = FALSE
  /\ revertible' = 0 /\ policyHold' = FALSE /\ receiptSummary' = FALSE
  /\ UNCHANGED <<runLane, active, inputs>>
ClickDone ==
  /\ DoneVisible /\ Reset /\ crossed' = (crossed \/ calls # <<>>)
  /\ UNCHANGED <<calls, runsStarted, approvedOn, written, credited, owner>>

RunsNext ==
  \/ \E a \in Helpers : \/ ClickStart("shadow", a) \/ ClickStart("supervised", a) \/ ClickApprove(a)
  \/ SetLane("api") \/ SetLane("browser") \/ HoldByPolicy \/ Answer
  \/ ClickReject \/ ClickRevert \/ ClickDone
  \/ \E n \in DOMAIN calls : \/ Compile(n) \/ Discover(n) \/ ShadowSteps(n) \/ SupervisedSteps(n)
                             \/ Gate(n) \/ Report(n) \/ Catch(n)
                             \/ RejectResumes(n) \/ ApproveResumes(n) \/ ApproveReports(n)
                             \/ RevertReturns(n)

RunsSpec == RunsInit /\ [][RunsNext]_runVars

-----------------------------------------------------------------------------
(* Properties. *)

\* Only what the user approved on the screen is written: the diff with its plan, whatever
\* calls overlap; a shadow run and a read-only one write nothing.
WritesWereApproved ==
  \A w \in written : \E c \in approvedOn : c.diff = w.diff /\ w.plan \in {0, c.plan}

\* What the user answered for one agent is never an input of another agent's steps.
AnswersStayWithTheirRun ==
  \A n \in DOMAIN calls : calls[n].at = "steps" => inputs \subseteq {calls[n].agent}

\* However the buttons are clicked, and though all runs share the executor's module variables, an approval
\* and an answer count for the run they were given to, as long as no run was dismissed while a call was
\* still at work on it: then the next run overlaps it, and an approval may write with the other's plan.
ApprovalIsMeant == ~crossed => WritesWereApproved /\ AnswersStayWithTheirRun

\* A panel with nothing under way offers something to click, as long as no run was
\* dismissed while a call was still at work on it.
PanelOffersAWayOn ==
  (calls = <<>> /\ ~crossed) => phase = "idle" \/ DoneVisible \/ Waiting \/ revertible # 0

\* "Run cancelled - nothing was written."
CancelledWroteNothing ==
  phase = "cancelled" => \A w \in written : w.diff # active.run

\* An approved run is credited to the agent whose run it was.
CreditGoesToTheRun ==
  \A c \in credited : [run |-> c.run, agent |-> c.to] \in owner
==============================================================================
