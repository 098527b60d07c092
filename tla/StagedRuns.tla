----------------------------- MODULE StagedRuns -----------------------------
(***************************************************************************)
(* Staged runs on the desktop: firings become cards, directly or through   *)
(* the shadow pool; the user answers a card's question and approves its    *)
(* proposal; the local runtime re-proposes on the live page and writes     *)
(* (apps/desktop/src/lib/agentService.ts,                                  *)
(* packages/agent-runtime/src/local-runtime.ts and browser-adapters.ts,    *)
(* packages/browser-actuator/src/execute.ts).                              *)
(*                                                                         *)
(* The page is live: every control is read and written in a round trip of  *)
(* its own, and others edit the page in between.  A plan has one propose   *)
(* and one write step per control, as the trace compiler emits them.       *)
(***************************************************************************)
EXTENDS Integers, Sequences, FiniteSets

CONSTANTS
  Agents, Asking,  \* the agents, and those that ask the user for the value
  K, Press,        \* controls 1..K in plan order, and those that are pressed
  Values, Wanted,  \* field values, and what an agent that does not ask writes
  PoolSize,        \* MAX_CONCURRENT_SHADOWS (2 in the code)
  Cap,             \* cards kept (20 in the code)
  Cooldown,        \* the trigger's cooldown
  MaxClock, MaxCards, MaxAnswers, MaxApprovals, MaxEdits, MaxRevokes, \* bounds
  None             \* null

Controls == 1..K
CardIds == 1..MaxCards
AnswerIds == 1..MaxAnswers
RunIds == 1..MaxApprovals
Times == 0..MaxClock

ASSUME PlanAssumption ==
  K \in Nat \ {0} /\ Press \subseteq Controls /\ Wanted \in Values
ASSUME SizesAssumption ==
  /\ PoolSize \in Nat \ {0} /\ Cap \in Nat \ {0} /\ Cooldown \in Nat
  /\ MaxClock \in Nat /\ MaxCards \in Nat /\ MaxAnswers \in Nat
  /\ MaxApprovals \in Nat /\ MaxEdits \in Nat /\ MaxRevokes \in Nat
ASSUME NoneAssumption == None \notin Values \cup Agents \cup CardIds

\* One entry of ProposedDiff.changes; a press has no values.
Change == [control : Controls \ Press, old : Values, new : Values]
            \cup [control : Press, old : {None}, new : {None}]
\* What diffSha256 covers: the changes and the count of unreadable fields.
Diff == [changes : SUBSET Change, unread : Nat]
\* A read-and-propose pass: the next control and the proposals merged so far.
Pass == [next : 1..(K + 1), diff : Diff]

VARIABLES
  page,       \* the value of each control on the live page
  granted,    \* the page's origin is in browser_actuation_origins
  autonomy,   \* draft_autonomy of each agent
  clock,      \* the time, in the unit of the cooldown
  staged,     \* the cards shown, newest first
  card,       \* the card with each staged_id
  queue, running, inFlight, \* shadowQueue, the jobs started, shadowInFlight
  asked,      \* the answerStagedRun calls
  run,        \* the approveStagedRun calls
  edits, revokes

pool == <<queue, running, inFlight>>
cards == <<staged, card>>
outside == <<page, granted, edits, revokes>>
vars == <<outside, autonomy, clock, cards, pool, asked, run>>

NoDiff == [changes |-> {}, unread |-> 0]
Fresh == [next |-> 1, diff |-> NoDiff]
NoCard == [agent |-> None, at |-> 0, kind |-> "none", diff |-> NoDiff, answer |-> None]

Init ==
  /\ page \in [Controls -> Values] /\ granted \in BOOLEAN
  /\ autonomy \in [Agents -> BOOLEAN] /\ clock = 0
  /\ staged = <<>> /\ card = [i \in CardIds |-> NoCard]
  /\ queue = <<>> /\ running = {} /\ inFlight = {}
  /\ asked = [n \in AnswerIds |-> [phase |-> "unused", card |-> None,
                                   answer |-> None, pass |-> Fresh]]
  /\ run = [r \in RunIds |-> [phase |-> "unused", card |-> None, value |-> None,
                              approved |-> NoDiff, pass |-> Fresh, at |-> 1,
                              sent |-> {}, landed |-> {}, status |-> {},
                              verified |-> TRUE, result |-> "none"]]
  /\ edits = 0 /\ revokes = 0

-----------------------------------------------------------------------------
(* The staged list. *)

Shown(i) == \E n \in 1..Len(staged) : staged[n] = i

\* updateStaged: a card that has dropped off the list is not updated.
Update(i, kind, diff, answer) ==
  card' = [card EXCEPT ![i] = IF Shown(i)
             THEN [@ EXCEPT !.kind = kind, !.diff = diff, !.answer = answer]
             ELSE @]

\* Mutant: takes firings to arrive in the order of their times.
DuplicateInOrder(a, t) ==
  \E n \in 1..Len(staged) : LET c == card[staged[n]] IN
    c.agent = a /\ t >= c.at /\ t - c.at < Cooldown
\* pushStaged: one card per agent and cooldown window, the newest Cap kept.
Duplicate(a, t) ==
  \E n \in 1..Len(staged) : LET c == card[staged[n]] IN
    c.agent = a /\ t - c.at < Cooldown /\ c.at - t < Cooldown

\* The staged_ids not used yet.
Unused == {i \in CardIds : card[i].kind = "none"}

Push(a, t, kind, diff) ==
  IF Duplicate(a, t) THEN UNCHANGED cards
  ELSE \E i \in Unused :
         /\ \A j \in Unused : i <= j
         /\ staged' = SubSeq(<<i>> \o staged, 1,
                             IF Len(staged) < Cap THEN Len(staged) + 1 ELSE Cap)
         /\ card' = [card EXCEPT ![i] = [agent |-> a, at |-> t, kind |-> kind,
                                         diff |-> diff, answer |-> None]]

-----------------------------------------------------------------------------
(* Reading the page. *)

\* The value an agent's plan writes, given the card's answer.
ValueOf(a, answer) == IF a \in Asking THEN answer ELSE Wanted

\* proposeWrite for control k: a press is always proposed, a field that holds the
\* value already is not.
Proposal(k, v) ==
  IF k \in Press THEN {[control |-> k, old |-> None, new |-> None]}
  ELSE IF page[k] = v THEN {}
  ELSE {[control |-> k, old |-> page[k], new |-> v]}

\* mergeDiffs: the pass after control k was read, or found unreadable.
Read(p, v) ==
  {[next |-> p.next + 1,
    diff |-> [p.diff EXCEPT !.changes = @ \cup Proposal(p.next, v)]]}
Unreadable(p) ==
  {[next |-> p.next + 1, diff |-> [p.diff EXCEPT !.unread = @ + 1]] :
     k \in {p.next} \ Press}
\* requireAdapter finds nothing once the origin is revoked.
Steps(p, v) ==
  IF granted /\ p.next <= K THEN Read(p, v) \cup Unreadable(p) ELSE {}
Finished(p) == p.next > K

-----------------------------------------------------------------------------
(* stageFiring and the shadow pool. *)

\* pumpShadowQueue, with a pass of its own for each job.
Pump(q, jobs) ==
  LET free == PoolSize - Cardinality(jobs)
      n == IF free < Len(q) THEN free ELSE Len(q)
  IN  /\ queue' = SubSeq(q, n + 1, Len(q))
      /\ running' = jobs \cup {[agent |-> q[m].agent, at |-> q[m].at, pass |-> Fresh] :
                                 m \in 1..n}

\* Mutant: an agent that is queued or running is queued again.
EnqueueAlways(a, t) ==
  /\ inFlight' = inFlight \cup {a}
  /\ Pump(Append(queue, [agent |-> a, at |-> t]), running)
  /\ UNCHANGED cards
Enqueue(a, t) ==
  /\ IF a \in inFlight THEN UNCHANGED pool
     ELSE inFlight' = inFlight \cup {a} /\ Pump(Append(queue, [agent |-> a, at |-> t]), running)
  /\ UNCHANGED cards

\* A firing, live or drained from the spool; MaxCards bounds the cards it can make.
StageFiring(a, t) ==
  /\ t <= clock /\ Cardinality(inFlight) < Cardinality(Unused)
  /\ IF autonomy[a] THEN Enqueue(a, t)
     ELSE Push(a, t, "suggested", NoDiff) /\ UNCHANGED pool
  /\ UNCHANGED <<outside, autonomy, clock, asked, run>>

ShadowReads(j) ==
  /\ j.agent \notin Asking
  /\ \E p \in Steps(j.pass, Wanted) :
       running' = (running \ {j}) \cup {[j EXCEPT !.pass = p]}
  /\ UNCHANGED <<outside, autonomy, clock, cards, queue, inFlight, asked, run>>

\* Mutant: a failed shadow frees its worker but stays in flight.
ShadowEndsHalfway(j) ==
  /\ \/ /\ \/ j.agent \in Asking /\ Push(j.agent, j.at, "needs_input", NoDiff)
           \/ Finished(j.pass) /\ Push(j.agent, j.at, "shadow", j.pass.diff)
        /\ inFlight' = inFlight \ {j.agent}
     \/ ~Finished(j.pass) /\ Push(j.agent, j.at, "failed", NoDiff) /\ UNCHANGED inFlight
  /\ Pump(queue, running \ {j})
  /\ UNCHANGED <<outside, autonomy, clock, asked, run>>
\* The job's end: its card is pushed, its worker freed, the queue pumped.
ShadowEnds(j) ==
  /\ \/ j.agent \in Asking /\ Push(j.agent, j.at, "needs_input", NoDiff)
     \/ Finished(j.pass) /\ Push(j.agent, j.at, "shadow", j.pass.diff)
     \/ ~Finished(j.pass) /\ Push(j.agent, j.at, "failed", NoDiff)
  /\ inFlight' = inFlight \ {j.agent}
  /\ Pump(queue, running \ {j})
  /\ UNCHANGED <<outside, autonomy, clock, asked, run>>

GrantAutonomy(a) ==
  /\ autonomy' = [autonomy EXCEPT ![a] = TRUE]
  /\ UNCHANGED <<outside, clock, cards, pool, asked, run>>

-----------------------------------------------------------------------------
(* answerStagedRun *)

\* The user answers the question on a card, or leaves the field empty.
Answer(n, i, v) ==
  /\ asked[n].phase = "unused" /\ \A m \in AnswerIds : m < n => asked[m].phase # "unused"
  /\ Shown(i) /\ card[i].kind = "needs_input"
  /\ asked' = [asked EXCEPT ![n] = [phase |-> "reading", card |-> i, pass |-> Fresh,
                 answer |-> IF v = None THEN card[i].answer ELSE v]]
  /\ UNCHANGED <<outside, autonomy, clock, cards, pool, run>>

AnswerReads(n) ==
  /\ asked[n].phase = "reading" /\ asked[n].answer # None
  /\ \E p \in Steps(asked[n].pass, asked[n].answer) : asked' = [asked EXCEPT ![n].pass = p]
  /\ UNCHANGED <<outside, autonomy, clock, cards, pool, run>>

AnswerLands(n) ==
  /\ asked[n].phase = "reading"
  /\ LET q == asked[n] IN
     \/ q.answer = None /\ Update(q.card, "needs_input", NoDiff, q.answer)
     \/ q.answer # None /\ Finished(q.pass) /\ Update(q.card, "shadow", q.pass.diff, q.answer)
     \/ q.answer # None /\ ~Finished(q.pass) /\ Update(q.card, "failed", NoDiff, q.answer)
  /\ asked' = [asked EXCEPT ![n] = [@ EXCEPT !.phase = "done", !.answer = None, !.pass = Fresh]]
  /\ UNCHANGED <<outside, autonomy, clock, staged, pool, run>>

-----------------------------------------------------------------------------
(* approveStagedRun and LocalAgentRuntime.runApproved *)

\* The Approve button is there when the proposal has changes; only a card that
\* shows a shadow's proposal is acted on.
Approve(r, i) ==
  /\ run[r].phase = "unused" /\ \A s \in RunIds : s < r => run[s].phase # "unused"
  /\ Shown(i) /\ card[i].kind = "shadow" /\ card[i].diff.changes # {}
  /\ run' = [run EXCEPT ![r] = [@ EXCEPT !.phase = "proposing", !.card = i,
               !.value = ValueOf(card[i].agent, card[i].answer),
               !.approved = card[i].diff]]
  /\ Update(i, "executing", NoDiff, card[i].answer)
  /\ UNCHANGED <<outside, autonomy, clock, staged, pool, asked>>

Leave == UNCHANGED <<outside, autonomy, clock, pool, asked, staged>>

\* Pass 1: every proposal again, before anything is written; validateAgentInputs
\* has found the value.
RunReads(r) ==
  /\ run[r].phase = "proposing" /\ run[r].value # None
  /\ \E p \in Steps(run[r].pass, run[r].value) : run' = [run EXCEPT ![r].pass = p]
  /\ Leave /\ UNCHANGED card

End(r, result) == [run EXCEPT ![r] = [@ EXCEPT !.phase = "done", !.result = result]]

RunFails(r) ==
  /\ run[r].phase = "proposing" /\ ~Finished(run[r].pass)
  /\ run' = End(r, "failed")
  /\ Update(run[r].card, "failed", NoDiff, card[run[r].card].answer)
  /\ Leave

\* The page moved on: nothing is written and the fresh proposal is shown.
RunAborts(r) ==
  /\ run[r].phase = "proposing" /\ Finished(run[r].pass)
  /\ run[r].pass.diff # run[r].approved
  /\ run' = End(r, "stale")
  /\ Update(run[r].card, "stale", run[r].pass.diff, card[run[r].card].answer)
  /\ Leave

\* Mutant: the fresh proposal is not compared with the approved one.
RunProceedsUnchecked(r) ==
  /\ run[r].phase = "proposing" /\ Finished(run[r].pass)
  /\ run' = [run EXCEPT ![r].phase = "writing"]
  /\ Leave /\ UNCHANGED card
RunProceeds(r) ==
  /\ run[r].phase = "proposing" /\ Finished(run[r].pass)
  /\ run[r].pass.diff = run[r].approved
  /\ run' = [run EXCEPT ![r].phase = "writing"]
  /\ Leave /\ UNCHANGED card

\* Pass 2, one write step per control; its slice holds at most one change.
Slice(r) == {c \in run[r].approved.changes : c.control = run[r].at}

\* requireAdapter throws when the origin was revoked since.
WriteUnavailable(r) ==
  /\ run[r].phase = "writing" /\ ~granted
  /\ run' = End(r, "failed")
  /\ Update(run[r].card, "failed", NoDiff, card[run[r].card].answer)
  /\ Leave

\* Mutant: no expect_current.
AppliesBlindly(c) == TRUE
\* What the page-side executor does with a change: a field is set only while it
\* holds the value the user was shown.
Applies(c) == c.control \in Press \/ page[c.control] = c.old
Effect(c) == IF c.control \in Press THEN page ELSE [page EXCEPT ![c.control] = c.new]

Landing(r, c, phase, confirmed) ==
  /\ Applies(c) /\ page' = Effect(c)
  /\ LET q == run[r] IN
     run' = [run EXCEPT ![r] = [q EXCEPT !.phase = phase, !.sent = q.sent \ {c},
               !.landed = q.landed \cup {c},
               !.status = IF confirmed THEN q.status \cup {c} ELSE q.status]]
  /\ UNCHANGED <<granted, autonomy, clock, cards, pool, asked, edits, revokes>>

\* executeBrowserPlan on one change: applied, or landed without a confirmation
\* (an answer that was lost, a value that did not read back).
WriteLands(r) ==
  /\ run[r].phase = "writing" /\ granted
  /\ \E c \in Slice(r), confirmed \in BOOLEAN : Landing(r, c, "verifying", confirmed)

\* The gate, the browser or the precondition refuses, or there is nothing to do.
WriteRefused(r) ==
  /\ run[r].phase = "writing" /\ granted
  /\ run' = [run EXCEPT ![r].phase = "verifying"]
  /\ Leave /\ UNCHANGED card

\* The dispatch times out with the request still on its way.
WriteTimesOut(r) ==
  /\ run[r].phase = "writing" /\ granted /\ Slice(r) # {}
  /\ run' = [run EXCEPT ![r] = [run[r] EXCEPT !.phase = "verifying",
                                                   !.sent = run[r].sent \cup Slice(r)]]
  /\ Leave /\ UNCHANGED card

\* The browser acts on it after all, whatever the run is doing by then, or the
\* request expires.
LateWrite(r) == \E c \in run[r].sent : Landing(r, c, run[r].phase, FALSE)
LateExpires(r) ==
  /\ \E c \in run[r].sent : run' = [run EXCEPT ![r].sent = @ \ {c}]
  /\ Leave /\ UNCHANGED card

\* Mutant: the readback alone counts, not whether the write was applied.
ReadBackOnly(r) ==
  \A c \in Slice(r) : c.control \notin Press /\ page[c.control] = c.new
\* verify: a fresh read of the field; a press has no verifier.
ReadBack(r) ==
  /\ Slice(r) # {} /\ Slice(r) \subseteq run[r].status
  /\ \A c \in Slice(r) : c.control \notin Press /\ page[c.control] = c.new

Verified(r, ok) ==
  LET v == run[r].verified /\ ok IN
  IF run[r].at < K
  THEN /\ run' = [run EXCEPT ![r] = [run[r] EXCEPT !.phase = "writing",
                                      !.at = run[r].at + 1, !.verified = v]]
       /\ UNCHANGED card
  ELSE /\ run' = [End(r, "completed") EXCEPT ![r].verified = v]
       /\ Update(run[r].card, "completed", run[r].approved, card[run[r].card].answer)

StepVerified(r) ==
  /\ run[r].phase = "verifying"
  /\ \E ok \in {FALSE, ReadBack(r)} : Verified(r, ok)
  /\ Leave

-----------------------------------------------------------------------------
(* The world: others edit the page, the user changes permissions, time passes. *)

EditPage(k, v) ==
  /\ edits < MaxEdits /\ k \notin Press /\ page[k] # v
  /\ page' = [page EXCEPT ![k] = v] /\ edits' = edits + 1
  /\ UNCHANGED <<granted, revokes, autonomy, clock, cards, pool, asked, run>>

SetGranted ==
  /\ granted => revokes < MaxRevokes
  /\ granted' = ~granted /\ revokes' = IF granted THEN revokes + 1 ELSE revokes
  /\ UNCHANGED <<page, edits, autonomy, clock, cards, pool, asked, run>>

Tick ==
  /\ clock < MaxClock /\ clock' = clock + 1
  /\ UNCHANGED <<outside, autonomy, cards, pool, asked, run>>

Shadows(a) == \E j \in running : j.agent = a /\ (ShadowReads(j) \/ ShadowEnds(j))
Answering(n) == AnswerReads(n) \/ AnswerLands(n)
Executing(r) == \/ RunReads(r) \/ RunFails(r) \/ RunAborts(r) \/ RunProceeds(r)
                \/ WriteUnavailable(r) \/ WriteLands(r) \/ WriteRefused(r)
                \/ WriteTimesOut(r) \/ StepVerified(r)
User == \/ \E a \in Agents : GrantAutonomy(a)
        \/ \E n \in AnswerIds, i \in CardIds, v \in Values \cup {None} : Answer(n, i, v)
        \/ \E r \in RunIds, i \in CardIds : Approve(r, i)
        \/ SetGranted
World == \/ \E a \in Agents, t \in Times : StageFiring(a, t)
         \/ \E k \in Controls, v \in Values : EditPage(k, v)
         \/ \E r \in RunIds : LateWrite(r) \/ LateExpires(r)
         \/ Tick

Next == \/ \E a \in Agents : Shadows(a)
        \/ \E n \in AnswerIds : Answering(n)
        \/ \E r \in RunIds : Executing(r)
        \/ User \/ World

\* Every round trip to the browser ends: the relay and the native lane both time
\* out.  Nothing is assumed of the user, of firings or of the page.
Fairness ==
  /\ \A a \in Agents : WF_vars(Shadows(a))
  /\ \A n \in AnswerIds : WF_vars(Answering(n))
  /\ \A r \in RunIds : WF_vars(Executing(r))

Spec == Init /\ [][Next]_vars /\ Fairness

-----------------------------------------------------------------------------
(* Properties. *)

Kinds == {"none", "suggested", "shadow", "needs_input", "executing", "completed",
          "stale", "failed"}
Card == [agent : Agents \cup {None}, at : Times, kind : Kinds, diff : Diff,
         answer : Values \cup {None}]
Job == [agent : Agents, at : Times, pass : Pass]
Question == [phase : {"unused", "reading", "done"}, card : CardIds \cup {None},
             answer : Values \cup {None}, pass : Pass]
Run == [phase : {"unused", "proposing", "writing", "verifying", "done"},
        card : CardIds \cup {None}, value : Values \cup {None}, approved : Diff,
        pass : Pass, at : Controls, sent : SUBSET Change, landed : SUBSET Change,
        status : SUBSET Change, verified : BOOLEAN,
        result : {"none", "failed", "stale", "completed"}]

\* Every variable holds a value of the kind the code keeps in it.
TypeOK ==
  /\ page \in [Controls -> Values] /\ granted \in BOOLEAN
  /\ autonomy \in [Agents -> BOOLEAN] /\ clock \in Times
  /\ staged \in Seq(CardIds) /\ Len(staged) <= Cap /\ card \in [CardIds -> Card]
  /\ queue \in Seq([agent : Agents, at : Times]) /\ running \subseteq Job
  /\ inFlight \subseteq Agents
  /\ asked \in [AnswerIds -> Question] /\ run \in [RunIds -> Run]
  /\ edits \in 0..MaxEdits /\ revokes \in 0..MaxRevokes

\* A field of the live page that changes without anyone editing it changes from a
\* value to a value that one change of an approved proposal showed, however long
\* the write was on its way and whoever edited the page meanwhile.
OnlyShownChanges ==
  [][\A k \in Controls :
       page'[k] # page[k] /\ edits' = edits =>
         \E r \in RunIds : \E c \in run[r].approved.changes :
           c.control = k /\ c.old = page[k] /\ c.new = page'[k]]_vars

\* Once the fresh proposal of a run differs from the approved one, the run has
\* written nothing and never will, not even with a write that arrives late.
StaleWritesNothing ==
  \A r \in RunIds :
    (Finished(run[r].pass) /\ run[r].pass.diff # run[r].approved)
      => run[r].landed = {} /\ run[r].sent = {}

\* "Done, and read back to confirm": a run that completes verified has itself
\* changed every field of its plan, and had no control to press.
VerifiedMeansWhole ==
  \A r \in RunIds : run[r].result = "completed" /\ run[r].verified =>
    /\ run[r].landed = run[r].approved.changes
    /\ {c.control : c \in run[r].landed} = Controls /\ Press = {}

Busy == {queue[n].agent : n \in 1..Len(queue)} \cup {j.agent : j \in running}
\* The pool: an agent is in flight while it is queued or running, once; no more
\* than PoolSize jobs run, and none waits while a worker is free.
PoolIsExact ==
  /\ inFlight = Busy
  /\ Cardinality(Busy) = Len(queue) + Cardinality(running)
  /\ Cardinality(running) <= PoolSize
  /\ queue # <<>> => Cardinality(running) = PoolSize

\* Both evaluators announce a firing, in any order and also long after: the list
\* never shows two cards of an agent from one cooldown window.
OneCardPerWindow ==
  \A m, n \in 1..Len(staged) : LET c == card[staged[m]] d == card[staged[n]] IN
    m # n /\ c.agent = d.agent => c.at - d.at >= Cooldown \/ d.at - c.at >= Cooldown

\* A shadow that is queued or running ends, whatever becomes of the page and the
\* permissions, and its agent may be queued again.
ShadowsEnd == \A a \in Agents : a \in inFlight ~> a \notin inFlight

\* A card that says "Doing it now" comes to say how it ended.
ExecutingCardsSettle ==
  \A i \in CardIds : Shown(i) /\ card[i].kind = "executing"
                       ~> ~(Shown(i) /\ card[i].kind = "executing")

=============================================================================
