------------------------------ MODULE ServerPanel ------------------------------
(***************************************************************************)
(* Runs on the server, as the panel follows them (lib/serverRuns.ts, the   *)
(* server commands of lib.rs, registerOnServer).                           *)
(*                                                                         *)
(* Each call polls the server until its run is terminal or its polls are   *)
(* used up, each question of a poll a step.  The store has one runId, one  *)
(* diff and one pending approval: a supervised run puts up its diff and    *)
(* its pending approval at once, a shadow run its diff alone, before its   *)
(* receipt.  What the server does with a decision is RunControl's and      *)
(* AgentRun's; here it is a status, a pending step with its diff hash, and *)
(* what was written.                                                       *)
(***************************************************************************)
EXTENDS Values, SequencesExt

CONSTANTS
  Cards,     \* the agents on the screen
  Hashes,    \* diff hashes
  MaxPolls,  \* the polls one call makes
  MaxServerRuns, MaxServerCalls \* bounds

VARIABLES
  panelPhase, panelRun, panelDiff, panelPending, panelReceipt,
  registered, registering, \* server_agent_id known; cards whose start awaits registration
  serverCalls,  \* calls under way: kind, run, stage, polls used
  serverRuns,   \* on the server: mode, status, waiting hash
  covered,      \* history: a shadow run's diff was put over the pending approval's
  shown,        \* history: the diffs on the screen when Approve was clicked, per run
  approvedUnder, \* history: what was approved with a shadow run's diff over it, per run
  serverWrote   \* history: what the server wrote, per run

panelVars == <<panelPhase, panelRun, panelDiff, panelPending, panelReceipt, registered, registering,
               serverCalls, serverRuns, covered, shown, approvedUnder, serverWrote>>
clicks == <<shown, approvedUnder>>
serverSide == <<serverRuns, serverWrote>>

ServerPanelInit ==
  /\ panelPhase = "idle" /\ panelRun = 0 /\ panelDiff = None /\ panelPending = None
  /\ panelReceipt = FALSE /\ registered = {} /\ registering = {} /\ serverCalls = <<>>
  /\ serverRuns = <<>> /\ serverWrote = {}
  /\ covered = FALSE /\ shown = {} /\ approvedUnder = {}

Ended == {"completed", "cancelled", "failed"}

\* phaseForStatus
PhaseFor(status) ==
  CASE status = "reading" -> "running_read" [] status = "waiting" -> "waiting_approval"
    [] status = "writing" -> "applying_write" [] OTHER -> status

At(n, stage) == serverCalls[n].stage = stage
Go(n, stage) == serverCalls' = [serverCalls EXCEPT ![n].stage = stage]
Leave(n) == serverCalls' = RemoveAt(serverCalls, n)

-----------------------------------------------------------------------------
(* Starting. *)

\* start: the button registers the agent first, with the panel still idle.
StartOnServer(c) ==
  /\ panelPhase = "idle" /\ c \notin registering /\ registering' = registering \cup {c}
  /\ UNCHANGED <<panelPhase, panelRun, panelDiff, panelPending, panelReceipt, registered,
                 serverCalls, serverSide, covered, clicks>>

\* registerOnServer: compile, create, save; only then does the run start, whatever the
\* panel shows by now.
Registered(c, mode) ==
  /\ c \in registering /\ registering' = registering \ {c}
  /\ \/ /\ Len(serverCalls) < MaxServerCalls /\ registered' = registered \cup {c}
        /\ panelPhase' = "running_read" /\ panelDiff' = None /\ panelPending' = None
        /\ panelReceipt' = FALSE /\ covered' = FALSE
        /\ serverCalls' = Append(serverCalls, [kind |-> mode, run |-> 0, stage |-> "start", polls |-> 0,
                                               hash |-> None])
     \/ c \notin registered
        /\ UNCHANGED <<registered, panelPhase, panelDiff, panelPending, panelReceipt, covered, serverCalls>>
  /\ UNCHANGED <<panelRun, serverSide, clicks>>

\* server_start_run
StartRun(n) ==
  /\ At(n, "start") /\ Len(serverRuns) < MaxServerRuns
  /\ serverRuns' = Append(serverRuns, [mode |-> serverCalls[n].kind, status |-> "reading", hash |-> None])
  /\ panelRun' = Len(serverRuns')
  /\ serverCalls' = [serverCalls EXCEPT ![n].stage = "poll", ![n].run = Len(serverRuns')]
  /\ UNCHANGED <<panelPhase, panelDiff, panelPending, panelReceipt, registered, registering, covered, clicks, serverWrote>>

\* Any command may fail: the server cannot be reached.
CommandFails(n) ==
  /\ serverCalls[n].kind # "reject" /\ panelPhase' = "failed" /\ Leave(n)
  /\ UNCHANGED <<panelRun, panelDiff, panelPending, panelReceipt, registered, registering, covered, serverSide, clicks>>

-----------------------------------------------------------------------------
(* Polling. *)

Run(n) == serverRuns[serverCalls[n].run]

\* pollForPending asks for the approval the server waits for, and the proposal is fetched next; with none it
\* asks for the status.
SeesPending(n) ==
  /\ serverCalls[n].kind = "supervised" /\ At(n, "poll") /\ serverCalls[n].polls < MaxPolls
  /\ serverCalls' = [serverCalls EXCEPT
       ![n] = IF Run(n).status = "waiting" THEN [@ EXCEPT !.stage = "proposal", !.hash = Run(n).hash]
              ELSE [@ EXCEPT !.stage = "status"]]
  /\ UNCHANGED <<panelPhase, panelRun, panelDiff, panelPending, panelReceipt, registered, registering, covered,
                 serverSide, clicks>>

\* pollToTerminal, pollForPending: the status.
Poll(n) ==
  /\ At(n, IF serverCalls[n].kind = "supervised" THEN "status" ELSE "poll") /\ serverCalls[n].polls < MaxPolls
  /\ IF Run(n).status \in Ended THEN Go(n, IF serverCalls[n].kind = "shadow" THEN "diff" ELSE "receipt")
     ELSE serverCalls' = [serverCalls EXCEPT ![n].stage = "poll", ![n].polls = @ + 1]
  /\ panelPhase' = PhaseFor(Run(n).status)
  /\ UNCHANGED <<panelRun, panelDiff, panelPending, panelReceipt, registered, registering, covered, serverSide, clicks>>

\* timedOut
PollsRunOut(n) ==
  /\ At(n, "poll") /\ serverCalls[n].polls = MaxPolls /\ panelPhase' = "failed" /\ Leave(n)
  /\ UNCHANGED <<panelRun, panelDiff, panelPending, panelReceipt, registered, registering, covered, serverSide, clicks>>

\* server_proposal: never an approval card without a diff.
Proposal(n) ==
  /\ At(n, "proposal") /\ Leave(n)
  /\ \/ /\ panelDiff' = Run(n).hash /\ panelPending' = serverCalls[n].hash
        /\ panelPhase' = "waiting_approval" /\ covered' = FALSE
     \/ panelPhase' = "failed" /\ UNCHANGED <<panelDiff, panelPending, covered>>
  /\ UNCHANGED <<panelRun, panelReceipt, registered, registering, serverSide, clicks>>

\* server_proposal of a shadow run: its diff, if it has one, goes on the screen whatever is there.
ShadowProposal(n) ==
  /\ At(n, "diff") /\ Go(n, "receipt")
  /\ \/ panelDiff' \in Hashes /\ covered' = (panelPending # None)
     \/ UNCHANGED <<panelDiff, covered>>
  /\ UNCHANGED <<panelPhase, panelRun, panelPending, panelReceipt, registered, registering, serverSide, clicks>>

\* loadReceipt, and the last phase.
LoadReceipt(n) ==
  /\ At(n, "receipt") /\ Leave(n)
  /\ panelReceipt' \in {TRUE, panelReceipt} /\ panelPhase' = PhaseFor(Run(n).status)
  /\ UNCHANGED <<panelRun, panelDiff, panelPending, registered, registering, covered, serverSide, clicks>>

-----------------------------------------------------------------------------
(* Deciding. *)

Card == panelPhase = "waiting_approval" /\ panelPending # None /\ panelDiff # None

\* approve: pending is cleared before the first await.
ApproveOnServer ==
  /\ Card /\ panelRun # 0 /\ Len(serverCalls) < MaxServerCalls
  /\ panelPhase' = "applying_write" /\ panelPending' = None
  /\ serverCalls' = Append(serverCalls, [kind |-> "approve", run |-> panelRun, stage |-> "decide",
                                         polls |-> 0, hash |-> panelPending])
  /\ shown' = shown \cup {<<panelRun, panelDiff>>}
  /\ approvedUnder' = IF covered THEN approvedUnder \cup {<<panelRun, panelPending>>} ELSE approvedUnder
  /\ covered' = FALSE
  /\ UNCHANGED <<panelRun, panelDiff, panelReceipt, registered, registering, serverSide>>

\* Mutant: the server does not compare the hash.
AcceptsWhatWaits(n) == Run(n).status = "waiting"
\* The decision names the step that waits and the hash of the diff it waits with.
Accepts(n) == Run(n).status = "waiting" /\ Run(n).hash = serverCalls[n].hash

\* server_approve_run
Approves(n) ==
  /\ serverCalls[n].kind = "approve" /\ At(n, "decide")
  /\ IF Accepts(n)
     THEN /\ serverRuns' = [serverRuns EXCEPT ![serverCalls[n].run].status = "writing"]
          /\ Go(n, "poll") /\ UNCHANGED panelPhase
     ELSE panelPhase' = "failed" /\ Leave(n) /\ UNCHANGED serverRuns
  /\ UNCHANGED <<panelRun, panelDiff, panelPending, panelReceipt, registered, registering, covered,
                 serverWrote, clicks>>

\* reject leaves the card up until the server has answered, whatever the answer.
RejectOnServer ==
  /\ Card
  /\ IF panelRun = 0
     THEN panelPhase' = "cancelled" /\ panelPending' = None /\ covered' = FALSE /\ UNCHANGED serverCalls
     ELSE /\ Len(serverCalls) < MaxServerCalls
          /\ serverCalls' = Append(serverCalls, [kind |-> "reject", run |-> panelRun, stage |-> "decide",
                                                 polls |-> 0, hash |-> panelPending])
          /\ UNCHANGED <<panelPhase, panelPending, covered>>
  /\ UNCHANGED <<panelRun, panelDiff, panelReceipt, registered, registering, serverSide, clicks>>
Rejects(n) ==
  /\ serverCalls[n].kind = "reject" /\ At(n, "decide") /\ Leave(n)
  /\ panelPhase' = "cancelled" /\ panelPending' = None /\ covered' = FALSE
  /\ \/ /\ Run(n).status = "waiting"
        /\ serverRuns' = [serverRuns EXCEPT ![serverCalls[n].run].status = "cancelled"]
     \/ UNCHANGED serverRuns
  /\ UNCHANGED <<panelRun, panelDiff, panelReceipt, registered, registering, serverWrote, clicks>>

\* reset, from Done.
ResetServerPanel ==
  /\ panelReceipt \/ panelPhase \in {"cancelled", "failed"}
  /\ panelPhase' = "idle" /\ panelRun' = 0 /\ panelDiff' = None /\ panelPending' = None
  /\ panelReceipt' = FALSE /\ covered' = FALSE
  /\ UNCHANGED <<registered, registering, serverCalls, serverSide, clicks>>

\* The server: a run proposes, ends, or writes.
ServerMoves(r) ==
  /\ \/ /\ serverRuns[r].status = "reading" /\ serverRuns[r].mode = "supervised"
        /\ \E h \in Hashes : serverRuns' = [serverRuns EXCEPT ![r].status = "waiting", ![r].hash = h]
        /\ UNCHANGED serverWrote
     \/ /\ serverRuns[r].status \in {"reading", "waiting"}
        /\ \E s \in Ended : serverRuns' = [serverRuns EXCEPT ![r].status = s]
        /\ UNCHANGED serverWrote
     \/ /\ serverRuns[r].status = "writing"
        /\ serverRuns' = [serverRuns EXCEPT ![r].status = "completed"]
        /\ serverWrote' = serverWrote \cup {<<r, serverRuns[r].hash>>}
  /\ UNCHANGED <<panelPhase, panelRun, panelDiff, panelPending, panelReceipt, registered, registering,
                 serverCalls, covered, clicks>>

ServerPanelNext ==
  \/ \E c \in Cards : StartOnServer(c) \/ Registered(c, "shadow") \/ Registered(c, "supervised")
  \/ \E n \in DOMAIN serverCalls :
       \/ StartRun(n) \/ CommandFails(n) \/ SeesPending(n) \/ Poll(n) \/ PollsRunOut(n) \/ Proposal(n)
       \/ ShadowProposal(n) \/ LoadReceipt(n) \/ Approves(n) \/ Rejects(n)
  \/ ApproveOnServer \/ RejectOnServer \/ ResetServerPanel
  \/ \E r \in DOMAIN serverRuns : ServerMoves(r)

ServerPanelSpec == ServerPanelInit /\ [][ServerPanelNext]_panelVars

-----------------------------------------------------------------------------
(* Properties. *)

\* What a run on the server writes was approved for that run, and was on the screen when Approve was clicked for
\* it, even when two runs share the panel; the diff of a shadow run that answers late can cover it (startShadow
\* sets diff alone), and then the write is still of the diff that was pending.
ServerWritesWhatWasShown == serverWrote \subseteq shown \cup approvedUnder
==============================================================================
