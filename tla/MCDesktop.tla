------------------------------ MODULE MCDesktop ------------------------------
(* The components of the desktop that move an agent: its triggers, its runs, its own window and *)
(* the bridge to the browser. Each takes what the others do to it as an input of its own, whenever it *)
(* may come, so that one can be checked while the rest stand still: moving says which.            *)
EXTENDS TriggerDaemon, BrowserLane, DesktopRuns, BrowserBridge, AgentWindow

\* Pages of the agent's own window: two plain boxes, one of them named by its label only; two boxes of one
\* name in two cases and a secure one; a button and a box that cannot be edited.
Box(name, value) ==
  [role |-> "textbox", rungs |-> <<name, None>>, value |-> value, secure |-> FALSE, shown |-> TRUE, editable |-> TRUE]
Labelled(name, value) == [Box(None, value) EXCEPT !.rungs = <<None, name>>]
Pin == [Box("Pin", "1234") EXCEPT !.secure = TRUE]
Button(name) == [Box(name, "none") EXCEPT !.role = "button"]
MCFolded == [n \in {"Phone", "phone", "Fax", "Pin", "Send"} |-> IF n = "phone" THEN "Phone" ELSE n]
MCWindowPages ==
  {<<Box("Phone", "1"), Labelled("Fax", "1")>>, <<Box("phone", "1"), Box("Phone", "1"), Pin>>,
   <<Button("Send"), [Box("Fax", "1") EXCEPT !.editable = FALSE]>>}
Fill(name, nth, value) == [name |-> name, nth |-> nth, value |-> value]
MCTasks ==
  {[kind |-> "fill", fields |-> <<Fill("Phone", None, "2"), Fill("Fax", None, "2")>>, target |-> <<>>],
   [kind |-> "fill", fields |-> <<>>, target |-> <<Fill("phone", 0, "2")>>],
   [kind |-> "press", fields |-> <<>>, target |-> <<Fill("Send", None, None)>>, role |-> "submit"],
   [kind |-> "read", fields |-> <<Fill("Pin", None, None), Fill("Fax", None, None)>>, target |-> <<>>]}

VARIABLE moving \* the component that runs in this behaviour

Init ==
  /\ moving \in {"daemon", "lane", "runs", "bridge", "window"}
  /\ DaemonInit
  /\ LaneInit /\ (moving /= "lane" => controls = [f \in Fields |-> Plain]
                                      /\ page \in [Fields -> {CHOOSE c \in Contents : TRUE}])
  /\ RunsInit
  /\ BridgeInit
  /\ WindowInit /\ (moving /= "window" => window.site = None /\ window.controls = CHOOSE c \in WindowPages : TRUE)

InDaemon == moving = "daemon"
DaemonOnly ==
  UNCHANGED <<moving, laneVars, runVars, bridgeVars, windowVars>>
InLane == moving = "lane"
LaneOnly ==
  UNCHANGED <<moving, daemonVars, runVars, bridgeVars, windowVars>>
InRuns == moving = "runs"
RunsOnly ==
  UNCHANGED <<moving, daemonVars, laneVars, bridgeVars, windowVars>>
InBridge == moving = "bridge"
BridgeOnly ==
  UNCHANGED <<moving, daemonVars, laneVars, runVars, windowVars>>
InWindow == moving = "window"
WindowOnly ==
  UNCHANGED <<moving, daemonVars, laneVars, runVars, bridgeVars>>

Next ==
  \/ InDaemon /\ StartUp /\ DaemonOnly
  \/ InDaemon /\ ShutDown /\ DaemonOnly
  \/ InDaemon /\ Subscribe /\ DaemonOnly
  \/ InDaemon /\ DrainReads /\ DaemonOnly
  \/ InDaemon /\ DrainRemoves /\ DaemonOnly
  \/ InDaemon /\ TimePasses /\ DaemonOnly
  \/ InDaemon /\ (\E a \in Triggered, state \in {"draft", "shadow", "archived"} : AgentsSave(a, state)) /\ DaemonOnly
  \/ InDaemon /\ EvaluateSchedules /\ DaemonOnly
  \/ InDaemon /\ (\E t \in Threads : Evaluate(t)) /\ DaemonOnly
  \/ InDaemon /\ (\E t \in Workers : AnnounceFiring(t)) /\ DaemonOnly
  \/ InDaemon /\ (\E t \in Workers : AppendStaged(t)) /\ DaemonOnly
  \/ InLane /\ PreviewBrowserPlan /\ LaneOnly
  \/ InLane /\ ApprovePlan /\ LaneOnly
  \/ InLane /\ StepAnswered /\ LaneOnly
  \/ InLane /\ StepRefused /\ LaneOnly
  \/ InLane /\ StepLost /\ LaneOnly
  \/ InLane /\ RunEnds /\ LaneOnly
  \/ InLane /\ Revert /\ LaneOnly
  \/ InLane /\ SomebodyEdits /\ LaneOnly
  \/ InRuns /\ (\E a \in Helpers : ClickStart("shadow", a)) /\ RunsOnly
  \/ InRuns /\ (\E a \in Helpers : ClickStart("supervised", a)) /\ RunsOnly
  \/ InRuns /\ (\E a \in Helpers : ClickApprove(a)) /\ RunsOnly
  \/ InRuns /\ SetLane("api") /\ RunsOnly
  \/ InRuns /\ SetLane("browser") /\ RunsOnly
  \/ InRuns /\ HoldByPolicy /\ RunsOnly
  \/ InRuns /\ Answer /\ RunsOnly
  \/ InRuns /\ ClickReject /\ RunsOnly
  \/ InRuns /\ ClickRevert /\ RunsOnly
  \/ InRuns /\ ClickDone /\ RunsOnly
  \/ InRuns /\ (\E n \in DOMAIN calls : Compile(n)) /\ RunsOnly
  \/ InRuns /\ (\E n \in DOMAIN calls : Discover(n)) /\ RunsOnly
  \/ InRuns /\ (\E n \in DOMAIN calls : ShadowSteps(n)) /\ RunsOnly
  \/ InRuns /\ (\E n \in DOMAIN calls : SupervisedSteps(n)) /\ RunsOnly
  \/ InRuns /\ (\E n \in DOMAIN calls : Gate(n)) /\ RunsOnly
  \/ InRuns /\ (\E n \in DOMAIN calls : Report(n)) /\ RunsOnly
  \/ InRuns /\ (\E n \in DOMAIN calls : Catch(n)) /\ RunsOnly
  \/ InRuns /\ (\E n \in DOMAIN calls : RejectResumes(n)) /\ RunsOnly
  \/ InRuns /\ (\E n \in DOMAIN calls : ApproveResumes(n)) /\ RunsOnly
  \/ InRuns /\ (\E n \in DOMAIN calls : ApproveReports(n)) /\ RunsOnly
  \/ InRuns /\ (\E n \in DOMAIN calls : RevertReturns(n)) /\ RunsOnly
  \/ InBridge /\ PairingBegin /\ BridgeOnly
  \/ InBridge /\ TokenExpires /\ BridgeOnly
  \/ InBridge /\ Pair /\ BridgeOnly
  \/ InBridge /\ PairCheck /\ BridgeOnly
  \/ InBridge /\ PairFails /\ BridgeOnly
  \/ InBridge /\ PairAnswered /\ BridgeOnly
  \/ InBridge /\ EnsureRelayPort /\ BridgeOnly
  \/ InBridge /\ (\E l \in DOMAIN links : RegisterRelay(l)) /\ BridgeOnly
  \/ InBridge /\ (\E l \in DOMAIN links : ReplyToRegistration(l)) /\ BridgeOnly
  \/ InBridge /\ (\E l \in DOMAIN links : HostReadsReply(l)) /\ BridgeOnly
  \/ InBridge /\ (\E l \in DOMAIN links : HostForwards(l)) /\ BridgeOnly
  \/ InBridge /\ (\E h \in handled : Perform(h)) /\ BridgeOnly
  \/ InBridge /\ (\E h \in handled : PerformThrows(h)) /\ BridgeOnly
  \/ InBridge /\ (\E h \in handled : PostResult(h)) /\ BridgeOnly
  \/ InBridge /\ (\E a \in upward : Deliver(a)) /\ BridgeOnly
  \/ InBridge /\ (\E r \in Requests : DispatchAction(r)) /\ BridgeOnly
  \/ InBridge /\ (\E r \in Requests : BeginWait(r)) /\ BridgeOnly
  \/ InBridge /\ (\E r \in Requests : PushRequest(r)) /\ BridgeOnly
  \/ InBridge /\ (\E r \in Requests : WaitReturns(r)) /\ BridgeOnly
  \/ InBridge /\ (\E r \in Requests : DispatchReturns(r)) /\ BridgeOnly
  \/ InBridge /\ WorkerEvicted /\ BridgeOnly
  \/ InBridge /\ DesktopRestarts /\ BridgeOnly
  \/ InWindow /\ (\E t \in Tasks : StartStep(t)) /\ WindowOnly
  \/ InWindow /\ ApproveChanges /\ WindowOnly
  \/ InWindow /\ DeclineChanges /\ WindowOnly
  \/ InWindow /\ VerifyChanges /\ WindowOnly
  \/ InWindow /\ CheckOrigin /\ WindowOnly
  \/ InWindow /\ NotIssued /\ WindowOnly
  \/ InWindow /\ EvaluateScript /\ WindowOnly
  \/ InWindow /\ EvaluateTimesOut /\ WindowOnly
  \/ InWindow /\ LateScript /\ WindowOnly
  \/ InWindow /\ DiscoverSurface /\ WindowOnly
  \/ InWindow /\ PageMoves /\ WindowOnly

Spec == Init /\ [][Next]_<<moving, daemonVars, laneVars, runVars, bridgeVars, windowVars>>
==============================================================================
