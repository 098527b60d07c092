------------------------------ MODULE MCServices -----------------------------
(* What keeps records, watches and shows: the agents file, the observer, the server run panel,    *)
(* the pet and the bar, the audit chain, the connector vault and device sessions, each with the  *)
(* others standing still, as in MCDesktop. The pet and the bar share a module and no state.      *)
EXTENDS AgentStore, ObserverSupervisor, ServerPanel, DesktopSurfaces,
         AuditChain, ConnectorVault, DeviceSessions

petVars == <<conditions, shows, gazing, player>>
barVars == <<beat, fallback, hold, health, funnel>>

VARIABLE moving \* the component that runs in this behaviour

Init ==
  /\ moving \in {"store", "observer", "panel", "pet", "bar", "audit", "vault", "device"}
  /\ ObserverInit /\ (moving /= "observer" => gateFile = "paused")
  /\ StoreInit /\ (moving /= "store" => file = NoAgents /\ ~damaged)
  /\ ServerPanelInit
  /\ SurfaceInit
  /\ AuditInit
  /\ VaultInit
  /\ DeviceInit

InStore == moving = "store"
StoreOnly ==
  UNCHANGED <<moving, observerVars, panelVars, petVars, barVars, auditVars,
              vaultVars, deviceVars>>
InObserver == moving = "observer"
ObserverOnly ==
  UNCHANGED <<moving, storeVars, panelVars, petVars, barVars, auditVars, vaultVars,
              deviceVars>>
InPanel == moving = "panel"
PanelOnly ==
  UNCHANGED <<moving, storeVars, observerVars, petVars, barVars, auditVars,
              vaultVars, deviceVars>>
InPet == moving = "pet"
PetOnly ==
  UNCHANGED <<moving, storeVars, observerVars, panelVars, barVars, auditVars,
              vaultVars, deviceVars>>
InBar == moving = "bar"
BarOnly ==
  UNCHANGED <<moving, storeVars, observerVars, panelVars, petVars, auditVars,
              vaultVars, deviceVars>>
InAudit == moving = "audit"
AuditOnly ==
  UNCHANGED <<moving, storeVars, observerVars, panelVars, petVars, barVars,
              vaultVars, deviceVars>>
InVault == moving = "vault"
VaultOnly ==
  UNCHANGED <<moving, storeVars, observerVars, panelVars, petVars, barVars,
              auditVars, deviceVars>>
InDevice == moving = "device"
DeviceOnly ==
  UNCHANGED <<moving, storeVars, observerVars, panelVars, petVars, barVars,
              auditVars, vaultVars>>

Next ==
  \/ InStore /\ OpenApp /\ StoreOnly
  \/ InStore /\ QuitApp /\ StoreOnly
  \/ InStore /\ HydrateReads /\ StoreOnly
  \/ InStore /\ HydrateSets /\ StoreOnly
  \/ InStore /\ SaveWrites /\ StoreOnly
  \/ InStore /\ SaveAnswered /\ StoreOnly
  \/ InStore /\ SaveFails /\ StoreOnly
  \/ InStore /\ GrantOrigin /\ StoreOnly
  \/ InStore /\ (\E a \in Agents : ArchiveAgent(a)) /\ StoreOnly
  \/ InStore /\ (\E a \in Agents : EditDescription(a)) /\ StoreOnly
  \/ InStore /\ (\E a \in Agents : RecordRuntimeActivity(a)) /\ StoreOnly
  \/ InStore /\ (\E a \in Agents : RecordApprovedRun(a)) /\ StoreOnly
  \/ InStore /\ (\E a \in Agents : GrantDraftAutonomy(a)) /\ StoreOnly
  \/ InStore /\ (\E a \in Agents : CompileFromTrace(a)) /\ StoreOnly
  \/ InStore /\ (\E a \in Agents : CreateDraft(a)) /\ StoreOnly
  \/ InStore /\ (\E a \in Agents : Finalize(a)) /\ StoreOnly
  \/ InStore /\ (\E a \in Agents : Register(a)) /\ StoreOnly
  \/ InObserver /\ (\E v \in {"paused", "watching"} : SettingsSave(v)) /\ ObserverOnly
  \/ InObserver /\ SettingsWritten /\ ObserverOnly
  \/ InObserver /\ InvalidateCache /\ ObserverOnly
  \/ InObserver /\ BrowserEventArrives /\ ObserverOnly
  \/ InObserver /\ BrowserEventIngested /\ ObserverOnly
  \/ InObserver /\ (\E t \in Loaders : LoadReads(t)) /\ ObserverOnly
  \/ InObserver /\ (\E t \in Loaders : LoadCaches(t)) /\ ObserverOnly
  \/ InObserver /\ StayDisabled /\ ObserverOnly
  \/ InObserver /\ NoBinary /\ ObserverOnly
  \/ InObserver /\ SpawnFails /\ ObserverOnly
  \/ InObserver /\ Spawn /\ ObserverOnly
  \/ InObserver /\ Configure /\ ObserverOnly
  \/ InObserver /\ Tick /\ ObserverOnly
  \/ InObserver /\ ReadLine /\ ObserverOnly
  \/ InObserver /\ ReadEvent /\ ObserverOnly
  \/ InObserver /\ ObservedEventIngested /\ ObserverOnly
  \/ InObserver /\ ReadResult /\ ObserverOnly
  \/ InObserver /\ ChildExits /\ ObserverOnly
  \/ InObserver /\ Reaped /\ ObserverOnly
  \/ InObserver /\ CooledOff /\ ObserverOnly
  \/ InObserver /\ QueueTeachControl /\ ObserverOnly
  \/ InObserver /\ HandleControl /\ ObserverOnly
  \/ InObserver /\ (\E r \in Asks : NativeActionDispatch(r)) /\ ObserverOnly
  \/ InObserver /\ (\E r \in Asks : NativeTimeout(r)) /\ ObserverOnly
  \/ InObserver /\ (\E r \in Asks : AskExpires(r)) /\ ObserverOnly
  \/ InPanel /\ (\E c \in Cards : StartOnServer(c)) /\ PanelOnly
  \/ InPanel /\ (\E c \in Cards : Registered(c, "shadow")) /\ PanelOnly
  \/ InPanel /\ (\E c \in Cards : Registered(c, "supervised")) /\ PanelOnly
  \/ InPanel /\ (\E n \in DOMAIN serverCalls : StartRun(n)) /\ PanelOnly
  \/ InPanel /\ (\E n \in DOMAIN serverCalls : CommandFails(n)) /\ PanelOnly
  \/ InPanel /\ (\E n \in DOMAIN serverCalls : SeesPending(n)) /\ PanelOnly
  \/ InPanel /\ (\E n \in DOMAIN serverCalls : Poll(n)) /\ PanelOnly
  \/ InPanel /\ (\E n \in DOMAIN serverCalls : PollsRunOut(n)) /\ PanelOnly
  \/ InPanel /\ (\E n \in DOMAIN serverCalls : Proposal(n)) /\ PanelOnly
  \/ InPanel /\ (\E n \in DOMAIN serverCalls : ShadowProposal(n)) /\ PanelOnly
  \/ InPanel /\ (\E n \in DOMAIN serverCalls : LoadReceipt(n)) /\ PanelOnly
  \/ InPanel /\ (\E n \in DOMAIN serverCalls : Approves(n)) /\ PanelOnly
  \/ InPanel /\ (\E n \in DOMAIN serverCalls : Rejects(n)) /\ PanelOnly
  \/ InPanel /\ ApproveOnServer /\ PanelOnly
  \/ InPanel /\ RejectOnServer /\ PanelOnly
  \/ InPanel /\ ResetServerPanel /\ PanelOnly
  \/ InPanel /\ (\E r \in DOMAIN serverRuns : ServerMoves(r)) /\ PanelOnly
  \/ InPet /\ (\E e \in PetEvents, reduced \in BOOLEAN : PetHears(e, reduced)) /\ PetOnly
  \/ InPet /\ (\E reduced \in BOOLEAN : DisplayEnds(reduced)) /\ PetOnly
  \/ InPet /\ (\E reduced \in BOOLEAN : GazeChanges(reduced)) /\ PetOnly
  \/ InPet /\ FrameTimer /\ PetOnly
  \/ InPet /\ LabControl /\ PetOnly
  \/ InBar /\ (\E b \in StickyBeats : StickyBeat(b)) /\ BarOnly
  \/ InBar /\ (\E b \in FunnelBeats : FunnelBeat(b)) /\ BarOnly
  \/ InBar /\ HoldEnds /\ BarOnly
  \/ InBar /\ (\E h \in HealthAnswers : HealthPolled(h)) /\ BarOnly
  \/ InAudit /\ (\E e \in AuditEvents : StampEvent(e)) /\ AuditOnly
  \/ InAudit /\ (\E e \in AuditEvents : LockHead(e)) /\ AuditOnly
  \/ InAudit /\ (\E e \in AuditEvents : FindNoHead(e)) /\ AuditOnly
  \/ InAudit /\ (\E e \in AuditEvents : CreateHead(e)) /\ AuditOnly
  \/ InAudit /\ (\E e \in AuditEvents : CommitEvent(e)) /\ AuditOnly
  \/ InAudit /\ (\E e \in AuditEvents : AbortEvent(e)) /\ AuditOnly
  \/ InVault /\ (\E n \in Nonces : AuthorizeConnector(n)) /\ VaultOnly
  \/ InVault /\ (\E n \in Nonces : CallbackRefused(n)) /\ VaultOnly
  \/ InVault /\ (\E n \in Nonces : CallbackConnects(n)) /\ VaultOnly
  \/ InVault /\ Disconnect /\ VaultOnly
  \/ InVault /\ DependentsResume /\ VaultOnly
  \/ InVault /\ TokenExpires /\ VaultOnly
  \/ InVault /\ (\E c \in VaultCalls, kind \in {"read", "write"} : CallBegins(c, kind)) /\ VaultOnly
  \/ InVault /\ (\E c \in VaultCalls : CallLoads(c)) /\ VaultOnly
  \/ InVault /\ (\E c \in VaultCalls : CallSends(c)) /\ VaultOnly
  \/ InVault /\ (\E c \in VaultCalls : RefreshLoads(c)) /\ VaultOnly
  \/ InVault /\ (\E c \in VaultCalls : RefreshRefused(c)) /\ VaultOnly
  \/ InVault /\ (\E c \in VaultCalls : RefreshExchanged(c)) /\ VaultOnly
  \/ InVault /\ (\E c \in VaultCalls : StoreTokens(c)) /\ VaultOnly
  \/ InDevice /\ (\E r \in Rotations, token \in DOMAIN sessions : RotateArrives(r, token)) /\ DeviceOnly
  \/ InDevice /\ (\E r \in Rotations : RotateRevokes(r)) /\ DeviceOnly
  \/ InDevice /\ (\E r \in Rotations : RotateConflicts(r)) /\ DeviceOnly
  \/ InDevice /\ (\E r \in Rotations : RotateCut(r)) /\ DeviceOnly
  \/ InDevice /\ (\E r \in Rotations, reaches \in BOOLEAN : RotateCreates(r, reaches)) /\ DeviceOnly
  \/ InDevice /\ (\E command \in {"enroll", "sync"} : Ask(command)) /\ DeviceOnly
  \/ InDevice /\ EnrollSucceeds /\ DeviceOnly
  \/ InDevice /\ EnrollFails /\ DeviceOnly
  \/ InDevice /\ SyncSettles /\ DeviceOnly
  \/ InDevice /\ Unenroll /\ DeviceOnly
  \/ InDevice /\ RefreshEnrollment /\ DeviceOnly

Spec == Init /\ [][Next]_<<moving, storeVars, observerVars, panelVars, petVars, barVars, auditVars, vaultVars, deviceVars>>

\* What the user is shown of a moving system is true: the observer status (StatusIsHonest) and the pet and the
\* status bar (SurfacesAreTrue).
ShownIsTrue == StatusIsHonest /\ SurfacesAreTrue

\* Credentials are used only while they are granted: those of a connector (DisconnectHolds) and the token of a
\* device (RotationIsSafe).
CredentialsAreSound == DisconnectHolds /\ RotationIsSafe
==============================================================================
