------------------------------- MODULE MCShared ------------------------------
(* What the windows of the desktop share with the user and with each other: the settings, the        *)
(* suggestions, what is being taught and what was, each with the others standing still, as in        *)
(* MCDesktop.                                                                                         *)
EXTENDS LocalSettings, LearnedWorkflows, Suggestions, TeachMode, TLC

CONSTANTS s1, s2, f1 \* two patterns of one family
MCFamilyOf == s1 :> f1 @@ s2 :> f1

MCObservations == {<<"switch", "edit", "edit">>, <<"look", "drag", "paste">>}

VARIABLE moving \* the component that runs in this behaviour

Init ==
  /\ moving \in {"settings", "learned", "suggest", "teach"}
  /\ SettingsInit /\ (moving /= "settings" => settingsFile = None)
  /\ LearnedInit /\ (moving /= "learned" => shelf.kind = "absent")
  /\ SuggestInit
  /\ TeachInit

InSettings == moving = "settings"
SettingsOnly ==
  UNCHANGED <<moving, learnedVars, suggestVars, teachVars>>
InLearned == moving = "learned"
LearnedOnly ==
  UNCHANGED <<moving, settingsVars, suggestVars, teachVars>>
InSuggest == moving = "suggest"
SuggestOnly ==
  UNCHANGED <<moving, settingsVars, learnedVars, teachVars>>
InTeach == moving = "teach"
TeachOnly ==
  UNCHANGED <<moving, settingsVars, learnedVars, suggestVars>>

Next ==
  \/ InSettings /\ (\E w \in Windows : OpenWindow(w)) /\ SettingsOnly
  \/ InSettings /\ (\E w \in Windows : Listen(w)) /\ SettingsOnly
  \/ InSettings /\ (\E w \in Windows : SettingsChanged(w)) /\ SettingsOnly
  \/ InSettings /\ (\E w \in Windows : LoadAnswered(w)) /\ SettingsOnly
  \/ InSettings /\ (\E w \in Windows : SaveAcknowledged(w)) /\ SettingsOnly
  \/ InSettings /\ (\E w \in Windows : Resume(w)) /\ SettingsOnly
  \/ InSettings /\ BarDragged /\ SettingsOnly
  \/ InSettings /\ BarAnswered /\ SettingsOnly
  \/ InSettings /\ PetRelistens /\ SettingsOnly
  \/ InSettings /\ SettingsCommandRuns /\ SettingsOnly
  \/ InSettings /\ SettingsCommandFails /\ SettingsOnly
  \/ InSettings /\ (\E w \in Windows, n \in PauseLengths : PauseFor(w, n)) /\ SettingsOnly
  \/ InSettings /\ (\E s \in Sites : AddDomain(s)) /\ SettingsOnly
  \/ InSettings /\ (\E s \in Sites : RemoveDomain(s)) /\ SettingsOnly
  \/ InSettings /\ (\E a \in OtherApps \union BrowserApps : ToggleApp(a)) /\ SettingsOnly
  \/ InSettings /\ (\E o \in Origins : AddActuationOrigin(o)) /\ SettingsOnly
  \/ InSettings /\ (\E o \in Origins : RemoveActuationOrigin(o)) /\ SettingsOnly
  \/ InSettings /\ (\E e \in Extras : ChangeOther(e)) /\ SettingsOnly
  \/ InSettings /\ PauseLapses /\ SettingsOnly
  \/ InSettings /\ Minute /\ SettingsOnly
  \/ InSettings /\ (\E chosen \in SUBSET Sites, observe \in BOOLEAN : Finish(chosen, observe)) /\ SettingsOnly
  \/ InLearned /\ Hydrate /\ LearnedOnly
  \/ InLearned /\ (\E fails \in BOOLEAN : LoadRuns(fails)) /\ LearnedOnly
  \/ InLearned /\ LoadSettles /\ LearnedOnly
  \/ InLearned /\ SaveRuns /\ LearnedOnly
  \/ InLearned /\ (\E o \in Observations : StartFor(o)) /\ LearnedOnly
  \/ InLearned /\ (\E i \in 1..MaxDrafts : UpdateWorkflow(i)) /\ LearnedOnly
  \/ InLearned /\ (\E i \in 1..MaxDrafts : RemoveWorkflow(i)) /\ LearnedOnly
  \/ InSuggest /\ Refresh /\ SuggestOnly
  \/ InSuggest /\ (\E r \in refreshes, d \in SUBSET Families : EndRefresh(r, d)) /\ SuggestOnly
  \/ InSuggest /\ (\E p \in Patterns, s \in Statuses : Act(p, s)) /\ SuggestOnly
  \/ InSuggest /\ (\E a \in saves : EndAct(a)) /\ SuggestOnly
  \/ InSuggest /\ (\E a \in saves : TickDecides(a)) /\ SuggestOnly
  \/ InSuggest /\ (\E a \in saves : TickSurfaced(a)) /\ SuggestOnly
  \/ InSuggest /\ MotherTick /\ SuggestOnly
  \/ InSuggest /\ TickFails /\ SuggestOnly
  \/ InSuggest /\ (\E d \in SUBSET Families : TickRefreshed(d)) /\ SuggestOnly
  \/ InSuggest /\ LearnMore /\ SuggestOnly
  \/ InSuggest /\ CooldownPasses /\ SuggestOnly
  \/ InSuggest /\ RestartPanel /\ SuggestOnly
  \/ InTeach /\ StartTeach /\ TeachOnly
  \/ InTeach /\ StopTeach /\ TeachOnly
  \/ InTeach /\ TeachAnswered /\ TeachOnly
  \/ InTeach /\ (\E r \in Readings, v \in {"kept", "discarded"} : SetVerdict(r, v)) /\ TeachOnly
  \/ InTeach /\ (\E v \in {"kept", "discarded"} : VerdictForTheRest(v)) /\ TeachOnly
  \/ InTeach /\ SaveKept /\ TeachOnly
  \/ InTeach /\ ResetTeach /\ TeachOnly
  \/ InTeach /\ (\E allowed \in BOOLEAN : ControlLine(allowed)) /\ TeachOnly
  \/ InTeach /\ TimeBoxElapses /\ TeachOnly
  \/ InTeach /\ CaptureTick /\ TeachOnly
  \/ InTeach /\ CaptureOnce /\ TeachOnly
  \/ InTeach /\ ScreenChanges /\ TeachOnly
  \/ InTeach /\ ReadTeachLine /\ TeachOnly
  \/ InTeach /\ (\E answer \in NothingUsable \union {"actions"}, seen \in SUBSET Readings : FrameRead(answer, seen)) /\ TeachOnly
  \/ InTeach /\ InferenceFails /\ TeachOnly
  \/ InTeach /\ TeachSettingChanges /\ TeachOnly

Spec == Init /\ [][Next]_<<moving, settingsVars, learnedVars, suggestVars, teachVars>>

\* The files several callers share: the windows' copies of the settings follow the file (SettingsAreShared), and
\* what was taught is ready exactly when its questions are answered (TaughtIsHonest).
SharedFilesAreHonest == SettingsAreShared /\ TaughtIsHonest
==============================================================================
