------------------------------ MODULE MCLearning -----------------------------
(* From what is observed to an agent: the recorders of traces, segmentation, the pattern engine,    *)
(* proactive timing and the compilers, each with the others standing still, as in MCDesktop.        *)
EXTENDS ActionTraces, Compilation, PatternEngine, Proactivity, TLC

\* Runtimes: none told, one with every adapter, one without the browser's, one that cannot write in the
\* browser, one whose permission is missing.
Adapters == {<<c, m>> \in Capabilities \X {"read", "propose_write", "write"} : m \in Catalog[c].modes}
MCRuntimes ==
  {None, [can |-> Adapters, unmet |-> {}], [can |-> Adapters, unmet |-> {"fill"}],
   [can |-> {a \in Adapters : Catalog[a[1]].connector # "browser"}, unmet |-> {}],
   [can |-> Adapters \ {<<"fill", "write">>, <<"press", "write">>}, unmet |-> {}]}
MCPolicies ==
  {[disabled |-> {}, connectors |-> {"browser", "salesforce", "google_sheets", "local"}, maxWrites |-> 9,
    scheduled |-> FALSE],
   [disabled |-> {"press"}, connectors |-> {"browser", "local"}, maxWrites |-> 1, scheduled |-> TRUE]}
MCCandidates ==
  {{t} : t \in DOMAIN TokenTable} \union
  {{"sheet_read", "crm_edit"}, {"page_table", "crm_open"}, {"focus", "commit"}, {"focus", "page_table"},
   {"commit", "page_table"}, {"focus", "crm_edit"}}
MCPlans == {<<>>, <<"unknown">>, <<"update">>, <<"fill">>, <<"query", "local">>, <<"fields", "propose_fill">>}

TaughtValues ==
  {None, <<"constant", "plain">>, <<"constant", "url">>, <<"prompt", "p">>, <<"secret_ref", "k">>, <<"step_output", 1>>}
TaughtSteps(i) ==
  {[id |-> i, order |-> i, cap |-> c[1], mode |-> c[2], target |-> t, value |-> v, success |-> TRUE] :
     c \in {<<"fields", "read">>, <<"propose_fill", "propose_write">>, <<"fill", "write">>,
            <<"fill", "propose_write">>, <<"unknown", "read">>},
     t \in {None, "plain", "code"}, v \in TaughtValues}
MCWorkflows ==
  {[origins |-> TRUE, steps |-> <<a, b>>, trigger |-> t] :
     a \in {s \in TaughtSteps(1) : s.target = "plain" /\ s.value = <<"prompt", "p">>},
     b \in TaughtSteps(2), t \in {"manual", "hourly", "every_minute"}}
    \union {[origins |-> TRUE, steps |-> <<b, a>>, trigger |-> "manual"] :
              a \in {s \in TaughtSteps(1) : s.target = "plain" /\ s.value = <<"prompt", "p">>},
              b \in {s \in TaughtSteps(2) : s.target = "plain"}}

Observed ==
  [op : {"read_field", "set_value", "press", "scroll"}, stable : {TRUE}, origin : {TRUE},
   role : {"textbox", "button"}, from : {None, 1}, asks : {{}, {"q"}}, label : {"plain", "code"}]
Pressed == [op |-> "press", stable |-> TRUE, origin |-> TRUE, role |-> "button", from |-> None,
            asks |-> {}, label |-> "plain"]
MCTraces ==
  {<<a>> : a \in Observed} \union {<<a, b>> : a \in {x \in Observed : x.from = None /\ x.asks = {}}, b \in Observed}
    \union {<<[Pressed EXCEPT !.stable = FALSE]>>, <<[Pressed EXCEPT !.origin = FALSE]>>}

Shown == [name : {"phone", "city"}, role : {"textbox", "button"}, secure : BOOLEAN, copies : {1}]
Twice == [name |-> "phone", role |-> "textbox", secure |-> FALSE, copies |-> 2]
MCPages == {<<>>, <<Twice>>} \union {<<a>> : a \in Shown} \union {<<a, b>> : a \in Shown, b \in Shown}

\* Kinds of event: on two records and on none, one of them long, and an idle marker.
MCEventKinds ==
  {[token |-> "a", object |-> "x", boundary |-> FALSE, dur |-> None],
   [token |-> "b", object |-> None, boundary |-> FALSE, dur |-> None],
   [token |-> "c", object |-> "y", boundary |-> FALSE, dur |-> 4],
   [token |-> "idle", object |-> None, boundary |-> TRUE, dur |-> None]}

\* Shapes of an episode: three ways to do one task, the same task in an app that is not learned from, aimless
\* navigation, the work a domain pack describes, and an irreversible one.
Ev(app, type, role, object, dobject) ==
  [app |-> app, type |-> type, role |-> role, semantic |-> None, object |-> object, dobject |-> dobject,
   daction |-> None]
Open == Ev("crm", "record_opened", "row", None, None)
Write == Ev("crm", "record_updated", "field", "deal", None)
Rewrite == Ev("crm", "record_updated", "cell", "deal", None)
Hop == Ev("web", "navigation", None, None, None)
Pay == Ev("erp", "record_updated", "field", None, "invoice")
Book == Ev("erp", "record_opened", "row", None, "invoice")
Wipe == Ev("erp", "record_updated", "button", None, None)
Shape(events, minutes, kept) == [events |-> events, minutes |-> minutes, kept |-> kept]
MCShapes ==
  {Shape(<<Open, Write, Write>>, 10, "learn"), Shape(<<Open, Write, Rewrite>>, 30, "learn"),
   Shape(<<Open, Rewrite, Rewrite>>, 30, "learn"), Shape(<<Open, Write, Write>>, 10, "restricted"),
   Shape(<<Hop, Hop, Hop>>, 10, "learn"), Shape(<<Book, Hop, Pay>>, 10, "learn"),
   Shape(<<Wipe, Wipe, Open>>, 10, "learn")}
Cap(risk, reversible) == [risk |-> risk, reversible |-> reversible, csv |-> FALSE]
MCChain ==
  Token(Open) :> <<Cap("low", TRUE)>> @@ Token(Write) :> <<Cap("low", TRUE), Cap("medium", TRUE)>>
  @@ Token(Rewrite) :> <<Cap("low", TRUE), Cap("medium", TRUE)>> @@ Token(Hop) :> <<Cap("low", TRUE)>>
  @@ Token(Book) :> <<Cap("low", TRUE)>> @@ Token(Pay) :> <<Cap("low", TRUE), Cap("medium", TRUE)>>
  @@ Token(Wipe) :> <<Cap("high", FALSE)>>
MCPackWorkflows ==
  <<[signature |-> <<<<{"*"}, {"invoice"}, {"row"}>>, <<{"pay"}, {"invoice"}, {"*"}>>>>,
     cadence |-> "weekly", minReps |-> 2]>>
MCPackActions == [pay |-> [on |-> {"invoice"}, risk |-> "high"]]
MCTunings ==
  {[occurrences |-> 1, days |-> 0, minutes |-> 0, opportunity |-> 0, refused |-> {}],
   [occurrences |-> 3, days |-> 2, minutes |-> 20, opportunity |-> 400,
    refused |-> {<<Token(Open), Token(Write), Token(Rewrite)>>}]}

\* A pack rule of each cadence, labels whose date is plain, ambiguous, incomplete or one of several, and a short
\* calendar.
CONSTANTS w1, w2
Pack(cadence, timing, lead, wants, c, quiet) ==
  [cadence |-> cadence, fiscal |-> TRUE, timing |-> timing, lead |-> lead, wants |-> wants, ceiling |-> c,
   quiet |-> quiet]
MCPackRules ==
  {Pack("fiscal_monthly", "pre_close", 2, {"date", "runs_matched"}, None, <<>>),
   Pack("date_driven", None, 3, {"days"}, 1, <<[start |-> 4, end |-> 4]>>),
   Pack("weekly", "same_weekday_observed", None, {"account"}, None, <<>>),
   Pack("continuous", "after_verification", None, {"runs_matched", "runs_tested"}, 2, <<>>)}
MCMonthLengths == <<4, 3, 5>>
Label(form, a, b, two, many) == [form |-> form, a |-> a, b |-> b, twoDigit |-> two, many |-> many]
MCLabels ==
  {Label("numeric", a, b, FALSE, many) : a \in {2, 4}, b \in {3, 5}, many \in BOOLEAN}
    \union {Label("named", 2, 3, two, FALSE) : two \in BOOLEAN}
    \union {Label("year_first", 3, 1, FALSE, TRUE), Label("year_first", 2, 4, FALSE, FALSE)}
MCUserQuiet == <<[start |-> 6, end |-> None], [start |-> 9, end |-> 8], [start |-> 7, end |-> 8]>>
MCLadder == <<2, 4>>


VARIABLE moving \* the component that runs in this behaviour

Init ==
  /\ moving \in {"traces", "compile", "segment", "engine", "proactive"}
  /\ TracesInit
  /\ CompileInit
  /\ SegmentInit /\ (moving /= "segment" => ~splitting)
  /\ EngineInit /\ (moving /= "engine" => tuning = CHOOSE t \in Tunings : TRUE)
  /\ ProactiveInit /\ (moving /= "proactive" => rule = (CHOOSE p \in PackRules : TRUE) /\ ceiling = None /\ today = 1)

InTraces == moving = "traces"
TracesOnly ==
  UNCHANGED <<moving, compileVars, segmentVars, engineVars, proactiveVars>>
InCompile == moving = "compile"
CompileOnly ==
  UNCHANGED <<moving, traceVars, segmentVars, engineVars, proactiveVars>>
InSegment == moving = "segment"
SegmentOnly ==
  UNCHANGED <<moving, traceVars, compileVars, engineVars, proactiveVars>>
InEngine == moving = "engine"
EngineOnly ==
  UNCHANGED <<moving, traceVars, compileVars, segmentVars, proactiveVars>>
InProactive == moving = "proactive"
ProactiveOnly ==
  UNCHANGED <<moving, traceVars, compileVars, segmentVars, engineVars>>

Next ==
  \/ InTraces /\ (\E place \in {"open", "secure", "bundle", "name"}, kind \in Kinds, idle \in BOOLEAN
       : HandleAxNotification(place, kind, idle)) /\ TracesOnly
  \/ InTraces /\ (\E place \in {"open", "secure"}, kind \in Kinds : ObservePage(place, kind)) /\ TracesOnly
  \/ InTraces /\ FlushTrace /\ TracesOnly
  \/ InTraces /\ Reconfigure /\ TracesOnly
  \/ InCompile /\ LookIt /\ CompileOnly
  \/ InCompile /\ CouldNotLook /\ CompileOnly
  \/ InCompile /\ AskForPattern /\ CompileOnly
  \/ InCompile /\ AskForTaught /\ CompileOnly
  \/ InCompile /\ AskForTrace /\ CompileOnly
  \/ InCompile /\ NameIt /\ CompileOnly
  \/ InCompile /\ CompileRecipe /\ CompileOnly
  \/ InCompile /\ DeclineRecipe /\ CompileOnly
  \/ InCompile /\ FallToModel /\ CompileOnly
  \/ InCompile /\ DraftIt /\ CompileOnly
  \/ InCompile /\ GiveUpDrafting /\ CompileOnly
  \/ InSegment /\ (\E kind \in EventKinds, at \in Moments : StoreEvent(kind, at)) /\ SegmentOnly
  \/ InEngine /\ (\E shape \in Shapes, later \in 0..1 : RecordRun(shape, later)) /\ EngineOnly
  \/ InProactive /\ DayPasses /\ ProactiveOnly
  \/ InProactive /\ (\E l \in Labels : rule.cadence = "date_driven" /\ ReadLabel(l)) /\ ProactiveOnly
  \/ InProactive /\ (\E p \in Tracked : EvidenceClears(p)) /\ ProactiveOnly
  \/ InProactive /\ (\E p \in Tracked : RipenessChanges(p)) /\ ProactiveOnly
  \/ InProactive /\ (\E reply \in {"accepted", "snoozed", "dismissed", "never"} : AnswerCard(reply)) /\ ProactiveOnly

Spec == Init /\ [][Next]_<<moving, traceVars, compileVars, segmentVars, engineVars, proactiveVars>>
==============================================================================
