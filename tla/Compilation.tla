----------------------------- MODULE Compilation -----------------------------
(***************************************************************************)
(* From what was observed or taught to an AgentSpec: compiler.ts (recipes, *)
(* then two model drafts), compile-learned.ts (a configured workflow) and  *)
(* trace-compiler.ts (a recorded trace), with the validator, the policy    *)
(* evaluation and the runtime gate they share.  Capabilities, tokens and   *)
(* literals are abstracted to the classes those checks tell apart; a spec  *)
(* is its steps, its declared inputs and what it may write.  A compiled    *)
(* browser agent then looks at the page before its first step              *)
(* (resolve-on-surface.ts and the intent layer's resolve.ts).              *)
(***************************************************************************)
EXTENDS Values, SequencesExt

CONSTANTS
  Candidates,  \* canonical sequences, as the sets of their tokens
  Runtimes,    \* CapabilityRuntime: [can : SUBSET (Capabilities \X Modes), unmet : SUBSET Capabilities], or None
  Policies,    \* OrgPolicy: [disabled, connectors, maxWrites, scheduled]
  Plans,       \* what a model may draft: sequences of capability ids
  Workflows,   \* learned workflows
  Pages,       \* what a page may show: sequences of controls
  Traces,      \* recorded traces: sequences of observed actions
  MaxSteps,    \* MAX_STEPS
  CrmLimit,    \* MEDIUM_CRM_WRITE_LIMIT
  MaxWrites,   \* MAX_RECORD_WRITES; budgets ask for one more at the most
  CostBudget,      \* budgets.max_cost_usd
  MaxCost      \* bound: what one model call may cost

ASSUME PlansAreLists == \A plan \in Plans : plan \in Seq({plan[k] : k \in DOMAIN plan})
ASSUME WorkflowsAreLists ==
  \A w \in Workflows : w.steps \in Seq({w.steps[k] : k \in DOMAIN w.steps}) /\ \A k \in DOMAIN w.steps : w.steps[k].order \in Nat
ASSUME PagesAreLists ==
  \A page \in Pages : page \in Seq({page[k] : k \in DOMAIN page}) /\ \A k \in DOMAIN page : page[k].copies \in Nat \ {0}
ASSUME TracesAreLists == \A trace \in Traces : trace \in Seq({trace[k] : k \in DOMAIN trace})
ASSUME BudgetAssumption == CostBudget \in Nat

VARIABLES
  request,  \* what is being compiled, or None
  stage,    \* "idle", "naming", "recipe", "draft", "done"
  attempt,  \* drafts asked for
  counted,  \* the usages the compiler has added up
  spent,    \* history: what the provider's calls have cost
  outcome,  \* CompileResult, or None
  surface   \* SurfaceResolution of the run, with what it was resolved from, or None

compileVars == <<request, stage, attempt, counted, spent, outcome, surface>>

-----------------------------------------------------------------------------
(* The catalog *)

\* The kinds of capability the checks tell apart; "unknown" is an id the catalog does not have.
Catalog ==
  [fields         |-> [modes |-> {"read"}, risk |-> "low", connector |-> "browser"],
   table          |-> [modes |-> {"read"}, risk |-> "low", connector |-> "browser"],
   propose_fill   |-> [modes |-> {"propose_write"}, risk |-> "low", connector |-> "browser"],
   fill           |-> [modes |-> {"propose_write", "write"}, risk |-> "high", connector |-> "browser"],
   press          |-> [modes |-> {"propose_write", "write"}, risk |-> "high", connector |-> "browser"],
   query          |-> [modes |-> {"read"}, risk |-> "low", connector |-> "salesforce"],
   propose_update |-> [modes |-> {"propose_write"}, risk |-> "low", connector |-> "salesforce"],
   update         |-> [modes |-> {"propose_write", "write"}, risk |-> "medium", connector |-> "salesforce"],
   sheet          |-> [modes |-> {"read"}, risk |-> "low", connector |-> "google_sheets"],
   local          |-> [modes |-> {"read"}, risk |-> "low", connector |-> "local"]]

Capabilities == DOMAIN Catalog

\* capabilitiesForToken; page_updates is a value change on a role that holds no value.
TokenTable ==
  [focus |-> {"fields"}, page_updates |-> {"fields"}, commit |-> {"propose_fill", "fill"},
   page_table |-> {"table"}, crm_open |-> {"query"}, crm_edit |-> {"propose_update", "update"},
   sheet_read |-> {"sheet", "local"}, context |-> {}]

\* allowedCapabilityIds
Mapped(tokens) == UNION {TokenTable[t] : t \in tokens}

-----------------------------------------------------------------------------
(* validateAgentSpec, evaluateSpec, validateRuntimeCapabilities *)

\* step(): out is the output key, reads the step_output refs, wants the agent_input refs, literals
\* the classes of its literal values.
Step(order, id, cap, mode, reads, wants) ==
  [id |-> id, order |-> order, cap |-> cap, mode |-> mode, reads |-> reads, wants |-> wants,
   out |-> <<"out", id>>, literals |-> {}, approval |-> mode = "write",
   risk |-> IF cap \in Capabilities THEN Catalog[cap].risk ELSE "low"]

Indices(spec) == DOMAIN spec.steps

\* Where a step_output ref is produced: the last step with that output key, or None
ProducerOrder(spec, ref) ==
  LET ks == {k \in Indices(spec) : spec.steps[k].out = ref}
  IN  IF ks = {} THEN None ELSE spec.steps[CHOOSE k \in ks : \A j \in ks : j <= k].order

RefsResolve(spec) ==
  \A k \in Indices(spec) :
    LET s == spec.steps[k]
    IN  /\ s.wants \subseteq spec.inputs
        /\ \A ref \in s.reads : ProducerOrder(spec, ref) # None /\ ProducerOrder(spec, ref) < s.order

\* The capability rules V-CAP-1 to V-RISK-2
CapabilityRules(s) ==
  /\ s.cap \in Capabilities /\ s.mode \in Catalog[s.cap].modes
  /\ s.mode = "write" => "propose_write" \in Catalog[s.cap].modes
  /\ s.risk = "high" => s.approval

\* minCronIntervalMinutes: a schedule is a class of cron expression
CronIsSlow(trigger) == trigger \notin {"every_minute", "unparseable"}

validateAgentSpec(spec) ==
  /\ Len(spec.steps) <= MaxSteps
  /\ {spec.steps[k].order : k \in Indices(spec)} = Indices(spec)
  /\ Cardinality({spec.steps[k].id : k \in Indices(spec)}) = Len(spec.steps)
  /\ RefsResolve(spec)
  /\ \A k \in Indices(spec) : spec.steps[k].literals = {} /\ CapabilityRules(spec.steps[k])
  /\ spec.writes <= MaxWrites /\ CronIsSlow(spec.trigger)

\* classifyStepRisk: a browser write and a large CRM write are high whatever the catalog says.
EffectiveRisk(s, spec) ==
  IF s.cap \notin Capabilities \/ (s.mode # "read" /\ spec.writes > MaxWrites) THEN "prohibited"
  ELSE IF s.mode = "write" /\ (s.cap = "fill" \/ (Catalog[s.cap].connector = "salesforce" /\ spec.writes > CrmLimit))
       THEN "high" ELSE Catalog[s.cap].risk

\* evaluateStep
StepDenied(s, spec, policy) ==
  \/ s.cap \notin Capabilities
  \/ s.cap \in policy.disabled \/ Catalog[s.cap].connector \notin policy.connectors
  \/ EffectiveRisk(s, spec) = "prohibited"

\* evaluateSpec
SpecDenied(spec, policy) ==
  \/ \E k \in Indices(spec) :
       \/ StepDenied(spec.steps[k], spec, policy)
       \/ EffectiveRisk(spec.steps[k], spec) = "high" /\ ~spec.steps[k].approval
  \/ spec.writes > policy.maxWrites
  \/ spec.trigger \in {"hourly", "every_minute", "unparseable"} /\ ~policy.scheduled

\* runtimeHas: an adapter that is registered and whose prerequisites are met, in any mode
RuntimeHas(runtime, cap) ==
  runtime # None =>
    /\ cap \notin runtime.unmet
    /\ \E mode \in {"read", "propose_write", "write"} : <<cap, mode>> \in runtime.can

\* validateRuntimeCapabilities, on the built spec: every step in the mode it needs
RuntimeUnasked(spec, runtime) == TRUE \* a mutant
RuntimeReady(spec, runtime) ==
  runtime # None => \A k \in Indices(spec) :
                      LET s == spec.steps[k] IN <<s.cap, s.mode>> \in runtime.can /\ s.cap \notin runtime.unmet

Valid(spec, by) == [status |-> "valid", spec |-> spec, by |-> by]
Answer(status) == [status |-> status]

\* The answer for a built spec: the shared validator, the policy, then the runtime
Judge(spec, by, policy, runtime) ==
  IF ~validateAgentSpec(spec) \/ SpecDenied(spec, policy) THEN Answer("blocked")
  ELSE IF ~RuntimeReady(spec, runtime) THEN Answer("needs_runtime")
  ELSE Valid(spec, by)

-----------------------------------------------------------------------------
(* compileAgentSpec: recipes *)

\* finalize: a draft with a manual trigger and the request's budgets
Draft(steps, inputs, req) == [steps |-> steps, inputs |-> inputs, trigger |-> "manual", writes |-> req.writes]

ReconciliationSteps ==
  << Step(1, 1, "local", "read", {}, {"account_csv"}),
     Step(2, 2, "local", "read", {<<"out", 1>>}, {}),
     Step(3, 3, "query", "read", {<<"out", 2>>}, {}),
     Step(4, 4, "local", "read", {<<"out", 2>>, <<"out", 3>>}, {}),
     Step(5, 5, "propose_update", "propose_write", {<<"out", 4>>}, {}),
     Step(6, 6, "update", "write", {<<"out", 5>>}, {}),
     Step(7, 7, "local", "read", {<<"out", 4>>, <<"out", 6>>}, {}) >>

\* Reads the page, the table when one was read; proposes, fills and re-reads when a fill was seen.
BrowserSteps(tokens) ==
  LET table == IF "table" \in Mapped(tokens) THEN <<Step(2, 2, "table", "read", {}, {})>> ELSE <<>>
      n == 1 + Len(table)
      fill == << Step(n + 1, n + 1, "propose_fill", "propose_write", {}, {"field_values"}),
                 Step(n + 2, n + 2, "fill", "write", {<<"out", n + 1>>}, {}),
                 Step(n + 3, n + 3, "fields", "read", {<<"out", n + 2>>}, {"discovered_fields"}) >>
  IN  <<Step(1, 1, "fields", "read", {}, {"discovered_fields"})>> \o table
      \o (IF "fill" \in Mapped(tokens) THEN fill ELSE <<>>)

BrowserInputs(tokens) ==
  {"discovered_fields"} \union (IF "fill" \in Mapped(tokens) THEN {"field_values"} ELSE {})

\* requiredForBrowserRecipe
RequiredForBrowser(tokens) ==
  {"fields"} \union (Mapped(tokens) \intersect {"table"})
             \union (IF "fill" \in Mapped(tokens) THEN {"propose_fill", "fill"} ELSE {})

LooksLikeReconciliation(tokens) ==
  /\ tokens \intersect {"sheet_read", "page_table"} # {}
  /\ tokens \intersect {"crm_open", "crm_edit"} # {}

\* RECONCILIATION_RECIPE.matches, BROWSER_WORKFLOW_RECIPE.matches
MatchesReconciliation(req) ==
  req.intent = "reconcile" \/ (req.intent = "update" /\ LooksLikeReconciliation(req.tokens))

MatchesBrowser(req) ==
  /\ req.intent = "browser" /\ Mapped(req.tokens) # {}
  /\ \A cap \in Mapped(req.tokens) : Catalog[cap].connector = "browser"
  /\ \A cap \in RequiredForBrowser(req.tokens) : RuntimeHas(req.runtime, cap)

\* RECIPES.find and build
RecipeSpec(req) ==
  IF MatchesReconciliation(req) THEN Draft(ReconciliationSteps, {"account_csv"}, req)
  ELSE Draft(BrowserSteps(req.tokens), BrowserInputs(req.tokens), req)

Start(req) ==
  /\ stage = "idle" /\ request' = req /\ stage' = (IF req.model THEN "naming" ELSE "recipe")
  /\ UNCHANGED <<attempt, counted, spent, outcome, surface>>

\* nameRecommendation: copy only; a failed call, or one past the budget, leaves no trace.
Name(cost, ok) ==
  /\ stage = "naming" /\ stage' = "recipe" /\ spent' = spent + cost
  /\ counted' = (IF ok /\ counted + cost <= CostBudget THEN counted + cost ELSE counted)
  /\ UNCHANGED <<request, attempt, outcome, surface>>

Settle(answer) == stage' = "done" /\ outcome' = answer

CompileRecipe ==
  /\ stage = "recipe" /\ (MatchesReconciliation(request) \/ MatchesBrowser(request))
  /\ Settle(Judge(RecipeSpec(request), "recipe", request.policy, request.runtime))
  /\ UNCHANGED <<request, attempt, counted, spent, surface>>

NoRecipe == stage = "recipe" /\ ~MatchesReconciliation(request) /\ ~MatchesBrowser(request)

\* A CRM update whose source was never seen
SourceNotSeen == request.intent = "update" /\ ~LooksLikeReconciliation(request.tokens)

\* A browser intent one of whose capabilities the runtime lacks
BrowserUnavailable ==
  /\ request.runtime # None /\ request.intent = "browser"
  /\ \E cap \in RequiredForBrowser(request.tokens) : ~RuntimeHas(request.runtime, cap)

DeclineRecipe ==
  /\ NoRecipe /\ (SourceNotSeen \/ BrowserUnavailable)
  /\ Settle(Answer(IF SourceNotSeen THEN "needs_configuration" ELSE "needs_runtime"))
  /\ UNCHANGED <<request, attempt, counted, spent, surface>>

FallToModel ==
  /\ NoRecipe /\ ~SourceNotSeen /\ ~BrowserUnavailable /\ stage' = "draft"
  /\ UNCHANGED <<request, attempt, counted, spent, outcome, surface>>

-----------------------------------------------------------------------------
(* compileAgentSpec: model drafts *)

\* planToSpecParts: any capability of the catalog, never in write mode
DraftMode(cap) == IF "write" \in Catalog[cap].modes THEN "propose_write" ELSE CHOOSE m \in Catalog[cap].modes : TRUE

PlanIsUsable(plan) == plan # <<>> /\ \A k \in DOMAIN plan : plan[k] \in Capabilities

PlanSpec(plan, req) ==
  Draft([k \in DOMAIN plan |-> Step(k, k, plan[k], DraftMode(plan[k]), {}, {})], {}, req)

\* A lost answer, a plan the catalog lacks, or one that does not pass leads to the next attempt.
DraftPasses(plan, req) ==
  plan # None /\ PlanIsUsable(plan) /\ Judge(PlanSpec(plan, req), "model", req.policy, None).status = "valid"

MayDraft == stage = "draft" /\ request.model /\ attempt < 2

DraftAgain(cost, plan) ==
  /\ MayDraft /\ ~DraftPasses(plan, request) /\ (plan = None \/ counted + cost <= CostBudget)
  /\ attempt' = attempt + 1 /\ spent' = spent + cost
  /\ UNCHANGED <<request, stage, counted, outcome, surface>>

DraftTooDear(cost) ==
  /\ MayDraft /\ counted + cost > CostBudget /\ attempt' = 2 /\ spent' = spent + cost
  /\ UNCHANGED <<request, stage, counted, outcome, surface>>

DraftAccepted(cost, plan) ==
  /\ MayDraft /\ DraftPasses(plan, request) /\ counted + cost <= CostBudget
  /\ attempt' = attempt + 1 /\ spent' = spent + cost /\ counted' = counted + cost
  /\ Settle(Judge(PlanSpec(plan, request), "model", request.policy, request.runtime))
  /\ UNCHANGED <<request, surface>>

GiveUpDrafting ==
  /\ stage = "draft" /\ ~MayDraft /\ Settle(Answer("needs_configuration"))
  /\ UNCHANGED <<request, attempt, counted, spent, surface>>

-----------------------------------------------------------------------------
(* compileLearnedWorkflow *)

\* workflowReadiness: the gaps are re-derived from the record on every ask.
LearnedStepReady(s, workflow) ==
  /\ s.cap \in Capabilities /\ Catalog[s.cap].connector = "browser" => s.target # None
  /\ s.mode # "read" => s.value # None /\ s.success
  /\ \A ref \in {v \in {s.value} : v # None /\ v[1] = "step_output"} :
       \E k \in DOMAIN workflow.steps : workflow.steps[k].id = ref[2] /\ workflow.steps[k].order < s.order

WorkflowReady(workflow) ==
  /\ workflow.origins /\ workflow.steps # <<>>
  /\ \A k \in DOMAIN workflow.steps : LearnedStepReady(workflow.steps[k], workflow)

\* toAgentStep: a step_output value names the other step's id, while outputs are keyed <id>_out.
LearnedStep(s) ==
  LET kind == IF s.value = None THEN "none" ELSE s.value[1]
      base == Step(s.order, s.id, s.cap, s.mode,
                   IF kind = "step_output" THEN {s.value} ELSE {},
                   IF kind \in {"prompt", "secret_ref"} THEN {<<kind, s.id>>} ELSE {})
  IN  [base EXCEPT !.literals = {x \in {s.target} : x = "code"} \union
                                {x \in {s.value} : kind = "constant" /\ x[2] # "plain"}]

\* sort((a, b) => a.order - b.order): step x takes its place after the steps of a lower or equal order.
Inserted(steps, x) ==
  LET before == {k \in DOMAIN steps : steps[k].order <= x.order}
  IN  Chosen(steps, before) \o <<x>> \o Chosen(steps, DOMAIN steps \ before)

ByOrder(workflow) ==
  LET sorted[n \in 0..Len(workflow.steps)] ==
        IF n = 0 THEN <<>> ELSE Inserted(sorted[n - 1], workflow.steps[n])
  IN  sorted[Len(workflow.steps)]

\* toAgentTrigger keeps the schedule; a workflow_start trigger without a context becomes manual.
LearnedSpec(workflow, writes) ==
  LET steps == ByOrder(workflow)
  IN  [steps |-> [k \in DOMAIN steps |-> LearnedStep(steps[k])],
       inputs |-> UNION {LearnedStep(steps[k]).wants : k \in DOMAIN steps},
       trigger |-> workflow.trigger, writes |-> writes]

CompileLearned(workflow, runtime, policy, writes) ==
  /\ stage = "idle" /\ request' = [intent |-> "learned", workflow |-> workflow, runtime |-> runtime, policy |-> policy]
  /\ Settle(IF ~WorkflowReady(workflow) THEN Answer("needs_configuration")
            ELSE IF \E k \in DOMAIN workflow.steps : workflow.steps[k].cap \notin Capabilities THEN Answer("blocked")
            ELSE Judge(LearnedSpec(workflow, writes), "learned", policy, runtime))
  /\ UNCHANGED <<attempt, counted, spent, surface>>

-----------------------------------------------------------------------------
(* compileTraceToAgentSpec *)

\* BROWSER_OPERATIONS: what is proposed, what writes it, on which roles
Operations ==
  [read_field |-> [cap |-> "fields", mode |-> "read", write |-> None, roles |-> {"textbox", "button", "heading"}],
   set_value  |-> [cap |-> "propose_fill", mode |-> "propose_write", write |-> "fill", roles |-> {"textbox"}],
   press      |-> [cap |-> "press", mode |-> "propose_write", write |-> "press", roles |-> {"button"}]]

\* traceReadiness: a value taken from a step comes from an earlier one that exists.
TraceReady(trace) == \A k \in DOMAIN trace : trace[k].from # None => trace[k].from \in 1..(k - 1)

\* One observed action that can be translated: a known operation, available, on a stable target of a role it may act on
Translatable(a, runtime) ==
  /\ a.op \in DOMAIN Operations /\ a.stable /\ a.role \in Operations[a.op].roles
  /\ \A cap \in {Operations[a.op].cap, Operations[a.op].write} \ {None} : RuntimeHas(runtime, cap)

\* The steps of action k: the proposal or the read, then its write
TraceSteps(a, k) ==
  LET op == Operations[a.op]
      reads == IF a.from = None THEN {} ELSE {<<"out", <<"s", a.from>>>>}
      first == [Step(k, <<"s", k>>, op.cap, op.mode, reads, a.asks) EXCEPT
                  !.risk = IF op.mode = "read" THEN "low" ELSE "medium", !.approval = op.mode # "read",
                  !.literals = {x \in {a.label} : x = "code"}]
      second == [Step(k, <<"w", k>>, op.write, "write", reads \union {first.out}, a.asks) EXCEPT
                   !.risk = "medium", !.literals = first.literals]
  IN  IF op.write = None THEN <<first>> ELSE <<first, second>>

\* One after the other, each numbered by where it is pushed
TraceProgram(trace) ==
  LET steps == FlattenSeq([k \in DOMAIN trace |-> TraceSteps(trace[k], k)])
  IN  [n \in DOMAIN steps |-> [steps[n] EXCEPT !.order = n]]

TraceSpec(trace) ==
  LET steps == TraceProgram(trace)
      writing == Cardinality({k \in DOMAIN steps : steps[k].mode = "write"})
  IN  [steps |-> steps, inputs |-> UNION {trace[k].asks : k \in DOMAIN trace}, trigger |-> "context",
       writes |-> IF writing = 0 THEN 1 ELSE writing]

\* LocalAgentRuntime.registerAgent, and finalizeCreation before it: the validator, then the runtime.  No
\* policy is asked on this path.
Register(spec, runtime) ==
  IF ~validateAgentSpec(spec) THEN Answer("blocked")
  ELSE IF ~RuntimeReady(spec, runtime) THEN Answer("needs_runtime") ELSE Valid(spec, "trace")

\* A native step without an origin refuses the trace; so does any step that cannot be translated.
CompileTrace(trace, runtime) ==
  /\ stage = "idle" /\ request' = [intent |-> "trace", runtime |-> runtime]
  /\ Settle(IF ~TraceReady(trace) \/ \E k \in DOMAIN trace : ~trace[k].origin \/ ~Translatable(trace[k], runtime)
            THEN Answer("needs_configuration")
            ELSE Register(TraceSpec(trace), runtime))
  /\ UNCHANGED <<attempt, counted, spent, surface>>

-----------------------------------------------------------------------------
(* resolveIntentOnSurface: before its first step the agent looks at the page *)

\* intentFittingSteps: an intent speaks for a spec only when every capability it requires is emitted.
NeedsSurface(compiled) == compiled.by = "recipe" /\ "discovered_fields" \in compiled.spec.inputs

\* candidateControls and expandDuplicates: no secure field, and a collapsed repeat counts as many
CandidateControls(page) ==
  {c \in (DOMAIN page) \X (1..2) : ~page[c[1]].secure /\ c[2] <= page[c[1]].copies}

\* matchControls: the role must be one the slot takes; when there is a vocabulary, the name must be in it.
MatchControls(page, vocabulary) ==
  {c \in CandidateControls(page) : page[c[1]].role = "textbox" /\ (vocabulary # {} => page[c[1]].name \in vocabulary)}

\* resolveIntent for the field slot and the value slot: what the user supplied wins, the value is never
\* looked for, and only one match is a match.  The place is the page's own origin.
ResolveIntent(page, vocabulary, supplied, writing) ==
  LET matches == MatchControls(page, vocabulary)
      field == IF "field" \in supplied THEN "supplied" ELSE IF Cardinality(matches) = 1 THEN "discovered" ELSE "unfilled"
      asks == writing /\ "value" \notin supplied
  IN  [status |-> IF field = "unfilled" \/ asks THEN "needs_you" ELSE "ready",
       field |-> field, at |-> {c[1] : c \in matches}, answerable |-> asks,
       page |-> page, vocabulary |-> vocabulary, supplied |-> supplied]

LookAtPage(page, vocabulary, supplied) ==
  /\ stage = "done" /\ surface = None /\ outcome.status = "valid" /\ NeedsSurface(outcome)
  /\ surface' = ResolveIntent(page, vocabulary, supplied, "field_values" \in outcome.spec.inputs)
  /\ UNCHANGED <<request, stage, attempt, counted, spent, outcome>>

\* discoverSurface threw: reported as such, never as an empty page
CouldNotLook ==
  /\ stage = "done" /\ surface = None /\ outcome.status = "valid" /\ NeedsSurface(outcome)
  /\ surface' = [status |-> "could_not_look"]
  /\ UNCHANGED <<request, stage, attempt, counted, spent, outcome>>

-----------------------------------------------------------------------------
CompileInit ==
  /\ request = None /\ stage = "idle" /\ attempt = 0 /\ counted = 0 /\ spent = 0 /\ outcome = None
  /\ surface = None

\* What may be asked for: a pattern, a taught workflow or a recorded trace
AskForPattern ==
  stage = "idle" /\ \E tokens \in Candidates, intent \in {"reconcile", "update", "browser", "other"},
    runtime \in Runtimes, policy \in Policies, model \in BOOLEAN, writes \in {1, CrmLimit + 1, MaxWrites + 1} :
      Start([tokens |-> tokens, intent |-> intent, runtime |-> runtime, policy |-> policy,
             model |-> model, writes |-> writes])

AskForTaught ==
  stage = "idle" /\ \E workflow \in Workflows, runtime \in Runtimes, policy \in Policies,
    writes \in {1, MaxWrites + 1} : CompileLearned(workflow, runtime, policy, writes)

AskForTrace ==
  stage = "idle" /\ \E trace \in Traces, runtime \in {r \in Runtimes : r # None /\ r.unmet = {}} :
    CompileTrace(trace, runtime)

NameIt == stage = "naming" /\ \E cost \in 0..MaxCost, ok \in BOOLEAN : Name(cost, ok)

DraftIt ==
  stage = "draft" /\ \E cost \in 0..MaxCost :
    DraftTooDear(cost) \/ \E plan \in Plans \union {None} : DraftAgain(cost, plan) \/ DraftAccepted(cost, plan)

LookIt ==
  stage = "done" /\ surface = None /\ \E page \in Pages, vocabulary \in {{}, {"phone"}},
    supplied \in SUBSET {"field", "value"} : LookAtPage(page, vocabulary, supplied)

CompileNext ==
  \/ LookIt \/ CouldNotLook
  \/ AskForPattern \/ AskForTaught \/ AskForTrace \/ NameIt
  \/ CompileRecipe \/ DeclineRecipe \/ FallToModel \/ DraftIt \/ GiveUpDrafting

CompileSpec == CompileInit /\ [][CompileNext]_compileVars

-----------------------------------------------------------------------------
\* What the run engine meets when it executes the spec in order: every input is declared, every output
\* it reads was produced by a step that ran before, and every adapter exists in the mode it is called in.
RunsToTheEnd(spec, runtime) ==
  \A k \in Indices(spec) :
    LET s == spec.steps[k]
    IN  /\ s.wants \subseteq spec.inputs
        /\ \A ref \in s.reads : \E j \in 1..(k - 1) : spec.steps[j].out = ref
        /\ runtime # None => <<s.cap, s.mode>> \in {a \in runtime.can : a[1] \notin runtime.unmet}

SpecIsSound ==
  outcome # None /\ outcome.status = "valid" =>
    LET writing == {k \in Indices(outcome.spec) : outcome.spec.steps[k].mode = "write"}
        connector(k) == Catalog[outcome.spec.steps[k].cap].connector
    IN  /\ RunsToTheEnd(outcome.spec, request.runtime)
        /\ \A k \in writing : /\ outcome.spec.steps[k].approval
                              /\ outcome.by # "trace" => connector(k) \in request.policy.connectors
        /\ outcome.by = "model" => writing = {} /\ counted <= CostBudget
        /\ request.intent \in {"update", "browser"} =>
             \A k \in writing : \E t \in request.tokens, cap \in Capabilities :
                cap \in TokenTable[t] /\ Catalog[cap].connector = connector(k)

\* A run starts only with a field the user named or the one control that can be meant, and a value for it.
TargetIsCertain ==
  surface # None /\ surface.status = "ready" =>
    /\ \/ "field" \in surface.supplied
       \/ \E k \in DOMAIN surface.page :
            /\ surface.at = {k} /\ ~surface.page[k].secure /\ surface.page[k].copies = 1
            /\ \A j \in DOMAIN surface.page :
                 surface.page[j].role = "textbox" /\ ~surface.page[j].secure
                   /\ surface.page[j].name = surface.page[k].name => j = k
    /\ (\E k \in Indices(outcome.spec) : outcome.spec.steps[k].mode = "write") => "value" \in surface.supplied

\* Whichever compiler made it, a valid spec runs to its end on the runtime it was compiled for; each of
\* its writes waits for an approval and, unless it replays a trace, touches a system the policy enables; what
\* a model drafted writes nothing and costs no more than the budget; an inferred workflow writes only where
\* work was seen; and a run of it starts only on a field nobody could mistake for another.
CompiledRunsAreSound == SpecIsSound /\ TargetIsCertain

\* compile-learned.ts: "a step_output becomes a real reference the run engine resolves".
TaughtReferencesResolve ==
  outcome # None /\ request.intent = "learned" =>
    (WorkflowReady(request.workflow) => RefsResolve(LearnedSpec(request.workflow, 1)))

\* compiler.ts: "Model usage across naming + drafting for this compile".
UsageIsReported == outcome # None /\ outcome.status = "valid" => counted = spent
=============================================================================
