----------------------------- MODULE AgentWindow -----------------------------
(***************************************************************************)
(* A step of an agent in Maman's own browser window: the adapters that     *)
(* read, propose, fill, press and read back (browser-adapters.ts), the     *)
(* executor under them (execute.ts, authorize.ts), the transport that      *)
(* checks the address and then evaluates one script (own-window.ts,        *)
(* agent_browser.rs), and the script itself (inpage.ts).                   *)
(*                                                                         *)
(* The page is alive: between any two of these it may change, hide a       *)
(* control or go elsewhere, and a script that was given up after its time  *)
(* may still run.                                                          *)
(***************************************************************************)
EXTENDS Values

CONSTANTS
  Folded,        \* the names controls may have, each with its lower-case form
  Typed,         \* what can be typed into a control
  SecretShaped,  \* names and values that looksLikeSecret takes for a credential
  WindowPages,   \* sequences of controls: the documents the window may show
  Tasks,         \* what a step may be bound to
  SurfaceLimit,  \* how many controls one listing carries
  MaxWindowRuns, MaxPageMoves, MaxTimeouts \* bounds

Text == STRING \cup {None}
Control == [role : STRING, rungs : Seq(DOMAIN Folded \cup {None}), value : Text,
            secure : BOOLEAN, shown : BOOLEAN, editable : BOOLEAN]
BoundField == [name : STRING, nth : Nat \cup {None}, value : Text]
Secrets == UNION {{page[i].value : i \in {j \in DOMAIN page : page[j].secure}} : page \in WindowPages}

ASSUME PagesAssumption == WindowPages \subseteq Seq(Control) /\ Typed \subseteq STRING /\ SurfaceLimit \in Nat
ASSUME TasksAssumption ==
  \A t \in Tasks :
    /\ t.kind \in {"read", "fill", "press"} /\ t.fields \in Seq(BoundField) /\ t.target \in Seq(BoundField)
    /\ t.kind = "press" => t.target # <<>>
\* The reasons of a refusal
Reasons == {"target_not_found", "secure_field", "not_editable", "precondition_failed", "confirm_name_mismatch"}
ASSUME ReasonsAssumption == None \notin Reasons
\* What a credential box holds is found nowhere else, so that it would be known anywhere.
ASSUME SecretsAssumption ==
  /\ Secrets \cap (Typed \cup {None}) = {}
  /\ \A page \in WindowPages : \A i \in DOMAIN page : ~page[i].secure => page[i].value \notin Secrets
  /\ \A t \in Tasks : \A f \in {t.fields[i] : i \in DOMAIN t.fields} \cup {t.target[i] : i \in DOMAIN t.target} :
       f.value \notin Secrets

VARIABLES
  window,     \* [site, controls]: site is None (closed), "allowed" or "elsewhere"
  watching,   \* whether the user is at the machine
  task, stage,
  position,   \* the field or change that is next
  cleared,    \* its address was checked, its script is to be evaluated
  readings,   \* what the reads of the proposal saw: [seen, value]
  proposal,   \* the changes shown
  attended,   \* whether the user was there when the plan started
  reports,    \* the status of each step of the write
  confirmed, verdict, \* of the read-back
  surface,    \* the last discoverSurface: None or [listing, truncated]
  overdue,    \* scripts whose time ran out
  windowRuns, pageMoves, timeouts,
  confirmations,  \* history: the approved changes of each run
  made,       \* history: the writes the page took
  slipped,    \* history: the window left the page between the check of the address and the script
  looked      \* history: the document the listing was made from

windowVars == <<window, watching, task, stage, position, cleared, readings, proposal, attended, reports, confirmed,
                verdict, surface, overdue, windowRuns, pageMoves, timeouts, confirmations, made, slipped, looked>>

-----------------------------------------------------------------------------
(* The script, over the controls of the document in their order *)

\* The accessible name: of the rungs (aria-labelledby, aria-label, label, ... and last the form key) the first
\* that yields a text; None if none does.
NameOf(c) ==
  LET said == {i \in DOMAIN c.rungs : c.rungs[i] # None}
  IN IF said = {} THEN None ELSE c.rungs[CHOOSE i \in said : \A j \in said : i <= j]

\* Exact names before names that differ in case only
FindAll(controls, target) ==
  LET visible == {i \in DOMAIN controls : controls[i].shown /\ controls[i].role = target.role /\ NameOf(controls[i]) # None}
      exact == {i \in visible : NameOf(controls[i]) = target.name}
      loose == {i \in visible : Folded[NameOf(controls[i])] = Folded[target.name]}
  IN InOrder(controls, IF exact # {} THEN exact ELSE loose)

\* The position of the one control meant, or 0; nth counts from zero.
ResolveOne(controls, target) ==
  LET matches == FindAll(controls, target)
  IN CASE target.nth # None /\ target.nth < Len(matches) -> matches[target.nth + 1]
       [] target.nth = None /\ Len(matches) = 1 -> matches[1]
       [] OTHER -> 0

Refused(why) == [outcome |-> "refused", why |-> why, value |-> None]
Observed(value) == [outcome |-> "observed", value |-> value]
Applied(c, before, after) == [outcome |-> "applied", name |-> NameOf(c), before |-> before, value |-> after]

\* A secure field is observed, but its value is not.
ReadAnswer(controls, req) ==
  LET i == ResolveOne(controls, req.target)
  IN IF i = 0 THEN Refused("target_not_found")
     ELSE Observed(IF controls[i].secure THEN None ELSE controls[i].value)

\* Why a write is declined, or None
Declines(controls, req) ==
  LET i == ResolveOne(controls, req.target)
      c == controls[i]
  IN IF i = 0 THEN "target_not_found"
     ELSE IF req.kind = "set"
     THEN CASE c.secure -> "secure_field"
            [] ~c.secure /\ ~c.editable -> "not_editable"
            [] ~c.secure /\ c.editable /\ c.value # req.old -> "precondition_failed"
            [] OTHER -> None
     ELSE CASE NameOf(c) # req.target.name -> "confirm_name_mismatch"
            [] NameOf(c) = req.target.name /\ ~c.editable -> "not_editable"
            [] OTHER -> None

\* The native setter and the events: the framework behind the page keeps the value or puts its own back.
Landing(controls, req) ==
  LET i == ResolveOne(controls, req.target)
  IN IF req.kind = "click" THEN {controls}
     ELSE {[controls EXCEPT ![i].value = kept] : kept \in {req.new, controls[i].value}}

Made(controls, req, onTime) ==
  LET c == controls[ResolveOne(controls, req.target)]
  IN [run |-> req.run, step |-> req.step, kind |-> req.kind, name |-> NameOf(c), over |-> c.value, secure |-> c.secure,
      site |-> window.site, onTime |-> onTime /\ ~slipped]

\* list_controls: one line for each role and name, repeats counted; never a value.
ListControls(controls, roles) ==
  LET same(i) == {j \in DOMAIN controls : controls[j].shown /\ controls[j].role = controls[i].role /\ NameOf(controls[j]) # None
                                            /\ Folded[NameOf(controls[j])] = Folded[NameOf(controls[i])]}
      firsts == {i \in DOMAIN controls : controls[i].shown /\ controls[i].role \in roles /\ NameOf(controls[i]) # None
                                           /\ \A j \in same(i) : i <= j}
      lines == InOrder(controls, firsts)
      entry(i) == [role |-> controls[i].role, name |-> NameOf(controls[i]), count |-> Cardinality(same(i)),
                   secure |-> \E j \in same(i) : controls[j].secure, editable |-> \A j \in same(i) : controls[j].editable]
  IN [k \in DOMAIN lines |-> entry(lines[k])]

\* parseControls: a line whose name looks like a secret is dropped, the others stay.
ParseControls(listing) == Chosen(listing, {k \in DOMAIN listing : listing[k].name \notin SecretShaped})

-----------------------------------------------------------------------------
(* The transport and the executor *)

\* browserActionResultSchema: an answer that carries something secret-shaped, or a reason the contract does not
\* know, is not an answer.
ContractReasons == {"secure_field", "precondition_failed", "confirm_name_mismatch"}
Status(a) ==
  CASE a.outcome = "refused" -> IF a.why \in ContractReasons THEN "refused" ELSE "failed"
    [] a.outcome = "observed" -> IF a.value \in SecretShaped THEN "failed" ELSE "observed"
    [] a.outcome = "applied" -> IF {a.name, a.before, a.value} \cap SecretShaped # {} THEN "failed" ELSE "applied"
    [] OTHER -> "failed"
Failed == [outcome |-> "failed", value |-> None]

\* verifyWrite: a value that was set must read back; a click cannot.
WriteStatus(req, a) ==
  IF Status(a) = "applied" /\ req.kind = "set" /\ a.value # req.new THEN "unverified" ELSE Status(a)

\* Mutant: only a refusal stops the plan.
ContinuesUnlessRefused(status) == status # "refused"
\* The plan goes on after a step that did what it said, and after no other.
Continues(status) == status = "applied"

-----------------------------------------------------------------------------
(* The adapters *)

\* normaliseFills, fieldsFromTargetBinding: the fields bound with a value, otherwise the one target.
Given(fields) == Chosen(fields, {i \in DOMAIN fields : fields[i].value # None})
Wanted(t) == IF Given(t.fields) # <<>> THEN Given(t.fields) ELSE Given(t.target)
\* extract_structured_fields asks for no value
ToRead(t) == IF t.kind = "read" THEN (IF t.fields # <<>> THEN t.fields ELSE t.target) ELSE Wanted(t)

\* The role that was observed; an unknown one is taken for a button.
PressRole(role) == CASE role \in {"link", "a"} -> "link" [] role = "checkbox" -> "checkbox" [] OTHER -> "button"

\* What differs from what is wanted, of the fields that could be read
ChangesFor(wanted, seen) ==
  LET differs == {i \in DOMAIN wanted : seen[i].value # None /\ seen[i].value # wanted[i].value}
      order == InOrder(wanted, differs)
  IN [k \in DOMAIN order |-> [name |-> wanted[order[k]].name, old |-> seen[order[k]].value, new |-> wanted[order[k]].value]]

ReadList == ToRead(task)
Target(role, name, nth) == [role |-> role, name |-> name, nth |-> nth]

\* The request of the step that is next. The write states no nth.
Request ==
  CASE stage = "reading" -> [kind |-> "read", target |-> Target("textbox", ReadList[position].name, ReadList[position].nth)]
    [] stage = "verifying" -> [kind |-> "read", target |-> Target("textbox", proposal[position].name, None)]
    [] stage = "writing" /\ task.kind = "press" ->
         [kind |-> "click", run |-> windowRuns, step |-> position, target |-> Target(PressRole(task.role), proposal[position].name, None)]
    [] OTHER ->
         [kind |-> "set", run |-> windowRuns, step |-> position, target |-> Target("textbox", proposal[position].name, None),
          old |-> proposal[position].old, new |-> proposal[position].new]

\* The adapter call goes on with the answer a of the step that is next; st is the status of a write.
TakeRead(a) ==
  LET v == IF Status(a) = "observed" THEN a.value ELSE None
      seen == Append(readings, [seen |-> Status(a) = "observed", value |-> v])
  IN /\ stage = "reading" /\ readings' = seen
     /\ IF position < Len(ReadList) THEN position' = position + 1 /\ UNCHANGED <<stage, proposal>>
        ELSE /\ position' = 1
             /\ proposal' = IF task.kind = "read" THEN <<>> ELSE ChangesFor(ReadList, seen)
             /\ stage' = CASE task.kind # "read" -> "proposed"
                           [] task.kind = "read" /\ window.site = None /\ ~\E i \in DOMAIN seen : seen[i].seen -> "threw"
                           [] OTHER -> "closed"
     /\ UNCHANGED <<reports, confirmed, verdict>>
TakeWrite(st) ==
  /\ stage = "writing"
  /\ LET on == Continues(st) /\ position < Len(proposal)
     IN /\ reports' = Append(reports, st) \o (IF on THEN <<>> ELSE [i \in 1 .. Len(proposal) - position |-> "skipped"])
        /\ position' = IF on THEN position + 1 ELSE 1
        /\ stage' = CASE on -> "writing" [] ~on /\ task.kind = "press" -> "closed" [] OTHER -> "written"
  /\ UNCHANGED <<readings, proposal, confirmed, verdict>>
AppliedCount == Cardinality({i \in DOMAIN reports : reports[i] = "applied"})
TakeReadBack(a) ==
  LET same == Status(a) = "observed" /\ a.value = proposal[position].new
      total == IF same THEN confirmed + 1 ELSE confirmed
  IN /\ stage = "verifying" /\ confirmed' = total
     /\ IF position < Len(proposal) THEN position' = position + 1 /\ UNCHANGED <<stage, verdict>>
        ELSE position' = 1 /\ stage' = "closed" /\ verdict' = (total = Len(proposal) /\ AppliedCount = Len(proposal))
     /\ UNCHANGED <<readings, proposal, reports>>
Take(req, a) ==
  /\ TakeRead(a) \/ TakeWrite(IF stage = "writing" THEN WriteStatus(req, a) ELSE "failed") \/ TakeReadBack(a)
  /\ UNCHANGED <<watching, task, attended, surface, windowRuns, pageMoves, confirmations, looked>>

Busy == stage \in {"reading", "writing", "verifying"}

-----------------------------------------------------------------------------
(* The run of a step *)

WindowInit ==
  /\ window \in [site : {None, "allowed"}, controls : WindowPages] /\ watching = TRUE
  /\ task = None /\ stage = "idle" /\ position = 1 /\ cleared = FALSE
  /\ readings = <<>> /\ proposal = <<>> /\ attended = FALSE /\ reports = <<>> /\ confirmed = 0 /\ verdict = None
  /\ surface = None /\ overdue = {} /\ windowRuns = 0 /\ pageMoves = 0 /\ timeouts = 0
  /\ confirmations = <<>> /\ made = <<>> /\ slipped = FALSE /\ looked = None

\* A press is proposed as it is; the window has to be open (requireOrigin).
StartStep(t) ==
  /\ stage \in {"idle", "closed", "threw"} /\ windowRuns < MaxWindowRuns /\ windowRuns' = windowRuns + 1
  /\ task' = t /\ position' = 1 /\ cleared' = FALSE /\ readings' = <<>> /\ reports' = <<>> /\ confirmed' = 0 /\ verdict' = None
  /\ confirmations' = Append(confirmations, <<>>)
  /\ IF t.kind = "press"
     THEN /\ proposal' = <<[name |-> t.target[1].name, old |-> None, new |-> None]>>
          /\ stage' = IF window.site = None THEN "threw" ELSE "proposed"
     ELSE proposal' = <<>> /\ stage' = IF ToRead(t) = <<>> THEN "threw" ELSE "reading"
  /\ UNCHANGED <<window, watching, attended, surface, overdue, pageMoves, timeouts, made, slipped, looked>>

\* The write adapter: an empty diff writes nothing. executeContext asks for the user once, for the whole plan.
ApproveChanges ==
  /\ stage = "proposed" /\ confirmations' = [confirmations EXCEPT ![windowRuns] = proposal]
  /\ stage' = IF proposal = <<>> THEN "closed" ELSE "writing"
  /\ attended' = watching /\ position' = 1
  /\ UNCHANGED <<window, watching, task, cleared, readings, proposal, reports, confirmed, verdict, surface, overdue,
                 windowRuns, pageMoves, timeouts, made, slipped, looked>>
DeclineChanges ==
  /\ stage = "proposed" /\ stage' = "closed"
  /\ UNCHANGED <<window, watching, task, position, cleared, readings, proposal, attended, reports, confirmed, verdict, surface,
                 overdue, windowRuns, pageMoves, timeouts, confirmations, made, slipped, looked>>
VerifyChanges ==
  /\ stage = "written" /\ stage' = "verifying"
  /\ UNCHANGED <<window, watching, task, position, cleared, readings, proposal, attended, reports, confirmed, verdict, surface,
                 overdue, windowRuns, pageMoves, timeouts, confirmations, made, slipped, looked>>

\* authorizeIssue, then the address of the window as the host has it
CheckOrigin ==
  /\ Busy /\ ~cleared
  /\ stage = "writing" => attended
  /\ window.site = "allowed" /\ cleared' = TRUE /\ slipped' = FALSE
  /\ UNCHANGED <<window, watching, task, stage, position, readings, proposal, attended, reports, confirmed, verdict, surface,
                 overdue, windowRuns, pageMoves, timeouts, confirmations, made, looked>>
NotIssued ==
  /\ Busy /\ ~cleared
  /\ window.site # "allowed" \/ (stage = "writing" /\ ~attended)
  /\ Take(Request, Failed)
  /\ UNCHANGED <<window, cleared, overdue, timeouts, made, slipped>>

EvaluateScript ==
  /\ Busy /\ cleared /\ cleared' = FALSE
  /\ \/ window.site = None /\ Take(Request, Failed) /\ UNCHANGED <<window, made>>
     \/ /\ window.site # None /\ Request.kind = "read"
        /\ Take(Request, ReadAnswer(window.controls, Request)) /\ UNCHANGED <<window, made>>
     \/ /\ window.site # None /\ Request.kind # "read" /\ Declines(window.controls, Request) # None
        /\ Take(Request, Refused(Declines(window.controls, Request))) /\ UNCHANGED <<window, made>>
     \/ /\ window.site # None /\ Request.kind # "read" /\ Declines(window.controls, Request) = None
        /\ LET i == ResolveOne(window.controls, Request.target) IN
            \E after \in Landing(window.controls, Request) :
              /\ window' = [window EXCEPT !.controls = after]
              /\ made' = Append(made, Made(window.controls, Request, TRUE))
              /\ Take(Request, Applied(window.controls[i], window.controls[i].value, after[i].value))
  /\ UNCHANGED <<overdue, timeouts, slipped>>

\* EVAL_TIMEOUT: the plan goes on as after a failure; the script was not taken back.
EvaluateTimesOut ==
  /\ Busy /\ cleared /\ cleared' = FALSE /\ window.site # None
  /\ timeouts < MaxTimeouts /\ timeouts' = timeouts + 1
  /\ overdue' = IF Request.kind = "read" THEN overdue ELSE overdue \cup {Request}
  /\ Take(Request, Failed)
  /\ UNCHANGED <<window, made, slipped>>
LateScript ==
  /\ window.site # None
  /\ \E req \in overdue :
       /\ overdue' = overdue \ {req}
       /\ IF Declines(window.controls, req) # None THEN UNCHANGED <<window, made>>
          ELSE \E after \in Landing(window.controls, req) :
                 /\ window' = [window EXCEPT !.controls = after]
                 /\ made' = Append(made, Made(window.controls, req, FALSE))
  /\ UNCHANGED <<watching, task, stage, position, cleared, readings, proposal, attended, reports, confirmed, verdict, surface,
                 windowRuns, pageMoves, timeouts, confirmations, slipped, looked>>

\* discoverSurface: a window that cannot be looked at is no empty page.
DiscoverSurface ==
  /\ ~Busy /\ window.site = "allowed" /\ looked' = window.controls
  /\ LET lines == ListControls(window.controls, {"textbox", "combobox", "cell"})
     IN surface' = [listing |-> ParseControls(Chosen(lines, 1 .. SurfaceLimit)),
                    truncated |-> Len(lines) > SurfaceLimit]
  /\ UNCHANGED <<window, watching, task, stage, position, cleared, readings, proposal, attended, reports, confirmed, verdict,
                 overdue, windowRuns, pageMoves, timeouts, confirmations, made, slipped>>

\* What the page, the site or the user do meanwhile. Nobody types a credential over.
PageMoves ==
  /\ pageMoves < MaxPageMoves /\ pageMoves' = pageMoves + 1
  /\ \/ \E i \in DOMAIN window.controls, v \in Typed :
          ~window.controls[i].secure /\ window' = [window EXCEPT !.controls[i].value = v] /\ UNCHANGED <<slipped, watching>>
     \/ \E i \in DOMAIN window.controls :
          window' = [window EXCEPT !.controls[i].shown = ~@] /\ UNCHANGED <<slipped, watching>>
     \/ /\ window' \in [site : {None, "allowed", "elsewhere"}, controls : WindowPages] /\ window' # window
        /\ slipped' = (slipped \/ cleared) /\ UNCHANGED watching
     \/ watching' = ~watching /\ UNCHANGED <<window, slipped>>
  /\ UNCHANGED <<task, stage, position, cleared, readings, proposal, attended, reports, confirmed, verdict, surface, overdue,
                 windowRuns, timeouts, confirmations, made, looked>>

WindowNext ==
  \/ \E t \in Tasks : StartStep(t)
  \/ ApproveChanges \/ DeclineChanges \/ VerifyChanges \/ CheckOrigin \/ NotIssued \/ EvaluateScript
  \/ EvaluateTimesOut \/ LateScript \/ DiscoverSurface \/ PageMoves
WindowSpec == WindowInit /\ [][WindowNext]_windowVars

-----------------------------------------------------------------------------
(* Properties *)

\* Of the writes the page took in run n, late ones included
TakenIn(n) == {k \in DOMAIN made : made[k].run = n}

\* An approved change reaches the page at most once, as it was shown: in the order of the plan and only behind
\* changes that were confirmed, over the value the user saw, on a control of that name that is no credential box,
\* on an allowed site unless the window left in the very moment of the write; a change reported as applied was
\* made; and what the read-back calls verified was all made. A script that ran out of time may land
\* later, while another proposal is open, and is held to the same.
FillsAreFaithful ==
  /\ \A k \in DOMAIN made :
       LET w == made[k]
           c == confirmations[w.run][w.step]
       IN /\ Folded[w.name] = Folded[c.name] /\ (w.kind = "click" => w.name = c.name)
          /\ w.kind = "set" => w.over = c.old /\ ~w.secure
          /\ w.onTime => w.site = "allowed"
          /\ \A l \in TakenIn(w.run) : made[l].step = w.step => l = k
          /\ \A l \in TakenIn(w.run) : made[l].step < w.step => l < k
          /\ \A s \in 1 .. w.step - 1 : \E l \in TakenIn(w.run) : made[l].step = s
  /\ \A i \in DOMAIN reports : reports[i] \in {"applied", "unverified"} => \E k \in TakenIn(windowRuns) : made[k].step = i
  /\ verdict = TRUE => {made[k].step : k \in TakenIn(windowRuns)} = DOMAIN proposal

\* A listing is true of the page it was made from: a control listed once, editable and not secure is found
\* by its listed name and takes a write, and a control that is missing was left out because the listing says it is cut or
\* because its name looks like a secret.
ListingIsHonest ==
  surface # None =>
    /\ \A k \in DOMAIN surface.listing :
         LET e == surface.listing[k]
             i == ResolveOne(looked, Target(e.role, e.name, None))
         IN e.count = 1 => i # 0 /\ looked[i].secure = e.secure /\ looked[i].editable = e.editable
    /\ \A i \in DOMAIN looked :
         looked[i].shown /\ looked[i].role \in {"textbox", "combobox", "cell"} /\ NameOf(looked[i]) # None /\ ~surface.truncated
           => \/ \E k \in DOMAIN surface.listing : surface.listing[k].role = looked[i].role
                                                    /\ Folded[surface.listing[k].name] = Folded[NameOf(looked[i])]
              \/ \E n \in SecretShaped : n \in DOMAIN Folded /\ Folded[n] = Folded[NameOf(looked[i])]

\* Neither a read nor a proposal shows what a credential box holds.
CredentialsStayInThePage ==
  \A i \in DOMAIN window.controls :
    window.controls[i].secure => \A a \in DOMAIN readings : readings[a].value # window.controls[i].value

\* What an agent does in its own window is what was shown.
WindowIsFaithful == FillsAreFaithful /\ ListingIsHonest /\ CredentialsStayInThePage
==============================================================================
