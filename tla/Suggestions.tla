------------------------------ MODULE Suggestions ------------------------------
(***************************************************************************)
(* The desktop's suggestions: the store of what the user said about each   *)
(* pattern (recommendations.ts), what the pattern engine and the packs     *)
(* make of it (engine.ts, proactive.ts, proactivity.ts), and the loop that *)
(* re-scores once a minute (motherLoop.ts).                                *)
(*                                                                         *)
(* A refresh reads the file, works for a while, and then puts what it read *)
(* into memory; an action starts from memory and writes the whole file.    *)
(***************************************************************************)
EXTENDS Values

CONSTANTS
  Patterns,     \* signatures of patterns
  Families,     \* pack workflows
  FamilyOf,     \* the workflow a pattern is a template match of, or None
  Budget,       \* suggestion_budget_daily
  MaxSaid,      \* bound: things the user says
  MaxEras,      \* bound: cooldowns that pass
  MaxBoots,     \* bound: starts of the panel
  MaxCrossings  \* bound: actions begun while another or a refresh is under way

VARIABLES
  file,      \* the suggestions file
  memory,    \* useRecommendations.state
  shown,     \* items, forming and proactive, as last computed
  refreshes, \* refreshes under way, with the state each has read
  saves,     \* actions and surfacings that wrote the file and not yet memory
  found,     \* what the engine makes of the events: absent, watching, unproven, proven
  era,       \* cooldown periods gone by
  waving,    \* motherLoop's flag
  said,      \* what the user last said of each pattern, and of each family "never"
  crossings, \* actions begun while another, or a refresh, was under way
  boots

suggestVars == <<file, memory, shown, refreshes, saves, found, era, waving, said, crossings, boots>>

NoEntry == [status |-> "new", era |-> 0]
DefaultState == [entries |-> [p \in Patterns |-> NoEntry], suppressed |-> {}, surfaced |-> 0]
NothingShown == [items |-> {}, forming |-> {}, due |-> {}]

-----------------------------------------------------------------------------
(* What a refresh makes of a state *)

WavedOff == {"dismissed", "never"}
Recent(entry) == entry.status \in WavedOff /\ entry.era = era

\* runPatternEngine, buildTemplateCandidate: suppressed and recently dismissed patterns are neither
\* recommended nor watched.
Heard(s) == {p \in Patterns : found[p] # "absent" /\ p \notin s.suppressed /\ ~Recent(s.entries[p])}

\* patternGates, evaluateVerification: a template match needs no proof, any other pattern does.
IsCard(p) == found[p] = "proven" \/ (FamilyOf[p] # None /\ found[p] = "unproven")

Items(s) == {p \in Heard(s) : IsCard(p)}

\* shouldStayVisible; watched patterns show unless the user waved them off.
Forming(s) ==
  {p \in Heard(s) \ Items(s) :
     /\ s.entries[p].status \notin WavedOff
     /\ s.entries[p].status = "accepted" => found[p] = "unproven"}

\* entryDecision, evaluateDismissal, familySuppressed: decisions are those of the patterns on show,
\* and a forming one is taken for new.
Decisions(s, f) == {s.entries[p] : p \in {q \in Items(s) : FamilyOf[q] = f}}
FamilySuppressed(s, f) == \E d \in Decisions(s, f) : d.status = "never"
BackedOff(s, f) == \E d \in Decisions(s, f) : d.status \in {"snoozed", "dismissed"} /\ d.era = era

\* proactiveCards, evaluateProactivity, timingFor: of the families that are due today
ProactiveCards(s, dueToday) ==
  {f \in dueToday : /\ \E p \in Items(s) \cup Forming(s) : FamilyOf[p] = f
                    /\ ~FamilySuppressed(s, f) /\ ~BackedOff(s, f)}

Hidden(s, p) == FamilyOf[p] # None /\ FamilySuppressed(s, FamilyOf[p])

Computed(s, dueToday) ==
  [items |-> {p \in Items(s) : s.entries[p].status \in WavedOff \/ ~Hidden(s, p)},
   forming |-> {p \in Forming(s) : ~Hidden(s, p)},
   due |-> ProactiveCards(s, dueToday)]

-----------------------------------------------------------------------------
(* The store *)

Busy == refreshes # {} \/ saves # {}
Crosses(busy) == crossings' = (IF busy THEN crossings + 1 ELSE crossings) /\ crossings' <= MaxCrossings

\* refresh reads the file; a file that does not parse reads as the defaults.
BeginRefresh(kind) == refreshes' = refreshes \cup {[kind |-> kind, read |-> file]}

\* ... and, after it has scored, verified and persisted, sets memory to what it had read.
MemoryStays(read) == memory \* a mutant
MemoryAfterRefresh(read) == read

Refresh ==
  /\ \A r \in refreshes : r.kind # "screen"
  /\ BeginRefresh("screen")
  /\ UNCHANGED <<file, memory, shown, saves, found, era, waving, said, crossings, boots>>

EndRefresh(r, dueToday) ==
  /\ r \in refreshes /\ r.kind # "tick" /\ refreshes' = refreshes \ {r}
  /\ memory' = MemoryAfterRefresh(r.read) /\ shown' = Computed(r.read, dueToday)
  /\ UNCHANGED <<file, saves, found, era, waving, said, crossings, boots>>

\* act: the entry it makes of one thing the user says
Entry(p, status) ==
  CASE status = "viewed" /\ memory.entries[p].status # "new" -> memory.entries[p]
    [] OTHER -> [status |-> status, era |-> IF status \in WavedOff \cup {"snoozed"} THEN era ELSE 0]
Acted(p, status) ==
  [memory EXCEPT !.entries[p] = Entry(p, status),
                 !.suppressed = IF status = "never" THEN memory.suppressed \cup {p} ELSE memory.suppressed]

\* act: from memory to the file ...
Act(p, status) ==
  /\ p \in shown.items \cup shown.forming /\ Cardinality(saves) < 2 /\ said.count < MaxSaid
  /\ file' = Acted(p, status) /\ saves' = saves \cup {[kind |-> "act", next |-> Acted(p, status)]}
  /\ said' = [said EXCEPT !.count = said.count + 1, !.last[p] = Entry(p, status),
                          !.never = IF status = "never" THEN said.never \cup {FamilyOf[p]} ELSE said.never]
  /\ Crosses(Busy)
  /\ UNCHANGED <<memory, shown, refreshes, found, era, waving, boots>>

\* ... then memory, and a refresh of its own.
EndAct(a) ==
  /\ a \in saves /\ a.kind = "act" /\ saves' = saves \ {a}
  /\ memory' = a.next /\ BeginRefresh("act")
  /\ UNCHANGED <<file, shown, found, era, waving, said, crossings, boots>>

\* canSurfaceSuggestion: the day's budget; pause and quiet hours hold the tick itself.
CanSurface == memory.surfaced < Budget

\* gatedProactive, gateProactiveCard: a card whose pattern was waved off or accepted is held back.
GatedProactive ==
  {f \in shown.due :
     CanSurface /\ \E p \in shown.items \cup shown.forming :
                     FamilyOf[p] = f /\ memory.entries[p].status \notin WavedOff \cup {"accepted"}}
NewItems == {p \in shown.items : memory.entries[p].status = "new"}
SomethingNew == NewItems # {} \/ GatedProactive # {}

\* motherTick, one at a time: a refresh runs ...
Ticking == (\E r \in refreshes : r.kind = "tick") \/ (\E a \in saves : a.kind \in {"decide", "surface"})

MotherTick ==
  /\ ~Ticking /\ BeginRefresh("tick")
  /\ UNCHANGED <<file, memory, shown, saves, found, era, waving, said, crossings, boots>>

\* ... which may fail ...
TickFails ==
  /\ \E r \in refreshes : r.kind = "tick" /\ refreshes' = refreshes \ {r}
  /\ UNCHANGED <<file, memory, shown, saves, found, era, waving, said, crossings, boots>>

TickRefreshed(dueToday) ==
  \E r \in refreshes :
    /\ r.kind = "tick"
    /\ memory' = MemoryAfterRefresh(r.read) /\ shown' = Computed(r.read, dueToday)
    /\ refreshes' = (refreshes \ {r}) /\ saves' = saves \cup {[kind |-> "decide", next |-> None]}
    /\ UNCHANGED <<file, found, era, waving, said, crossings, boots>>

\* ... and maybeSurface spends the budget, or an old wave is taken back.
TickDecides(d) ==
  /\ d \in saves /\ d.kind = "decide"
  /\ LET wave == SomethingNew /\ ~waving /\ CanSurface
         next == [memory EXCEPT !.surfaced = memory.surfaced + 1]
     IN IF wave THEN /\ file' = next /\ saves' = (saves \ {d}) \cup {[kind |-> "surface", next |-> next]}
                     /\ Crosses(refreshes # {} \/ saves # {d})
                     /\ UNCHANGED waving
        ELSE /\ saves' = saves \ {d} /\ UNCHANGED <<file, crossings>>
             /\ waving' = (waving /\ SomethingNew)
  /\ UNCHANGED <<memory, shown, refreshes, found, era, said, boots>>

TickSurfaced(s) ==
  /\ s \in saves /\ s.kind = "surface" /\ saves' = saves \ {s}
  /\ memory' = s.next /\ waving' = TRUE
  /\ UNCHANGED <<file, shown, refreshes, found, era, said, crossings, boots>>

-----------------------------------------------------------------------------
(* The world: more events, time, restarts *)

\* A workflow has one candidate at a time, whose signature is its members' most typical sequence.
OnePerFamily(f) ==
  \A p, q \in Patterns : f[p] # "absent" /\ f[q] # "absent" /\ FamilyOf[p] = FamilyOf[q] /\ FamilyOf[p] # None => p = q

LearnMore ==
  /\ found' \in {f \in [Patterns -> {"absent", "watching", "unproven", "proven"}] : OnePerFamily(f)}
  /\ \E p \in Patterns : \A q \in Patterns : found'[q] # found[q] => FamilyOf[q] = FamilyOf[p]
  /\ UNCHANGED <<file, memory, shown, refreshes, saves, era, waving, said, crossings, boots>>

CooldownPasses ==
  /\ era < MaxEras /\ era' = era + 1
  /\ UNCHANGED <<file, memory, shown, refreshes, saves, found, waving, said, crossings, boots>>

SuggestInit ==
  /\ file = DefaultState /\ memory = DefaultState /\ shown = NothingShown /\ refreshes = {} /\ saves = {}
  /\ found = [p \in Patterns |-> "absent"] /\ era = 0 /\ waving = FALSE
  /\ said = [count |-> 0, last |-> [p \in Patterns |-> NoEntry], never |-> {}]
  /\ crossings = 0 /\ boots = 1

\* The app ends and starts again: only the file is left.
RestartPanel ==
  /\ boots < MaxBoots /\ boots' = boots + 1
  /\ memory' = DefaultState /\ shown' = NothingShown /\ refreshes' = {} /\ saves' = {} /\ waving' = FALSE
  /\ UNCHANGED <<file, found, era, said, crossings>>

Statuses == {"viewed", "accepted", "snoozed", "dismissed", "never"}
SuggestNext ==
  \/ Refresh \/ \E r \in refreshes, d \in SUBSET Families : EndRefresh(r, d)
  \/ \E p \in Patterns, s \in Statuses : Act(p, s)
  \/ \E a \in saves : EndAct(a) \/ TickDecides(a) \/ TickSurfaced(a)
  \/ MotherTick \/ TickFails \/ \E d \in SUBSET Families : TickRefreshed(d)
  \/ LearnMore \/ CooldownPasses \/ RestartPanel

SuggestSpec == SuggestInit /\ [][SuggestNext]_suggestVars

-----------------------------------------------------------------------------
\* What the user said last about a pattern is in the file, across refreshes, ticks and restarts, as
\* long as no action began while another or a refresh was under way.
DecisionsArePersisted == crossings = 0 => file.entries = said.last

\* "saying never once must not leave Maman asking about a sibling pattern of the same workflow
\* tomorrow"
NeverMeansTheFamily == crossings > 0 \/ Busy \/ {FamilyOf[p] : p \in NewItems} \cap (said.never \ {None}) = {}
=============================================================================
