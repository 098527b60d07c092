----------------------------- MODULE Proactivity -----------------------------
(***************************************************************************)
(* When a pack workflow is offered: the date a label states                *)
(* (extract-date.ts), the pack's timing, quiet periods, dismissal ladder   *)
(* and copy (proactivity.ts), and the desktop's use of them for the        *)
(* patterns it tracks (proactive.ts), day after day.                       *)
(*                                                                         *)
(* The calendar is a short year: as many months as MonthLengths has, a day *)
(* being its number in the year. All patterns are of one workflow.         *)
(***************************************************************************)
EXTENDS Values, FiniteSetsExt

CONSTANTS
  MonthLengths, WeekLength, \* the calendar
  CloseStartDay,  \* calendar.close_start_day
  PackRules,      \* what a pack says: [cadence, fiscal, timing, lead, wants, ceiling, quiet]
  Tracked,        \* patterns that match the workflow
  Labels,         \* texts the observer reads: [form, a, b, twoDigit, many]
  UserQuiet,      \* quiet periods of the settings: sequence of [start, end], a malformed day is None
  Ladder,         \* not_now_backoff_days
  DismissalCooldown, \* days the engine hides a dismissed pattern
  SnoozeDays,     \* how far ahead snoozed_until is
  Autonomies,     \* autonomy levels, lowest first; current_ceiling is one of them or None
  ObservedDow,    \* modeWeekday of the episodes
  MaxToday, MaxAnswers, MaxLabels \* bounds

Day == Nat \cup {None}
Cadences == {"fiscal_monthly", "date_driven", "weekly", "continuous"}

\* Days are numbers from 1, the calendar is one year and nothing happens after its end.
ASSUME CalendarAssumption ==
  /\ MonthLengths \in Seq(Nat \ {0}) /\ MonthLengths # <<>> /\ CloseStartDay \in Nat \ {0} /\ MaxToday \in Nat
  /\ None \notin Nat /\ SnoozeDays \in Nat /\ Ladder \in Seq(Nat) /\ Autonomies \subseteq Nat
  /\ IsFiniteSet(Tracked)
\* A label's numbers are numbers; a quiet period's day is one, or malformed; a pack has one of the cadences.
ASSUME LabelsAssumption == \A l \in Labels : l.a \in Nat /\ l.b \in Nat
ASSUME PacksAssumption ==
  /\ UserQuiet \in Seq([start : Day, end : Day]) /\ None \notin [start : Day, end : Day]
  /\ \A r \in PackRules :
       /\ r.cadence \in Cadences /\ r.lead \in Day /\ r.ceiling \in Day
       /\ r.quiet \in Seq([start : Day, end : Day])

VARIABLES
  rule,      \* the pack in use
  ceiling,   \* current_ceiling
  today,
  entries,   \* the suggestion entries: [status, dismissed, snoozed]: dismissed_at and snoozed_until
  read,      \* labels read so far
  proven,    \* patterns whose replay evidence cleared the floor
  ripe,      \* patterns with the pack's repetitions and within its safety bars: the others are forming
  replied    \* history: what the user said of the cards shown, in order: [pattern, word, day]

proactiveVars == <<rule, ceiling, today, entries, read, proven, ripe, replied>>

-----------------------------------------------------------------------------
(* The calendar *)

Months == Len(MonthLengths)
DaysBefore[month \in 1 .. Months] == IF month = 1 THEN 0 ELSE DaysBefore[month - 1] + MonthLengths[month - 1]
DayOf(month, day) == DaysBefore[month] + day
MonthOf(n) == CHOOSE m \in 1 .. Months : DayOf(m, 1) <= n /\ n <= DayOf(m, MonthLengths[m])
YearLength == DayOf(Months, MonthLengths[Months])
ASSUME YearAssumption == MaxToday <= YearLength
DowOf(n) == n % WeekLength

\* nextCloseStart: this month's, clamped to the month, or the next month's; a year follows the year
CloseOf(month) == DayOf(month, Min({CloseStartDay, MonthLengths[month]}))
NextCloseStart(n) ==
  IF CloseOf(MonthOf(n)) >= n THEN CloseOf(MonthOf(n))
  ELSE IF MonthOf(n) < Months THEN CloseOf(MonthOf(n) + 1) ELSE YearLength + CloseOf(1)

CadencePhase(n, lead) ==
  LET until == NextCloseStart(n) - n
  IN IF until = 0 THEN "in_close" ELSE IF until <= lead THEN "pre_close" ELSE "mid_period"

\* activeQuietPeriod: the first that covers the day; malformed and inverted ranges are ignored.
ActiveQuietPeriod(n, periods) ==
  LET hit == {k \in DOMAIN periods :
                /\ None \notin {periods[k].start, periods[k].end}
                /\ periods[k].start <= n /\ n <= periods[k].end}
  IN IF hit = {} THEN None ELSE periods[Min(hit)]
QuietPeriodRelease(p) == p.end + 1

-----------------------------------------------------------------------------
(* extractDateIso, usableDate: confidences in hundredths *)

IsRealDate(month, day) == month \in 1 .. Months /\ day \in 1 .. MonthLengths[month]
Unread == [date |-> None, confidence |-> 0]
Penalize(label, c) == IF label.many THEN c - 25 ELSE c

\* A bare numeric form is settled by the component that cannot be a month.
NumericRead(label) ==
  LET aIsDay == label.a > Months /\ label.b <= Months
      bIsDay == label.b > Months /\ label.a <= Months
      month == IF aIsDay THEN label.b ELSE label.a
      day == IF aIsDay THEN label.a ELSE label.b
  IN IF aIsDay \/ bIsDay
     THEN IF IsRealDate(month, day)
          THEN [date |-> DayOf(month, day), confidence |-> Penalize(label, IF label.twoDigit THEN 50 ELSE 80)]
          ELSE Unread
     ELSE IF IsRealDate(label.a, label.b) THEN [date |-> DayOf(label.a, label.b), confidence |-> 35]
     ELSE IF IsRealDate(label.b, label.a) THEN [date |-> DayOf(label.b, label.a), confidence |-> 35]
     ELSE Unread

\* year_first: a is the month; named: a is the day and b the month that its name gives.
ExtractDate(label) ==
  CASE label.form = "year_first" /\ IsRealDate(label.a, label.b) ->
         [date |-> DayOf(label.a, label.b), confidence |-> Penalize(label, 95)]
    [] label.form = "named" /\ IsRealDate(label.b, label.a) ->
         [date |-> DayOf(label.b, label.a), confidence |-> Penalize(label, IF label.twoDigit THEN 50 ELSE 90)]
    [] label.form = "numeric" -> NumericRead(label)
    [] OTHER -> Unread

ConfidenceFloor == 60
AnyDate(label) == ExtractDate(label).date \* a mutant
UsableDate(label) == IF ExtractDate(label).confidence >= ConfidenceFloor THEN ExtractDate(label).date ELSE None

\* nearestWatchedDates: the soonest that has not passed
WatchedDates == {UsableDate(l) : l \in read} \ {None}
NearestWatchedDate ==
  LET ahead == {d \in WatchedDates : d >= today} IN IF ahead = {} THEN None ELSE Min(ahead)

-----------------------------------------------------------------------------
(* evaluateDismissal, on the decisions proactive.ts can give it *)

\* templateEvaluation and refresh: an item is neither suppressed nor dismissed of late, and one that is forming
\* is hidden once its stored entry says it was waved off or accepted.
ItemPatterns ==
  {p \in ripe : /\ entries[p].status # "never"
                /\ entries[p].status = "dismissed" => today - entries[p].dismissed >= DismissalCooldown}
FormingPatterns == {p \in Tracked \ ripe : entries[p].status \notin {"accepted", "dismissed", "never"}}
ListedPatterns == ItemPatterns \cup FormingPatterns

\* entryDecision: the one stored answer of each item, and none of a pattern that is forming, which refresh hands
\* over as new; an acceptance has whatever clock an earlier answer left, or 1970.
DecidedAt(e) == IF e.dismissed # None THEN e.dismissed ELSE IF e.snoozed # None THEN e.snoozed ELSE 0
Decided == {p \in ItemPatterns : entries[p].status \in {"accepted", "snoozed", "dismissed"}}

EvaluateDismissal ==
  LET accepted == {DecidedAt(entries[p]) : p \in {q \in Decided : entries[q].status = "accepted"}}
      since == {p \in Decided : accepted = {} \/ DecidedAt(entries[p]) > Max(accepted)}
      notNows == {p \in since : entries[p].status \in {"snoozed", "dismissed"}}
      last == Max({DecidedAt(entries[p]) : p \in notNows})
      rung == Min({Cardinality(notNows), Len(Ladder)})
  IN IF Ladder = <<>> \/ notNows = {} THEN "open"
     ELSE IF today >= last + Ladder[rung] THEN "open" ELSE "backoff"

-----------------------------------------------------------------------------
(* timingFor, evaluateProactivity *)

\* The best-verified pattern stands for the workflow; with none verified, the first: the items come before the rest.
LeadsFrom ==
  IF ListedPatterns \cap proven # {} THEN ListedPatterns \cap proven
  ELSE IF ItemPatterns # {} THEN ItemPatterns ELSE ListedPatterns
LeadPattern == CHOOSE p \in LeadsFrom : TRUE
DueOn(surface, reference) == {[surface |-> surface, reference |-> reference]}

\* Due on no day but the ones it names: a set of one timing, or none
TimingFor ==
  CASE rule.cadence = "fiscal_monthly" ->
         IF rule.fiscal /\ rule.lead # None /\ NextCloseStart(today) - today <= rule.lead
         THEN DueOn("pre_close", NextCloseStart(today)) ELSE {}
    [] rule.cadence = "date_driven" ->
         UNION {DueOn("on_trigger", d) : d \in {x \in {NearestWatchedDate} \ {None} :
                                                  rule.lead # None /\ x - today <= rule.lead}}
    [] rule.cadence = "weekly" ->
         IF rule.timing # None /\ (rule.timing = "same_weekday_observed" => DowOf(today) = ObservedDow)
         THEN DueOn("same_weekday_observed", today) ELSE {}
    [] rule.cadence = "continuous" ->
         IF rule.timing # None /\ LeadPattern \in proven THEN DueOn("after_verification", None) ELSE {}

\* renderCopy: the pack's copy, or None when a value it wants is unknown; "account" never is known.
Known(timing) ==
  {"workflow"} \cup (IF timing.reference # None THEN {"date", "days"} ELSE {})
               \cup (IF LeadPattern \in proven THEN {"runs_matched", "runs_tested"} ELSE {})
RenderCopy(timing) == IF rule.wants \subseteq Known(timing) THEN rule.wants ELSE None

\* pre_stage.mode is a ceiling: it only lowers.
LowerCeiling(a, b) == IF a <= b THEN a ELSE b
CardCeiling ==
  CASE rule.ceiling = None -> ceiling
    [] rule.ceiling # None /\ ceiling = None -> rule.ceiling
    [] OTHER -> LowerCeiling(ceiling, rule.ceiling)

\* The user's quiet periods go before the pack's; a queued card holds its release day.
ReleaseDay ==
  LET users == ActiveQuietPeriod(today, UserQuiet)
      active == IF users # None THEN users ELSE ActiveQuietPeriod(today, rule.quiet)
  IN IF active = None THEN None ELSE QuietPeriodRelease(active)

\* The card of the day, if there is one
EvaluateProactivity ==
  IF ListedPatterns = {} \/ EvaluateDismissal # "open" THEN {}
  ELSE {[pattern |-> LeadPattern, surface |-> timing.surface, reference |-> timing.reference,
         copy |-> RenderCopy(timing), ceiling |-> CardCeiling, queued |-> ReleaseDay,
         phase |-> CadencePhase(today, IF rule.cadence = "fiscal_monthly" THEN rule.lead ELSE 0)] :
          timing \in TimingFor}

\* gateProactiveCard and gatedProactive: a card that is queued, snoozed or already answered is not shown; the
\* stored entry of its pattern counts here, whether it is an item or forming.
ShownCards ==
  {card \in EvaluateProactivity :
     /\ card.queued = None /\ entries[card.pattern].status \notin {"accepted", "dismissed"}
     /\ entries[card.pattern].snoozed # None => today >= entries[card.pattern].snoozed}

-----------------------------------------------------------------------------
ProactiveInit ==
  /\ rule \in PackRules /\ ceiling \in Autonomies \cup {None} /\ today \in 1 .. MaxToday
  /\ entries = [p \in Tracked |-> [status |-> "new", dismissed |-> None, snoozed |-> None]]
  /\ read = {} /\ proven = {} /\ ripe = {} /\ replied = <<>>

DayPasses ==
  /\ today < MaxToday /\ today' = today + 1
  /\ UNCHANGED <<rule, ceiling, entries, read, proven, ripe, replied>>

ReadLabel(l) ==
  /\ Cardinality(read) < MaxLabels /\ read' = read \cup {l}
  /\ UNCHANGED <<rule, ceiling, today, entries, proven, ripe, replied>>

EvidenceClears(p) ==
  /\ proven' = proven \cup {p}
  /\ UNCHANGED <<rule, ceiling, today, entries, read, ripe, replied>>

\* One more run makes an item of a pattern; riskier runs, or runs the user deleted, make it a forming one again.
RipenessChanges(p) ==
  /\ ripe' = IF p \in ripe THEN ripe \ {p} ELSE ripe \cup {p}
  /\ UNCHANGED <<rule, ceiling, today, entries, read, proven, replied>>

\* act, on the card that is shown; an acceptance has no time of its own.
AfterAnswer(e, word) ==
  CASE word = "accepted" -> [e EXCEPT !.status = "accepted"]
    [] word = "snoozed" -> [e EXCEPT !.status = "snoozed", !.snoozed = today + SnoozeDays]
    [] word \in {"dismissed", "never"} -> [e EXCEPT !.status = word, !.dismissed = today]
AnswerCard(word) ==
  /\ Len(replied) < MaxAnswers
  /\ \E card \in ShownCards :
       /\ replied' = Append(replied, [pattern |-> card.pattern, word |-> word, day |-> today])
       /\ entries' = [entries EXCEPT ![card.pattern] = AfterAnswer(@, word)]
  /\ UNCHANGED <<rule, ceiling, today, read, proven, ripe>>

Replies == {"accepted", "snoozed", "dismissed", "never"}
ProactiveNext ==
  \/ DayPasses \/ \E l \in Labels : ReadLabel(l)
  \/ \E p \in Tracked : EvidenceClears(p) \/ RipenessChanges(p)
  \/ \E word \in Replies : AnswerCard(word)

ProactiveSpec == ProactiveInit /\ [][ProactiveNext]_proactiveVars

-----------------------------------------------------------------------------
(* Properties *)

\* Every date a label can mean to some reader
DatesOf(l) ==
  {DayOf(md[1], md[2]) :
     md \in {x \in (CASE l.form = "year_first" -> {<<l.a, l.b>>} [] l.form = "named" -> {<<l.b, l.a>>}
                       [] l.form = "numeric" -> {<<l.a, l.b>>, <<l.b, l.a>>} [] OTHER -> {}) : IsRealDate(x[1], x[2])}}
Closes == {CloseOf(m) : m \in 1 .. Months} \cup {YearLength + CloseOf(1)}
SaidOf(p, word) == {replied[i].day : i \in {j \in DOMAIN replied : replied[j].pattern = p /\ replied[j].word = word}}
AcceptedSince(d) == \E p \in Tracked : \E a \in SaidOf(p, "accepted") : a >= d

\* A card that shows is one the user should see that day: never inside a quiet period, its user's or its
\* pack's; counting down to the next close, or to the one date a label can only mean, never a past one; on
\* evidence only when there is some; under every ceiling in force. And the user's answers hold: what was
\* dismissed, refused for good or accepted is not offered again, a snooze is waited for, and after a "not now"
\* about any pattern that is an item by now the workflow waits for that snooze and a rung of the ladder, if it has
\* one, unless something of it was accepted since. (A "not now" about a pattern that is forming is only waited for.)
CardsAreTimely ==
  \A c \in ShownCards :
    /\ \A periods \in {UserQuiet, rule.quiet} : \A k \in DOMAIN periods :
         None \in {periods[k].start, periods[k].end} \/ today \notin periods[k].start .. periods[k].end
    /\ c.surface = "pre_close" =>
         c.reference \in Closes /\ c.reference \in today .. today + rule.lead /\ Closes \cap (today .. c.reference - 1) = {}
    /\ c.surface = "on_trigger" =>
         c.reference \in today .. today + rule.lead /\ \E l \in read : DatesOf(l) = {c.reference}
    /\ (c.surface = "after_verification" \/ (c.copy # None /\ "runs_matched" \in c.copy)) => c.pattern \in proven
    /\ (ceiling # None => c.ceiling # None /\ c.ceiling <= ceiling)
    /\ (rule.ceiling # None => c.ceiling # None /\ c.ceiling <= rule.ceiling)
    /\ \A word \in {"dismissed", "never", "accepted"} : SaidOf(c.pattern, word) = {}
    /\ \A d \in SaidOf(c.pattern, "snoozed") : today >= d + SnoozeDays
    /\ Ladder # <<>> =>
         \A p \in ItemPatterns : \A d \in SaidOf(p, "snoozed") :
           AcceptedSince(d) \/ \E k \in DOMAIN Ladder : today >= d + SnoozeDays + Ladder[k]

\* What proactivity.ts says of quiet periods, that they queue and do not drop: a card withheld today shows
\* on its release day unless the user replied first. A close that falls inside the period, or a weekday
\* other than the observed one, refutes it.
QueuedCardsAreReleased ==
  [][\A card \in EvaluateProactivity : card.queued = today' => ShownCards' # {}]_proactiveVars
==============================================================================
