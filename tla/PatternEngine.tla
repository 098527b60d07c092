---------------------------- MODULE PatternEngine ----------------------------
(***************************************************************************)
(* What is learned from the recorded runs of a user's work: the clusters   *)
(* of similar runs (similarity.ts) and the template matches (template.ts), *)
(* their scores and bars (scoring.ts, engine.ts), the replay of each       *)
(* pattern against the runs it was held out from (replay.ts), and what the *)
(* forming card says is missing (forming.ts).  Scores are fixed point, in  *)
(* thousandths; the LSH lookup above 64 runs, ids and wording are left out.*)
(***************************************************************************)
EXTENDS Segmentation, SequencesExt, FiniteSetsExt

CONSTANTS
  Shapes,          \* runs a user may record: [events, minutes, kept]; kept: learn, excluded, restricted
  CapabilityChain, \* capabilitiesForToken: token -> sequence of [risk, reversible, csv]
  PackWorkflows,   \* the packs' workflows in order: [signature, cadence, minReps]
  PackActions,     \* pack actions: id -> [on, risk]
  Tunings,         \* [occurrences, days, minutes, opportunity, refused]: what settings and the user's
                   \* earlier answers may say; refused holds the signatures dismissed or never to be suggested
  VerifyWindow, VerifyMinRuns, VerifyMinMatch, \* the replay gate's settings; the share in thousandths
  MaxNoise,        \* MAX_NOISE_BETWEEN_STEPS
  WeekDays, MonthDays, \* days to a week and to a month
  MaxRecorded      \* bound: runs recorded

ASSUME ShapesAssumption ==
  \A shape \in Shapes : shape.minutes \in Nat /\ shape.events \in Seq({shape.events[k] : k \in DOMAIN shape.events})
ASSUME TuningsAssumption == \A t \in Tunings : t.opportunity \in Int
ASSUME WorkflowsAreNumbered == None \notin DOMAIN PackWorkflows
ASSUME GateAssumption == VerifyWindow \in Nat \ {0} /\ VerifyMinRuns \in Nat \ {0} /\ VerifyMinMatch \in 0..1000

VARIABLES
  recorded, \* the episodes, in the order they happened, each with its day
  tuning    \* the engine's options

engineVars == <<recorded, tuning>>

Token(e) == [app |-> e.app, type |-> e.type, role |-> e.role, semantic |-> e.semantic, object |-> e.object]
Tokens(ep) == [k \in DOMAIN ep.events |-> Token(ep.events[k])]
AppsOf(ep) == {ep.events[k].app : k \in DOMAIN ep.events}
Clamp01(x) == IF x < 0 THEN 0 ELSE IF x > 1000 THEN 1000 ELSE x
AtLeast(low, x) == IF x < low THEN low ELSE x

\* The catalog says something, possibly nothing, of every token.
ASSUME ChainAssumption ==
  \A shape \in Shapes : \A k \in DOMAIN shape.events :
    LET chain == CapabilityChain[Token(shape.events[k])]
    IN  chain = <<>> \/ (Len(chain) \in DOMAIN chain /\ chain[Len(chain)].risk \in {"low", "medium", "high", "prohibited"})

-----------------------------------------------------------------------------
(* similarity.ts *)

InDel == 70 \* W_INDEL, in hundredths like the costs
SubstitutionCost(a, b) ==
  IF a = b THEN 0
  ELSE IF a.app = b.app THEN IF a.type = b.type THEN 25 ELSE 60
  ELSE IF a.type = b.type /\ a.object = b.object THEN 50 ELSE 100

Cheapest(substitute, delete, insert) == Min({substitute, delete, insert})

\* The table of sequenceSimilarity, row by row: row i holds at j the distance of a's first i tokens from b's first j.
NextRow(a, b, above, i) ==
  LET row[j \in 0..Len(b)] ==
        IF j = 0 THEN i * InDel
        ELSE Cheapest(above[j - 1] + SubstitutionCost(a[i], b[j]), above[j] + InDel, row[j - 1] + InDel)
  IN  row
Distance(a, b) ==
  LET rows[i \in 0..Len(a)] == IF i = 0 THEN [j \in 0..Len(b) |-> j * InDel] ELSE NextRow(a, b, rows[i - 1], i)
  IN  rows[Len(a)][Len(b)]
SequenceSimilarity(a, b) ==
  IF a = <<>> /\ b = <<>> THEN 1000
  ELSE IF a = <<>> \/ b = <<>> THEN 0
  ELSE Clamp01(1000 - (Distance(a, b) * 1000) \div (Max({Len(a), Len(b)}) * InDel))

\* Within three times as long, and half of their applications shared
PassesSanityChecks(x, y) ==
  /\ Min({x.minutes, y.minutes}) > 0 /\ Max({x.minutes, y.minutes}) <= 3 * Min({x.minutes, y.minutes})
  /\ 2 * Cardinality(AppsOf(x) \cap AppsOf(y)) >= Cardinality(AppsOf(x) \cup AppsOf(y))

SimilarityThreshold == 820
PairSimilarity(x, y) == IF PassesSanityChecks(x, y) THEN SequenceSimilarity(Tokens(x), Tokens(y)) ELSE 0

\* What similarity(i, j) is looked up in, of the runs at the given positions of recorded
PairSimilarities(ks) ==
  [ij \in ToSet(ks) \X ToSet(ks) |-> PairSimilarity(recorded[ij[1]], recorded[ij[2]])]

\* Complete linkage: two clusters are as similar as their least similar pair.
Linkage(sim, c, d) == Min({sim[ij] : ij \in ToSet(c) \X ToSet(d)})

\* The most similar two clusters become one, the first found of equals.
MergeOnce(sim, clusters) ==
  LET strength(ab) == Linkage(sim, clusters[ab[1]], clusters[ab[2]])
      near == {ab \in (DOMAIN clusters) \X (DOMAIN clusters) : ab[1] < ab[2] /\ strength(ab) >= SimilarityThreshold}
      strongest == {ab \in near : strength(ab) = Max({strength(o) : o \in near})}
      best == CHOOSE ab \in strongest :
                \A o \in strongest : ab[1] < o[1] \/ (ab[1] = o[1] /\ ab[2] <= o[2])
  IN IF near = {} THEN clusters
     ELSE Append(RemoveAt(RemoveAt(clusters, best[2]), best[1]), clusters[best[1]] \o clusters[best[2]])

\* Clusters of the given runs
ClusterEpisodes(ks) ==
  LET sim == PairSimilarities(ks)
      merged[n \in 0..Len(ks)] ==
        IF n = 0 THEN [i \in DOMAIN ks |-> <<ks[i]>>] ELSE MergeOnce(sim, merged[n - 1])
  IN  merged[Len(ks)]

-----------------------------------------------------------------------------
(* template.ts: cells are sets of alternatives with aliases resolved; "*" takes anything *)

WriteEvents == {"value_committed", "record_updated", "paste_semantic", "table_exported"}
CellMatches(cell, value) == "*" \in cell \/ (value # None /\ value \in cell)

\* A declared action that the direction of the event allows
ActionPlausible(a, e) ==
  /\ e.dobject # None /\ a \in DOMAIN PackActions
  /\ PackActions[a].on \cap {"*", e.dobject} # {}
  /\ IF e.type \in WriteEvents THEN PackActions[a].risk # "none" ELSE PackActions[a].risk \notin {"high", "critical"}

StepMatches(cells, e) ==
  /\ CellMatches(cells[1], e.daction) \/ \E a \in cells[1] \ {"*"} : ActionPlausible(a, e)
  /\ CellMatches(cells[2], e.dobject)
  /\ CellMatches(cells[3], e.role)

\* matched counts the signature's cells found so far; noise what came between
TakeStep(signature, at, e) ==
  CASE at.matched = Len(signature) \/ at.noise > MaxNoise -> at
    [] at.matched < Len(signature) /\ at.noise <= MaxNoise /\ StepMatches(signature[at.matched + 1], e) ->
         [matched |-> at.matched + 1, noise |-> 0]
    [] OTHER -> [at EXCEPT !.noise = IF at.matched > 0 THEN @ + 1 ELSE 0]
MatchSignature(signature, events) ==
  FoldLeft(LAMBDA at, e : TakeStep(signature, at, e), [matched |-> 0, noise |-> 0], events).matched = Len(signature)

\* The first workflow that matches, of an episode with any domain typing, or None
MatchEpisode(ep) ==
  LET typed == \E k \in DOMAIN ep.events : ep.events[k].daction # None \/ ep.events[k].dobject # None
      ws == {w \in DOMAIN PackWorkflows : MatchSignature(PackWorkflows[w].signature, ep.events)}
  IN IF typed /\ ws # {} THEN Min(ws) ELSE None

TemplateReps(ks, cadence) ==
  CASE cadence = "fiscal_monthly" -> Cardinality({recorded[k].day \div MonthDays : k \in ToSet(ks)})
    [] cadence = "weekly" -> Cardinality({recorded[k].day \div WeekDays : k \in ToSet(ks)})
    [] OTHER -> Len(ks)

-----------------------------------------------------------------------------
(* scoring.ts *)

\* Twice the median
MiddleTwo(v, n) == IF n = 0 THEN 0 ELSE v[(n + 1) \div 2] + v[n \div 2 + 1]
Median2(values) == MiddleTwo(ByRank(values, values), Len(values))

\* The first of the token sequences whose length is nearest the median
Apart(x, y) == IF x > y THEN x - y ELSE y - x
Nearest(seqs, target) ==
  LET off == [n \in DOMAIN seqs |-> Apart(2 * Len(seqs[n]), target)]
  IN seqs[CHOOSE n \in DOMAIN seqs : \A o \in DOMAIN seqs : off[n] < off[o] \/ (off[n] = off[o] /\ n <= o)]
RepresentativeSequence(seqs) == Nearest(seqs, Median2([n \in DOMAIN seqs |-> Len(seqs[n])]))

\* Of the runs at the given positions of recorded
Representative(ks) == RepresentativeSequence([n \in DOMAIN ks |-> Tokens(recorded[ks[n]])])

DistinctDays(ks) == Cardinality({recorded[k].day : k \in ToSet(ks)})

\* Five workdays a week, four fifths of the time returned
ProjectedMinutes(ks) == (Len(ks) * 2 * Median2([n \in DOMAIN ks |-> recorded[ks[n]].minutes])) \div DistinctDays(ks)

UiWrites == {"value_committed", "record_updated", "paste_semantic"}
FeasibilityScore(seq) ==
  LET mapped == {n \in DOMAIN seq : CapabilityChain[seq[n]] # <<>>}
      ui == {n \in DOMAIN seq \ mapped : seq[n].type \in UiWrites}
      csv == {n \in mapped : CapabilityChain[seq[n]][1].csv}
      final == \E n \in mapped : ~CapabilityChain[seq[n]][1].reversible
  IN IF seq = <<>> THEN 0
     ELSE Clamp01((Cardinality(mapped) * 1000) \div Len(seq) - 100 * Cardinality(csv) - 150 * Cardinality(ui)
                    - (IF final THEN 200 ELSE 0))

RiskValue == [low |-> 150, medium |-> 500, high |-> 850, prohibited |-> 1000]
TokenRisk(t) ==
  IF CapabilityChain[t] # <<>> THEN RiskValue[Last(CapabilityChain[t]).risk]
  ELSE IF t.type \in UiWrites THEN 500 ELSE 100
RiskScore(seq) ==
  IF seq = <<>> THEN 0 ELSE Clamp01(SumOf([n \in DOMAIN seq |-> TokenRisk(seq[n])]) \div Len(seq))

ErrorReduction(seq) ==
  IF seq = <<>> THEN 0
  ELSE Clamp01((Cardinality({n \in DOMAIN seq : seq[n].type \in UiWrites \cup {"copy_semantic"}}) * 1000)
                 \div Len(seq) + 200)

OpportunityScore(ks, similarity, seq) ==
  Clamp01((250 * Clamp01(Len(ks) * 100) + 250 * Clamp01((ProjectedMinutes(ks) * 1000) \div 120) + 200 * similarity
             + 200 * FeasibilityScore(seq) + 100 * ErrorReduction(seq) - 200 * RiskScore(seq)) \div 1000)

-----------------------------------------------------------------------------
(* engine.ts *)

\* effectiveEligibility: only the volume bars can be tuned, and only down to a floor.
Eligibility ==
  [occurrences |-> AtLeast(2, tuning.occurrences), days |-> AtLeast(1, tuning.days),
   minutes |-> AtLeast(0, tuning.minutes), similarity |-> 820, feasibility |-> 600, risk |-> 700]

Learnable == {k \in DOMAIN recorded : recorded[k].kept = "learn"}
Explained(w) == InOrder(recorded, {k \in Learnable : MatchEpisode(recorded[k]) = w})

\* meanSimilarity; clusterEpisodes answers the same mean for its clusters
MeanSimilarity(ks, sim) ==
  LET below(j) == SumOf([i \in 1 .. j - 1 |-> sim[<<ks[i], ks[j]>>]])
  IN IF Len(ks) < 2 THEN 1000
     ELSE SumOf([j \in DOMAIN ks |-> below(j)]) \div ((Len(ks) * (Len(ks) - 1)) \div 2)
TemplateSimilarities(ks) ==
  [ij \in ToSet(ks) \X ToSet(ks) |-> SequenceSimilarity(Tokens(recorded[ij[1]]), Tokens(recorded[ij[2]]))]

ScorePattern(ks, template, similarity, seq) ==
  [members |-> ks, template |-> template, sequence |-> seq, similarity |-> similarity,
   days |-> DistinctDays(ks), minutes |-> ProjectedMinutes(ks), feasibility |-> FeasibilityScore(seq),
   risk |-> RiskScore(seq), opportunity |-> OpportunityScore(ks, similarity, seq)]
PatternOf(ks, template, similarity) == ScorePattern(ks, template, similarity, Representative(ks))

Safe(p) == p.feasibility >= Eligibility.feasibility /\ p.risk <= Eligibility.risk

\* buildTemplateCandidate: a template replaces the volume bars, never the safety bars.
TemplateSurfaces(p) ==
  LET w == PackWorkflows[p.template] IN TemplateReps(p.members, w.cadence) >= w.minReps /\ Safe(p)
NovelSurfaces(p) ==
  /\ Len(p.members) >= Eligibility.occurrences /\ p.days >= Eligibility.days
  /\ p.similarity >= Eligibility.similarity /\ p.minutes >= Eligibility.minutes /\ Safe(p)
  /\ p.opportunity >= Clamp01(tuning.opportunity)
Surfaces(p) ==
  p.sequence \notin tuning.refused /\ (IF p.template # None THEN TemplateSurfaces(p) ELSE NovelSurfaces(p))

\* runPatternEngine: templates first, then the clusters of what no template explains, singletons left out.
TemplatePattern(w) ==
  PatternOf(Explained(w), w, MeanSimilarity(Explained(w), TemplateSimilarities(Explained(w))))
NovelPattern(c) == PatternOf(c, None, MeanSimilarity(c, PairSimilarities(c)))
PatternCandidates ==
  {TemplatePattern(w) : w \in {v \in DOMAIN PackWorkflows : Explained(v) # <<>>}}
  \cup {NovelPattern(c) : c \in {d \in ToSet(ClusterEpisodes(Explained(None))) : Len(d) > 1}}

-----------------------------------------------------------------------------
(* replay.ts *)

IsNoOp(t) == t.role = None /\ t.semantic = None /\ t.object = None

\* Tokens without semantics compare on role and event type, the others on role and semantics.
ComparisonKey(t) ==
  IF t.semantic = None /\ t.object = None THEN <<"fallback", t.role, t.type>>
  ELSE <<"semantic", t.role, t.semantic, t.object>>

\* The agent's next step must appear at or after the cursor: at is the cursor, or None once a step is missing.
Align(trace, at, step) ==
  LET next == {j \in at.cursor .. Len(trace) : ComparisonKey(trace[j]) = ComparisonKey(step)}
  IN IF at.lost \/ next = {} THEN [at EXCEPT !.lost = TRUE]
     ELSE [cursor |-> Min(next) + 1, aligned |-> at.aligned + 1, lost |-> FALSE]

Verdict(steps, trace, end) ==
  [verdict |-> IF steps = <<>> \/ trace = <<>> THEN "insufficient_evidence"
               ELSE IF ~end.lost THEN "match" ELSE IF end.aligned = 0 THEN "miss" ELSE "partial",
   aligned |-> end.aligned, expected |-> Len(steps)]
Work(tokens) == Chosen(tokens, {n \in DOMAIN tokens : ~IsNoOp(tokens[n])})
Walk(steps, trace) ==
  LET at[n \in 0..Len(steps)] ==
        IF n = 0 THEN [cursor |-> 1, aligned |-> 0, lost |-> FALSE] ELSE Align(trace, at[n - 1], steps[n])
  IN  Verdict(steps, trace, at[Len(steps)])
ReplayAgainstTrace(sequence, tokens) == Walk(Work(sequence), Work(tokens))

\* The runs that stand for the held-out one
SelfTraining(tested, n) == tested \* a mutant
Training(tested, n) == RemoveAt(tested, n)

\* replayCandidateLeaveOneOut of the pattern's runs, newest first, with the engine's own representative
Replays(tested) ==
  IF Len(tested) < 2
  THEN [n \in DOMAIN tested |-> [verdict |-> "insufficient_evidence", aligned |-> 0, expected |-> 0]]
  ELSE [n \in DOMAIN tested |->
          ReplayAgainstTrace(Representative(Training(tested, n)), Tokens(recorded[tested[n]]))]
Report(results) ==
  LET count(v) == Cardinality({n \in DOMAIN results : results[n].verdict = v})
  IN [results |-> results, matched |-> count("match"),
      usable |-> Len(results) - count("insufficient_evidence"),
      meaningful |-> IF results = <<>> THEN 0 ELSE Max({results[n].expected : n \in DOMAIN results})]
Newest(ks) == SubSeq(ByRank(ks, [n \in DOMAIN ks |-> -ks[n]]), 1, Min({VerifyWindow, Len(ks)}))
LeaveOneOut(p) == Report(Replays(Newest(p.members)))

\* evaluateVerification; recommendations.ts passes no readiness.
Verified(report) ==
  /\ report.meaningful > 0
  /\ report.usable >= VerifyMinRuns
  /\ \E n \in DOMAIN report.results : report.results[n].aligned > 0
  /\ report.usable > 0 /\ report.matched * 1000 >= VerifyMinMatch * report.usable

\* recommendations.ts: a template match is a card as it is, any other pattern once it is proven.
IsProven(p) == Surfaces(p) /\ (p.template # None \/ Verified(LeaveOneOut(p)))

-----------------------------------------------------------------------------
(* forming.ts: the gates of the forming card, with the bars the engine ran with *)

PatternGates(p, report) ==
  [repeats |-> Len(p.members) >= Eligibility.occurrences,
   days |-> p.days >= Eligibility.days,
   consistency |-> p.similarity >= Eligibility.similarity,
   time |-> p.minutes >= Eligibility.minutes,
   feasibility |-> p.feasibility >= Eligibility.feasibility,
   risk |-> p.risk <= Eligibility.risk,
   opportunity |-> p.opportunity >= tuning.opportunity,
   replay |-> /\ report.usable >= VerifyMinRuns
              /\ report.usable > 0 /\ report.matched * 1000 >= VerifyMinMatch * report.usable]
UnmetOf(gates) == {g \in DOMAIN gates : ~gates[g]}
UnmetGates(p) == UnmetOf(PatternGates(p, LeaveOneOut(p)))

\* A pattern shows as forming while it is unproven and not waved off.
IsForming(p) == p.sequence \notin tuning.refused /\ ~IsProven(p)

-----------------------------------------------------------------------------
EngineInit == recorded = <<>> /\ tuning \in Tunings

\* The user does a piece of work, on the same day as the last or a later one.
RecordRun(shape, later) ==
  /\ Len(recorded) < MaxRecorded
  /\ recorded' = Append(recorded, [events |-> shape.events, minutes |-> shape.minutes, kept |-> shape.kept,
                                   day |-> IF recorded = <<>> THEN 0 ELSE Last(recorded).day + later])
  /\ UNCHANGED tuning

EngineNext == \E shape \in Shapes, later \in 0..1 : RecordRun(shape, later)

EngineSpec == EngineInit /\ [][EngineNext]_engineVars

-----------------------------------------------------------------------------
(* Properties *)

\* There is an order-preserving way to find every step of a in b.
Embeds(a, b) ==
  \E f \in [DOMAIN a -> DOMAIN b] :
    /\ \A i, j \in DOMAIN a : i < j => f[i] < f[j]
    /\ \A i \in DOMAIN a : ComparisonKey(a[i]) = ComparisonKey(b[f[i]])

\* The action-by-action reading of a pattern's replay: of its newest runs, each against what the others alone
\* predict, how many can be compared and how many really contain the prediction.
Descending(runs) ==
  [n \in 1 .. Cardinality(runs) |-> CHOOSE k \in runs : Cardinality({o \in runs : o > k}) = n - 1]
Predicted(runs, k) ==
  LET others == Descending(runs \ {k})
  IN  RepresentativeSequence([n \in DOMAIN others |-> Tokens(recorded[others[n]])])
Evidence(runs) == {<<Work(Predicted(runs, k)), Work(Tokens(recorded[k])), k>> : k \in runs}
Comparable(evidence) == {x \in evidence : x[1] # <<>> /\ x[2] # <<>>}
Enough(comparable) ==
  /\ Cardinality(comparable) >= VerifyMinRuns
  /\ Cardinality({x \in comparable : Embeds(x[1], x[2])}) * 1000 >= VerifyMinMatch * Cardinality(comparable)
AreRepeated(members) ==
  /\ \A i, j \in members : i # j => PairSimilarity(recorded[i], recorded[j]) >= SimilarityThreshold
  /\ Enough(Comparable(Evidence({k \in members : Cardinality({o \in members : o > k}) < VerifyWindow})))

\* A pattern that is offered was learned from runs the user allows, and is what it claims: any two of a
\* novel pattern's runs are alike, and enough of them really contain, in order, the actions that the other
\* runs alone predict, at least one action each. No setting and no template gets it past the bars on
\* feasibility and risk. And the forming card is honest: what it shows has a gate that is not yet met, unless
\* the share of runs to match is set to nothing, when runs that all miss clear the card's gates and not the replay's.
PatternsAreEarned ==
  \A p \in PatternCandidates :
    /\ IsProven(p) =>
         /\ \A k \in ToSet(p.members) : recorded[k].kept = "learn"
         /\ p.feasibility >= 600 /\ p.risk <= 700
         /\ p.template = None => AreRepeated(ToSet(p.members))
    /\ (IsForming(p) /\ p.template = None /\ VerifyMinMatch > 0) => UnmetGates(p) # {}

\* The episodes the recogniser is given are whole, and what it makes of them is earned.
EvidenceIsEarned == EpisodesAreWhole /\ PatternsAreEarned
==============================================================================
