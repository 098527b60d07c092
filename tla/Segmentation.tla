----------------------------- MODULE Segmentation -----------------------------
(***************************************************************************)
(* segmentation.ts: the stream of feature events, in whatever order it     *)
(* reached the store, cut into the episodes that patterns are learned from.*)
(* Times are small numbers that keep the order of the code's thresholds;   *)
(* an episode is the sequence of its positions in the sorted stream.       *)
(***************************************************************************)
EXTENDS Values

CONSTANTS
  EventKinds,         \* what is observed: [token, object, boundary, dur]
  Gaps,               \* distances in time between one event and another
  Restarts,           \* values of split_on_sequence_restart
  GapBoundary,        \* EVENT_GAP_BOUNDARY_MS
  InactivityBoundary, \* INACTIVITY_BOUNDARY_MS
  MinEpisodeEvents,   \* MIN_EPISODE_EVENTS
  MinEpisodeActive,   \* MIN_EPISODE_ACTIVE_MS
  SwitchMinEvents,    \* OBJECT_FAMILY_SWITCH_MIN_EVENTS
  DurationCap,        \* DERIVED_DURATION_CAP_MS
  TrailingTime,       \* DERIVED_TRAILING_MS
  MaxEvents           \* bound: events stored

ASSUME KindsAssumption == \A kind \in EventKinds : kind.boundary \in BOOLEAN /\ kind.dur \in Nat \cup {None}
ASSUME TimesAssumption ==
  /\ None \notin Int /\ Gaps \subseteq Int /\ GapBoundary \in Int /\ InactivityBoundary \in Int
  /\ DurationCap \in Nat /\ TrailingTime \in 0..DurationCap
ASSUME SizesAssumption == MinEpisodeEvents \in Nat \ {0} /\ SwitchMinEvents \in Nat /\ MinEpisodeActive \in Int

VARIABLES
  arrived,  \* the stored events, in the order they were stored
  splitting \* split_on_sequence_restart

segmentVars == <<arrived, splitting>>

-----------------------------------------------------------------------------
(* deriveDurations *)

\* at is the place of (occurred_at, monotonic_ms) in time. SubSeq makes it a tuple, which TLC computes once.
SortedEvents == SubSeq(ByRank(arrived, [k \in DOMAIN arrived |-> arrived[k].at]), 1, Len(arrived))

\* Recorded time counts as it is; otherwise the spacing to the next event, capped.
ActiveTime(s, k) ==
  CASE s[k].dur # None -> s[k].dur
    [] s[k].dur = None /\ k = Len(s) -> TrailingTime
    [] OTHER -> LET gap == s[k + 1].at - s[k].at IN IF gap < DurationCap THEN gap ELSE DurationCap

EpisodeTime(s, ep) == SumOf([n \in DOMAIN ep |-> ActiveTime(s, ep[n])])

-----------------------------------------------------------------------------
(* segmentEpisodes *)

NothingOpen == [episodes |-> <<>>, current |-> <<>>, last |-> None, family |-> None]

\* buildEpisode answers null for what is too small to mean anything.
BuildsEpisode(s, ep) == Len(ep) >= MinEpisodeEvents /\ EpisodeTime(s, ep) >= MinEpisodeActive

Flush(s, open) ==
  [open EXCEPT !.episodes = IF BuildsEpisode(s, open.current) THEN Append(@, open.current) ELSE @,
               !.current = <<>>]

Spent(e) == IF e.dur = None THEN 0 ELSE e.dur

\* A gap that no recorded duration explains
GapCloses(open, e) ==
  open.last # None /\ (e.at - open.last > GapBoundary \/ e.at - open.last - Spent(e) > InactivityBoundary)

RestartCloses(s, open, e) ==
  splitting /\ Len(open.current) >= MinEpisodeEvents /\ e.token = s[open.current[1]].token

FamilyCloses(open, e) ==
  e.object # None /\ open.family # None /\ e.object # open.family /\ Len(open.current) >= SwitchMinEvents

\* One turn of the loop: an idle or redacted boundary closes and is not content.
TakeEvent(s, open, k) ==
  LET e == s[k]
      gapped == IF GapCloses(open, e) THEN [Flush(s, open) EXCEPT !.family = None] ELSE open
      restarted == IF RestartCloses(s, gapped, e) THEN [Flush(s, gapped) EXCEPT !.family = None] ELSE gapped
      switched == IF FamilyCloses(restarted, e) THEN Flush(s, restarted) ELSE restarted
  IN IF e.boundary THEN [Flush(s, open) EXCEPT !.last = None, !.family = None]
     ELSE [switched EXCEPT !.current = Append(@, k), !.last = e.at,
                           !.family = IF e.object # None THEN e.object ELSE @]

SegmentEpisodes(s) ==
  LET open[k \in 0..Len(s)] == IF k = 0 THEN NothingOpen ELSE TakeEvent(s, open[k - 1], k)
  IN  Flush(s, open[Len(s)]).episodes

-----------------------------------------------------------------------------
SegmentInit == arrived = <<>> /\ splitting \in Restarts

\* The relay, the observer and a backfill store events of any age.
StoreEvent(kind, at) ==
  /\ Len(arrived) < MaxEvents
  /\ arrived' = Append(arrived, [token |-> kind.token, object |-> kind.object, boundary |-> kind.boundary,
                                 dur |-> kind.dur, at |-> at])
  /\ UNCHANGED splitting

Moments == IF arrived = <<>> THEN {0} ELSE {arrived[i].at + g : i \in DOMAIN arrived, g \in Gaps}

SegmentNext == \E kind \in EventKinds, at \in Moments : StoreEvent(kind, at)

SegmentSpec == SegmentInit /\ [][SegmentNext]_segmentVars

-----------------------------------------------------------------------------
(* Properties *)

\* Two neighbours of the stream that no episode may span
HardCut(s, k) ==
  \/ s[k].boundary \/ s[k + 1].boundary
  \/ s[k + 1].at - s[k].at > GapBoundary
  \/ s[k + 1].at - s[k].at - Spent(s[k + 1]) > InactivityBoundary

Stretches(s) ==
  {ab \in (DOMAIN s) \X (DOMAIN s) :
     /\ ab[1] <= ab[2] /\ ~s[ab[1]].boundary
     /\ \A k \in ab[1] .. ab[2] - 1 : ~HardCut(s, k)
     /\ ab[1] > 1 => HardCut(s, ab[1] - 1)
     /\ ab[2] < Len(s) => HardCut(s, ab[2])}

\* Whatever the order in which its events were stored, an episode is an unbroken stretch of work: its
\* events follow one another in time with nothing between them, no idle time, redacted boundary or
\* unexplained gap inside; with restart splitting on it holds one run, its first action not recurring once
\* it is full. No time is invented: it counts at most the time it spans, what was recorded and one cap.
\* And nothing is lost: a stretch about one object, with no restart in it, is an episode whenever it is
\* large enough.
EpisodesAreWhole ==
  LET s == SortedEvents
      eps == SegmentEpisodes(s)
      Ends(ep) == <<ep[1], ep[Len(ep)]>>
  IN /\ \A n \in DOMAIN eps :
          LET ep == eps[n] IN
          /\ \A j \in 1 .. Len(ep) - 1 : 
               ep[j + 1] = ep[j] + 1 /\ s[ep[j]].at <= s[ep[j + 1]].at /\ ~HardCut(s, ep[j])
          /\ ~s[ep[1]].boundary
          /\ splitting => \A j \in MinEpisodeEvents + 1 .. Len(ep) : s[ep[j]].token # s[ep[1]].token
          /\ EpisodeTime(s, ep) <= SumOf([j \in DOMAIN ep |-> Spent(s[ep[j]])])
                                     + s[ep[Len(ep)]].at - s[ep[1]].at + DurationCap
     /\ \A ab \in Stretches(s) :
          LET whole == [j \in 1 .. ab[2] - ab[1] + 1 |-> ab[1] + j - 1] IN
          ( /\ BuildsEpisode(s, whole)
            /\ Cardinality({s[k].object : k \in ab[1] .. ab[2]} \ {None}) <= 1
            /\ splitting => \A k \in ab[1] + 1 .. ab[2] : s[k].token # s[ab[1]].token )
            => whole \in {eps[n] : n \in DOMAIN eps}
==============================================================================
