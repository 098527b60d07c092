----------------------------- MODULE TriggerDaemon -----------------------------
(***************************************************************************)
(* The trigger daemon of the Tauri core (trigger_service.rs) and the spool *)
(* it shares with the panel.                                               *)
(*                                                                         *)
(* Events are evaluated on the threads that stored them, schedules on the  *)
(* task that sweeps; what they share is the state behind one mutex.  A     *)
(* firing is announced and appended to the spool after the mutex is given  *)
(* back; the panel drains the spool once, when it boots.                   *)
(***************************************************************************)
EXTENDS Values, SequencesExt

CONSTANTS
  Watchers, Crons, \* agents with a context trigger, and with a schedule
  Threads, Sweeper, \* the threads that evaluate events, and the task that sweeps
  Occurrences,  \* the instants the cron expression names
  Cooling,      \* cooldown_seconds
  SpoolCap,     \* how many firings the spool keeps
  MaxClock, MaxSessions \* bounds

\* An agent has one trigger; instants and the cooldown are numbers, and None is none of them.
ASSUME DaemonAssumption ==
  /\ Watchers \cap Crons = {} /\ Occurrences \subseteq Nat /\ Cooling \in Nat
  /\ MaxClock \in Nat /\ MaxSessions \in Nat /\ None \notin Nat

Triggered == Watchers \cup Crons
Workers == Threads \cup {Sweeper}

VARIABLES
  listed,      \* the state of every agent in agents.json
  known,       \* the agents whose trigger the daemon holds (records, schedules)
  lastFired, lastSweep, \* None where there is none
  firing,      \* firing[t]: the firings thread t has still to announce
  appending,   \* appending[t]: the spool as append_staged read it
  spool,       \* staged_runs.json, newest first
  drain,       \* the panel: "off", "booting", "listening", "removing" (read, not removed), "on"
  clock, sessions,
  started,     \* history of this session: when it started,
  broken,      \* the agents that left the live states,
  announced,   \* every firing, with the start of the window it fired for,
  delivered    \* and the firings the panel has staged

daemon == <<known, lastFired, lastSweep, firing, appending>>
daemonVars == <<listed, daemon, spool, drain, clock, sessions, started, broken, announced, delivered>>

DaemonInit ==
  /\ listed = [a \in Triggered |-> "shadow"] /\ known = {}
  /\ lastFired = [a \in Triggered |-> None] /\ lastSweep = None
  /\ firing = [t \in Workers |-> <<>>] /\ appending = [t \in Workers |-> None]
  /\ spool = <<>> /\ drain = "off" /\ clock = 0 /\ sessions = 0
  /\ started = 0 /\ broken = {} /\ announced = {} /\ delivered = {}

\* LIVE_STATES, parse_agents, parse_schedules
Live(states) == {a \in Triggered : states[a] = "shadow"}

\* reload: cooldowns are kept for the agents that are still there.
Reload(states) ==
  /\ known' = Live(states)
  /\ lastFired' = [a \in Triggered |-> IF a \in Live(states) THEN lastFired[a] ELSE None]

\* The app starts: setup loads the agents, the panel boots.
StartUp ==
  /\ drain = "off" /\ sessions < MaxSessions /\ sessions' = sessions + 1
  /\ drain' = "booting" /\ Reload(listed)
  /\ started' = clock /\ broken' = {} /\ announced' = {} /\ delivered' = {}
  /\ UNCHANGED <<listed, lastSweep, firing, appending, spool, clock>>

\* It is quit: the daemon's memory and what its threads were doing are gone.
ShutDown ==
  /\ drain # "off" /\ drain' = "off" /\ known' = {}
  /\ lastFired' = [a \in Triggered |-> None] /\ lastSweep' = None
  /\ firing' = [t \in Workers |-> <<>>] /\ appending' = [t \in Workers |-> None]
  /\ UNCHANGED <<listed, spool, clock, sessions, started, broken, announced, delivered>>

\* agents_save: the panel saved an agent as archived, as draft again, or as shadow.
AgentsSave(a, state) ==
  /\ drain # "off" /\ listed[a] \notin {"archived", state}
  /\ listed' = [listed EXCEPT ![a] = state] /\ Reload(listed')
  /\ broken' = IF state = "shadow" THEN broken ELSE broken \cup {a}
  /\ UNCHANGED <<lastSweep, firing, appending, spool, drain, clock, sessions, started, announced, delivered>>

-----------------------------------------------------------------------------
(* Evaluation, under the mutex. *)

Idle(t) == drain # "off" /\ firing[t] = <<>> /\ appending[t] = None
Cooled(a) == IF lastFired[a] = None THEN TRUE ELSE clock - lastFired[a] >= Cooling

Fire(t, due, from) ==
  LET fires == {a \in due : Cooled(a)}
      new == {[agent |-> a, at |-> clock, from |-> from] : a \in fires}
  IN /\ lastFired' = [a \in Triggered |-> IF a \in fires THEN clock ELSE lastFired[a]]
     /\ firing' = [firing EXCEPT ![t] = SetToSeq(new)]
     /\ announced' = announced \cup new

\* matches: which triggers a context wakes (host, category, object type).
Matching == SUBSET (known \cap Watchers)

\* evaluate: an event was stored, and the context matches some of the triggers.
Evaluate(t) ==
  /\ Idle(t)
  /\ \E matching \in Matching :
       /\ \E a \in matching : Cooled(a)
       /\ Fire(t, matching, None)
  /\ UNCHANGED <<listed, known, lastSweep, appending, spool, drain, clock, sessions, started, broken, delivered>>

\* schedule_due: an occurrence in (from, clock].
ScheduleDueInclusive(from) == \E i \in Occurrences : from <= i /\ i <= clock
ScheduleDue(from) == \E i \in Occurrences : from < i /\ i <= clock

\* evaluate_schedules: the first sweep only opens the window.
EvaluateSchedules ==
  /\ Idle(Sweeper) /\ lastSweep' = clock
  /\ IF lastSweep = None THEN UNCHANGED <<lastFired, firing, announced>>
     ELSE Fire(Sweeper, IF ScheduleDue(lastSweep) THEN known \cap Crons ELSE {}, lastSweep)
  /\ UNCHANGED <<listed, known, appending, spool, drain, clock, sessions, started, broken, delivered>>

-----------------------------------------------------------------------------
(* Announcing and the spool, without a lock. *)

\* announce_firing: a panel that listens stages the firing; append_staged reads.
AnnounceFiring(t) ==
  /\ firing[t] # <<>> /\ appending[t] = None
  /\ appending' = [appending EXCEPT ![t] = spool]
  /\ delivered' = IF drain = "booting" THEN delivered ELSE delivered \cup {Head(firing[t])}
  /\ UNCHANGED <<listed, known, lastFired, lastSweep, firing, spool, drain, clock, sessions, started, broken, announced>>

\* ... and writes what it read with the firing in front, cut to the cap.
AppendStaged(t) ==
  /\ appending[t] # None
  /\ LET list == <<Head(firing[t])>> \o appending[t]
     IN spool' = SubSeq(list, 1, IF Len(list) > SpoolCap THEN SpoolCap ELSE Len(list))
  /\ firing' = [firing EXCEPT ![t] = Tail(@)] /\ appending' = [appending EXCEPT ![t] = None]
  /\ UNCHANGED <<listed, known, lastFired, lastSweep, drain, clock, sessions, started, broken, announced, delivered>>

\* bootAgentService listens for firings before it drains the spool.
Subscribe ==
  /\ drain = "booting" /\ drain' = "listening"
  /\ UNCHANGED <<listed, daemon, spool, clock, sessions, started, broken, announced, delivered>>

\* staged_runs_drain reads the file, then removes it whatever is in it by then.
DrainReads ==
  /\ drain = "listening" /\ drain' = "removing"
  /\ delivered' = delivered \cup {spool[n] : n \in 1..Len(spool)}
  /\ UNCHANGED <<listed, daemon, spool, clock, sessions, started, broken, announced>>
DrainRemoves ==
  /\ drain = "removing" /\ drain' = "on" /\ spool' = <<>>
  /\ UNCHANGED <<listed, daemon, clock, sessions, started, broken, announced, delivered>>

TimePasses ==
  /\ clock < MaxClock /\ clock' = clock + 1
  /\ UNCHANGED <<listed, daemon, spool, drain, sessions, started, broken, announced, delivered>>

DaemonNext ==
  \/ StartUp \/ ShutDown \/ Subscribe \/ DrainReads \/ DrainRemoves \/ TimePasses
  \/ \E a \in Triggered, state \in {"draft", "shadow", "archived"} : AgentsSave(a, state)
  \/ EvaluateSchedules \/ \E t \in Threads : Evaluate(t)
  \/ \E t \in Workers : AnnounceFiring(t) \/ AppendStaged(t)

DaemonSpec == DaemonInit /\ [][DaemonNext]_daemonVars

-----------------------------------------------------------------------------
(* Properties. *)

\* However sweeps, saves of the agents file and restarts fall, a schedule fires at most
\* once for each occurrence of its cron expression, never for one from before the app ran.
EachOccurrenceOnce ==
  \A f \in announced : f.agent \in Crons =>
    /\ \E i \in Occurrences : started <= f.from /\ f.from < i /\ i <= f.at
    /\ \A g \in announced : (g.agent = f.agent /\ g # f) => (g.at <= f.from \/ f.at <= g.from)

\* Saving the agents file does not unleash a burst: two firings in one session of an
\* agent that was live all the time are a cooldown apart.
CooldownOutlivesSaves ==
  \A f \in announced, g \in announced :
    (f.agent = g.agent /\ f # g /\ f.agent \notin broken) =>
      (f.at - g.at >= Cooling \/ g.at - f.at >= Cooling)

\* Whatever sweeps, events, saves and restarts interleave, the daemon fires when the trigger says, once.
FiringsAreFaithful == EachOccurrenceOnce /\ CooldownOutlivesSaves

\* When no thread is announcing, every firing of this session has been staged by the
\* panel or waits in the spool (staged_runs_drain: "not lost"), as long as the spool is
\* not full.
FiringsAreNotLost ==
  (Len(spool) < SpoolCap /\ \A t \in Workers : Idle(t)) =>
    \A f \in announced : f \in delivered \/ \E n \in 1..Len(spool) : spool[n] = f
==============================================================================
