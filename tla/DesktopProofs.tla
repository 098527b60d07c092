---------------------------- MODULE DesktopProofs ----------------------------
(* What the desktop's components promise in every behaviour, for every value of their constants: the trigger   *)
(* daemon, the browser lane, the run executor, the relay of the bridge and the window an agent works in. Each  *)
(* part states an invariant every action keeps, typing first, and ends with the theorem it is for.            *)
EXTENDS TriggerDaemon, BrowserLane, DesktopRuns, BrowserBridge, AgentWindow, SequenceLemmas, FiniteSetTheorems

-----------------------------------------------------------------------------
(* The trigger daemon. *)

Firing == [agent : Triggered, at : Nat, from : Nat \cup {None}]

DaemonTypeOK ==
  /\ listed \in [Triggered -> {"draft", "shadow", "archived"}]
  /\ lastFired \in [Triggered -> Nat \cup {None}] /\ lastSweep \in Nat \cup {None}
  /\ clock \in Nat /\ started \in Nat /\ broken \subseteq Triggered
  /\ announced \subseteq Firing

\* While the app runs, the daemon holds the triggers of the agents that are live, no firing is of the future,
\* and the sweep goes by a window of this session.
NowInv ==
  /\ started <= clock
  /\ drain # "off" => known = Live(listed)
  /\ drain = "off" => lastSweep = None
  /\ \A f \in announced : f.at <= clock
  /\ lastSweep # None => started <= lastSweep /\ lastSweep <= clock

\* A schedule's firings are within the sweeps so far, each in a window of its own with an occurrence in it.
WindowInv ==
  /\ EachOccurrenceOnce
  /\ \A f \in announced : f.agent \in Crons => f.from \in Nat
  /\ drain # "off" => \A f \in announced : f.agent \in Crons => lastSweep # None /\ f.at <= lastSweep

\* An agent that was live all the time has its last firing on record.
CooldownInv ==
  /\ CooldownOutlivesSaves
  /\ drain # "off" =>
       \A f \in announced : f.agent \notin broken =>
         /\ listed[f.agent] = "shadow" /\ lastFired[f.agent] # None /\ f.at <= lastFired[f.agent]
  /\ \A a \in Triggered : lastFired[a] # None => lastFired[a] <= clock

DaemonInv == DaemonTypeOK /\ NowInv /\ WindowInv /\ CooldownInv

-----------------------------------------------------------------------------
\* Nothing is announced, and the agents, their last firings and the sweep stay as they are.
LEMMA DaemonRests ==
  ASSUME DaemonInv, drain' # "off", drain # "off",
         UNCHANGED <<listed, known, lastFired, lastSweep, started, broken, announced>>,
         clock' \in Nat, clock <= clock'
  PROVE  DaemonInv'
<1>1. DaemonTypeOK'
  BY DEF DaemonInv, DaemonTypeOK
<1>2. NowInv'
  <2>1. \A f \in announced : f.at \in Nat /\ f.at <= clock'
    BY DEF DaemonInv, DaemonTypeOK, NowInv, Firing
  <2> QED
    BY <2>1 DEF DaemonInv, DaemonTypeOK, NowInv, Live
<1>3. WindowInv'
  BY DEF DaemonInv, WindowInv, EachOccurrenceOnce
<1>4. CooldownInv'
  <2>1. \A a \in Triggered : lastFired[a] # None => lastFired[a] <= clock'
    BY DEF DaemonInv, DaemonTypeOK, CooldownInv
  <2> QED
    BY <2>1 DEF DaemonInv, CooldownInv, CooldownOutlivesSaves
<1> QED
  BY <1>1, <1>2, <1>3, <1>4 DEF DaemonInv

\* The agents file is saved, the app starts: what is kept of the last firings.
LEMMA ReloadType ==
  ASSUME DaemonTypeOK, NEW states, Reload(states)
  PROVE  /\ lastFired' \in [Triggered -> Nat \cup {None}] /\ known' = Live(states)
         /\ \A a \in Triggered : lastFired'[a] = IF a \in Live(states) THEN lastFired[a] ELSE None
BY DEF DaemonTypeOK, Reload

\* Firing what is due: at most one firing of an agent, now, and only when it has cooled.
LEMMA FireKeeps ==
  ASSUME DaemonInv, drain # "off", drain' = drain,
         NEW t, NEW due \in SUBSET known, NEW from \in Nat \cup {None}, Fire(t, due, from),
         UNCHANGED <<listed, known, clock, started, broken>>,
         \/ due \subseteq Watchers /\ lastSweep' = lastSweep
         \/ /\ due \subseteq Crons /\ lastSweep' = clock /\ from \in Nat /\ lastSweep = from
            /\ due # {} => ScheduleDue(from)
  PROVE  DaemonInv'
<1> USE DaemonAssumption
<1> DEFINE fires == {a \in due : Cooled(a)}
           new == {[agent |-> a, at |-> clock, from |-> from] : a \in fires}
<1>0. /\ lastFired' = [a \in Triggered |-> IF a \in fires THEN clock ELSE lastFired[a]]
      /\ announced' = announced \cup new
  BY DEF Fire
<1>1. DaemonTypeOK /\ clock \in Nat /\ known = Live(listed) /\ known \subseteq Triggered
  BY DEF DaemonInv, NowInv, DaemonTypeOK, Live
<1>2. \A f \in new : f \in Firing /\ f.at = clock /\ f.from = from /\ f.agent \in fires /\ f.agent \in due
  BY <1>1 DEF Firing
<1>3. \A f, g \in new : f.agent = g.agent => f = g
  OBVIOUS
<1>4. \A a \in fires : lastFired[a] # None => clock - lastFired[a] >= Cooling
  BY DEF Cooled
<1> HIDE DEF fires, new
<1>5. fires \subseteq due
  BY DEF fires
<1>6. DaemonTypeOK'
  BY <1>0, <1>1, <1>2 DEF DaemonTypeOK
<1>7. NowInv'
  <2>1. \A f \in announced' : f.at <= clock
    BY <1>0, <1>1, <1>2 DEF DaemonInv, NowInv
  <2> QED
    BY <1>1, <2>1 DEF DaemonInv, NowInv, DaemonTypeOK, Live
<1>8. \A f \in announced : f \in Firing /\ f.at \in Nat /\ f.at <= clock
  BY <1>1 DEF DaemonInv, NowInv, DaemonTypeOK, Firing
<1>9. WindowInv'
  <2>1. CASE due \subseteq Watchers /\ lastSweep' = lastSweep
    <3>1. \A f \in announced' : f.agent \in Crons => f \in announced
      BY <1>0, <1>2, <1>5, <2>1
    <3>2. EachOccurrenceOnce'
      BY <3>1 DEF DaemonInv, WindowInv, EachOccurrenceOnce
    <3> QED
      BY <2>1, <3>1, <3>2 DEF DaemonInv, WindowInv
  <2>2. CASE /\ due \subseteq Crons /\ lastSweep' = clock /\ from \in Nat /\ lastSweep = from
             /\ due # {} => ScheduleDue(from)
    <3>1. started <= from /\ from <= clock /\ started \in Nat
      BY <1>1, <2>2 DEF DaemonInv, NowInv, DaemonTypeOK
    <3>2. \A f \in new : \E i \in Occurrences : started <= f.from /\ f.from < i /\ i <= f.at
      BY <1>2, <2>2, <3>1 DEF ScheduleDue
    <3>3. \A f \in announced : f.agent \in Crons => f.at <= from
      BY <2>2 DEF DaemonInv, WindowInv
    <3>4. \A f \in announced' : f.agent \in Crons => \E i \in Occurrences : started <= f.from /\ f.from < i /\ i <= f.at
      BY <1>0, <3>2 DEF DaemonInv, WindowInv, EachOccurrenceOnce
    <3>5. \A f, g \in announced' : f.agent \in Crons /\ g.agent = f.agent /\ g # f => g.at <= f.from \/ f.at <= g.from
      BY <1>0, <1>2, <1>3, <3>3 DEF DaemonInv, WindowInv, EachOccurrenceOnce
    <3>6. EachOccurrenceOnce'
      BY <3>4, <3>5 DEF EachOccurrenceOnce
    <3>7. \A f \in announced' : f.agent \in Crons => f.from \in Nat /\ f.at <= clock
      BY <1>0, <1>1, <1>2, <1>8, <2>2 DEF DaemonInv, WindowInv
    <3> QED
      BY <1>1, <2>2, <3>6, <3>7 DEF WindowInv
  <2> QED
    BY <2>1, <2>2
<1>10. \A a \in Triggered : lastFired'[a] = IF a \in fires THEN clock ELSE lastFired[a]
  BY <1>0
<1>11. CooldownInv'
  <2>1. \A f \in announced : f.agent \notin broken =>
          /\ listed[f.agent] = "shadow" /\ lastFired[f.agent] # None /\ f.at <= lastFired[f.agent]
          /\ f.agent \in Triggered /\ lastFired[f.agent] \in Nat /\ lastFired[f.agent] <= clock
    BY <1>1, <1>8 DEF DaemonInv, CooldownInv, DaemonTypeOK, Firing
  <2>2. \A f \in announced, g \in new : f.agent = g.agent /\ f.agent \notin broken => g.at - f.at >= Cooling
    <3> SUFFICES ASSUME NEW f \in announced, NEW g \in new, f.agent = g.agent, f.agent \notin broken
                 PROVE  g.at - f.at >= Cooling
      OBVIOUS
    <3>1. clock - lastFired[f.agent] >= Cooling
      BY <1>2, <1>4, <2>1
    <3>2. f.at <= lastFired[f.agent] /\ f.at \in Nat /\ lastFired[f.agent] \in Nat /\ g.at = clock
      BY <1>2, <1>8, <2>1
    <3> QED
      BY <1>1, <3>1, <3>2
  <2>3. CooldownOutlivesSaves'
    BY <1>0, <1>3, <2>2 DEF DaemonInv, CooldownInv, CooldownOutlivesSaves
  <2>4. \A f \in announced' : f.agent \notin broken =>
          /\ listed[f.agent] = "shadow" /\ lastFired'[f.agent] # None /\ f.at <= lastFired'[f.agent]
    <3> SUFFICES ASSUME NEW f \in announced', f.agent \notin broken
                 PROVE  listed[f.agent] = "shadow" /\ lastFired'[f.agent] # None /\ f.at <= lastFired'[f.agent]
      OBVIOUS
    <3>1. CASE f \in announced
      BY <1>1, <1>8, <1>10, <2>1, <3>1
    <3>2. CASE f \in new
      BY <1>1, <1>2, <1>5, <1>10, <3>2 DEF Live, Firing
    <3> QED
      BY <1>0, <3>1, <3>2
  <2>5. \A a \in Triggered : lastFired'[a] # None => lastFired'[a] <= clock
    BY <1>1, <1>10 DEF DaemonInv, CooldownInv
  <2> QED
    BY <2>3, <2>4, <2>5 DEF CooldownInv
<1> QED
  BY <1>6, <1>7, <1>9, <1>11 DEF DaemonInv

\* Sweeps, events, saves of the agents and restarts all keep the daemon's invariant.
LEMMA DaemonInductive == DaemonInv /\ [DaemonNext]_daemonVars => DaemonInv'
<1> SUFFICES ASSUME DaemonInv, [DaemonNext]_daemonVars PROVE DaemonInv'
  OBVIOUS
<1> USE DaemonAssumption
<1>0. DaemonTypeOK /\ clock \in Nat
  BY DEF DaemonInv, DaemonTypeOK
<1>1. CASE UNCHANGED daemonVars
  BY <1>1 DEF daemonVars, daemon, DaemonInv, DaemonTypeOK, NowInv, WindowInv, CooldownInv, EachOccurrenceOnce,
     CooldownOutlivesSaves, Live
<1>2. CASE StartUp
  <2>1. /\ known' = Live(listed) /\ lastFired' \in [Triggered -> Nat \cup {None}]
        /\ \A a \in Triggered : lastFired'[a] = IF a \in Live(listed) THEN lastFired[a] ELSE None
    BY <1>0, <1>2, ReloadType DEF StartUp
  <2>2. /\ drain = "off" /\ drain' = "booting" /\ started' = clock /\ broken' = {} /\ announced' = {}
        /\ UNCHANGED <<listed, lastSweep, clock>>
    BY <1>2 DEF StartUp
  <2>3. DaemonTypeOK'
    BY <1>0, <2>1, <2>2 DEF DaemonTypeOK
  <2>4. NowInv'
    BY <1>0, <2>1, <2>2 DEF DaemonInv, NowInv, Live
  <2>5. WindowInv'
    BY <2>2 DEF WindowInv, EachOccurrenceOnce
  <2>6. CooldownInv'
    BY <2>1, <2>2 DEF DaemonInv, CooldownInv, CooldownOutlivesSaves
  <2> QED
    BY <2>3, <2>4, <2>5, <2>6 DEF DaemonInv
<1>3. CASE ShutDown
  <2>1. /\ drain' = "off" /\ lastFired' = [a \in Triggered |-> None] /\ lastSweep' = None
        /\ UNCHANGED <<listed, clock, started, broken, announced>>
    BY <1>3 DEF ShutDown
  <2>2. DaemonTypeOK'
    BY <1>0, <2>1 DEF DaemonTypeOK
  <2>3. NowInv'
    BY <2>1 DEF DaemonInv, NowInv
  <2>4. WindowInv'
    BY <2>1 DEF DaemonInv, WindowInv, EachOccurrenceOnce
  <2>5. CooldownInv'
    BY <2>1 DEF DaemonInv, CooldownInv, CooldownOutlivesSaves
  <2> QED
    BY <2>2, <2>3, <2>4, <2>5 DEF DaemonInv
<1>4. ASSUME NEW a \in Triggered, NEW state \in {"draft", "shadow", "archived"}, AgentsSave(a, state)
      PROVE  DaemonInv'
  <2>1. /\ listed' = [listed EXCEPT ![a] = state] /\ listed[a] # state /\ drain # "off" /\ drain' = drain
        /\ broken' = IF state = "shadow" THEN broken ELSE broken \cup {a}
        /\ UNCHANGED <<lastSweep, clock, started, announced>>
    BY <1>4 DEF AgentsSave
  <2>2. /\ known' = Live(listed') /\ lastFired' \in [Triggered -> Nat \cup {None}]
        /\ \A b \in Triggered : lastFired'[b] = IF b \in Live(listed') THEN lastFired[b] ELSE None
    BY <1>0, <1>4, ReloadType DEF AgentsSave
  <2>3. listed' \in [Triggered -> {"draft", "shadow", "archived"}]
    BY <1>0, <2>1 DEF DaemonTypeOK
  <2>4. DaemonTypeOK'
    BY <1>0, <2>1, <2>2, <2>3 DEF DaemonTypeOK
  <2>5. NowInv'
    BY <2>1, <2>2 DEF DaemonInv, NowInv, Live
  <2>6. WindowInv'
    BY <2>1 DEF DaemonInv, WindowInv, EachOccurrenceOnce
  <2>7. CooldownInv'
    <3>1. CooldownOutlivesSaves'
      BY <2>1 DEF DaemonInv, CooldownInv, CooldownOutlivesSaves
    <3>2. \A f \in announced : f.agent \notin broken' =>
            /\ listed'[f.agent] = "shadow" /\ lastFired'[f.agent] # None /\ f.at <= lastFired'[f.agent]
      <4> SUFFICES ASSUME NEW f \in announced, f.agent \notin broken'
                   PROVE  listed'[f.agent] = "shadow" /\ lastFired'[f.agent] # None /\ f.at <= lastFired'[f.agent]
        OBVIOUS
      <4>1. f.agent \in Triggered /\ f.agent \notin broken
        BY <1>0, <2>1 DEF DaemonTypeOK, Firing
      <4>2. listed[f.agent] = "shadow" /\ lastFired[f.agent] # None /\ f.at <= lastFired[f.agent]
        BY <2>1, <4>1 DEF DaemonInv, CooldownInv
      <4>3. listed'[f.agent] = "shadow"
        BY <1>0, <2>1, <4>1, <4>2 DEF DaemonTypeOK
      <4> QED
        BY <2>2, <4>1, <4>2, <4>3 DEF Live
    <3>3. \A b \in Triggered : lastFired'[b] # None => lastFired'[b] <= clock
      BY <2>2 DEF DaemonInv, CooldownInv
    <3> QED
      BY <2>1, <3>1, <3>2, <3>3 DEF CooldownInv
  <2> QED
    BY <2>4, <2>5, <2>6, <2>7 DEF DaemonInv
<1>5. CASE EvaluateSchedules
  <2>1. drain # "off" /\ drain' = drain /\ lastSweep' = clock /\ UNCHANGED <<listed, known, clock, started, broken>>
    BY <1>5 DEF EvaluateSchedules, Idle
  <2>2. CASE lastSweep = None
    <3>1. UNCHANGED <<lastFired, announced>>
      BY <1>5, <2>2 DEF EvaluateSchedules
    <3>2. DaemonTypeOK'
      BY <1>0, <2>1, <3>1 DEF DaemonTypeOK
    <3>3. NowInv'
      BY <1>0, <2>1, <3>1 DEF DaemonInv, NowInv, Live
    <3>4. WindowInv'
      BY <2>1, <2>2, <3>1 DEF DaemonInv, WindowInv, EachOccurrenceOnce
    <3>5. CooldownInv'
      BY <2>1, <3>1 DEF DaemonInv, CooldownInv, CooldownOutlivesSaves
    <3> QED
      BY <3>2, <3>3, <3>4, <3>5 DEF DaemonInv
  <2>3. CASE lastSweep # None
    <3> DEFINE due == IF ScheduleDue(lastSweep) THEN known \cap Crons ELSE {}
    <3>1. Fire(Sweeper, due, lastSweep)
      BY <1>5, <2>3 DEF EvaluateSchedules
    <3>2. due \in SUBSET known /\ due \subseteq Crons /\ (due # {} => ScheduleDue(lastSweep)) /\ lastSweep \in Nat
      BY <1>0, <2>3 DEF DaemonTypeOK
    <3> HIDE DEF due
    <3> QED
      BY <2>1, <3>1, <3>2, FireKeeps
  <2> QED
    BY <2>2, <2>3
<1>6. ASSUME NEW t \in Threads, Evaluate(t) PROVE DaemonInv'
  <2>1. PICK matching \in Matching : Fire(t, matching, None)
    BY <1>6 DEF Evaluate
  <2>2. drain # "off" /\ drain' = drain /\ UNCHANGED <<listed, known, clock, started, broken, lastSweep>>
    BY <1>6 DEF Evaluate, Idle
  <2>3. matching \in SUBSET known /\ matching \subseteq Watchers
    BY DEF Matching
  <2> QED
    BY <2>1, <2>2, <2>3, FireKeeps
<1>7. ASSUME NEW t \in Workers, AnnounceFiring(t) \/ AppendStaged(t) PROVE DaemonInv'
  <2>1. UNCHANGED <<listed, known, lastFired, lastSweep, drain, clock, started, broken, announced>>
    BY <1>7 DEF AnnounceFiring, AppendStaged
  <2> QED
    BY <2>1 DEF DaemonInv, DaemonTypeOK, NowInv, WindowInv, CooldownInv, EachOccurrenceOnce, CooldownOutlivesSaves, Live
<1>8. CASE Subscribe \/ DrainReads \/ DrainRemoves
  BY <1>0, <1>8, DaemonRests DEF Subscribe, DrainReads, DrainRemoves, daemon
<1>9. CASE TimePasses
  <2>1. /\ UNCHANGED <<listed, known, lastFired, lastSweep, drain, started, broken, announced>>
        /\ clock' \in Nat /\ clock <= clock'
    BY <1>0, <1>9 DEF TimePasses, daemon
  <2>2. CASE drain # "off"
    BY <2>1, <2>2, DaemonRests
  <2>3. CASE drain = "off"
    <3>1. DaemonTypeOK'
      BY <1>0, <2>1 DEF DaemonTypeOK
    <3>2. NowInv'
      <4>1. \A f \in announced : f.at \in Nat /\ f.at <= clock'
        BY <1>0, <2>1 DEF DaemonInv, DaemonTypeOK, NowInv, Firing
      <4> QED
        BY <1>0, <2>1, <2>3, <4>1 DEF DaemonInv, DaemonTypeOK, NowInv
    <3>3. WindowInv'
      BY <2>1, <2>3 DEF DaemonInv, WindowInv, EachOccurrenceOnce
    <3>4. CooldownInv'
      <4>1. \A a \in Triggered : lastFired[a] # None => lastFired[a] <= clock'
        BY <1>0, <2>1 DEF DaemonInv, DaemonTypeOK, CooldownInv
      <4> QED
        BY <2>1, <2>3, <4>1 DEF DaemonInv, CooldownInv, CooldownOutlivesSaves
    <3> QED
      BY <3>1, <3>2, <3>3, <3>4 DEF DaemonInv
  <2> QED
    BY <2>2, <2>3
<1> QED
  BY <1>1, <1>2, <1>3, <1>4, <1>5, <1>6, <1>7, <1>8, <1>9 DEF DaemonNext

\* The daemon fires when the trigger says, once, in every interleaving of sweeps, events, saves and restarts.
THEOREM FiringsStayFaithful == DaemonSpec => []FiringsAreFaithful
<1>1. DaemonInit => DaemonInv
  BY DaemonAssumption DEF DaemonInit, DaemonInv, DaemonTypeOK, NowInv, WindowInv, CooldownInv, EachOccurrenceOnce,
     CooldownOutlivesSaves
<1>2. DaemonInv => FiringsAreFaithful
  BY DEF DaemonInv, WindowInv, CooldownInv, FiringsAreFaithful
<1> QED
  BY <1>1, <1>2, DaemonInductive, PTL DEF DaemonSpec

-----------------------------------------------------------------------------
(* The run executor: one run at a time, until a run is dismissed while a call is at work on it. *)

RunKinds == {"shadow", "supervised"}
Working == {"running_read", "preparing_diff"}
Phases == Working \cup {"idle", "needs_input", "applying_write", "waiting_approval", "completed",
                       "completed_with_warnings", "cancelled", "failed"}
Places == {"emit", "look", "steps", "gate", "refused gate", "report", "throw", "nothing", "wrote", "reverting"}
Kinds == RunKinds \cup {"approve", "reject", "revert"}
CallRec == [kind : Kinds, agent : Helpers \cup {None},
            run : Nat, at : Places]
Decision == [diff : Nat, plan : Nat]
Write == [diff : Nat, as : Nat, plan : Nat]
RunOf == [agent : Helpers \cup {None}, run : Nat]

RunsTypeOK ==
  /\ phase \in Phases /\ runLane \in {"api", "browser"} /\ pending \in Nat /\ revertible \in Nat
  /\ refusal \in BOOLEAN /\ policyHold \in BOOLEAN /\ receiptSummary \in BOOLEAN /\ crossed \in BOOLEAN
  /\ active \in RunOf /\ plan \in Nat
  /\ resume \in [agent : Helpers \cup {None}, kind : Kinds] \cup {None}
  /\ calls \in Seq(CallRec) /\ runsStarted \in Nat
  /\ approvedOn \subseteq Decision /\ written \subseteq Write

\* What each call under way can rely on.  One that runs an agent is alone, ...
Alone(c) == Len(calls) = 1 /\ phase \in Working /\ revertible = 0 /\ answers \subseteq {c.agent}
CallIsSafe(c) ==
  /\ c.run # 0
  /\ c.at \in {"look", "steps", "gate", "refused gate", "report"} => c.kind \in RunKinds
  /\ c.at = "reverting" => c.kind = "revert"
  /\ c.at = "wrote" => c.kind = "approve"
  /\ c.kind \in RunKinds => Alone(c) /\ (c.at = "steps" => inputs \subseteq {c.agent})
  /\ c.kind = "revert" => receiptSummary
  \* ... and an approval still finds the plan that was on the screen, or none.
  /\ c.kind = "approve" /\ c.at = "emit" => \E d \in approvedOn : d.diff = c.run /\ plan \in {0, d.plan}
CallsInv == \A n \in DOMAIN calls : CallIsSafe(calls[n])

\* What the panel shows fits what is under way.
PhaseInv ==
  /\ phase \in {"idle", "needs_input"} => calls = <<>> /\ revertible = 0
  /\ phase \in Working => \E n \in DOMAIN calls : calls[n].kind \in RunKinds
  /\ phase = "applying_write" => calls # <<>>
  /\ phase = "waiting_approval" => pending # 0
  /\ phase \in {"completed", "completed_with_warnings"} \/ revertible # 0 => receiptSummary
  /\ phase = "idle" => answers = {}
  /\ phase = "needs_input" /\ resume # None => resume.kind \in RunKinds /\ answers \subseteq {resume.agent}

PanelInv == PhaseInv /\ CallsInv /\ WritesWereApproved
RunsInv == RunsTypeOK /\ (~crossed => PanelInv)

-----------------------------------------------------------------------------
\* A call that goes on keeps its place, and is where it went.
LEMMA CallMoves ==
  ASSUME calls \in Seq(CallRec), NEW n \in DOMAIN calls, NEW place \in Places, Goto(n, place)
  PROVE  /\ calls' \in Seq(CallRec) /\ DOMAIN calls' = DOMAIN calls /\ Len(calls') = Len(calls)
         /\ calls'[n] = [calls[n] EXCEPT !.at = place]
         /\ \A m \in DOMAIN calls : m # n => calls'[m] = calls[m]
<1>1. \A m \in DOMAIN calls : calls[m] \in CallRec
  BY Elements
<1>2. calls' = [calls EXCEPT ![n].at = place]
  BY DEF Goto
<1>3. [calls[n] EXCEPT !.at = place] \in CallRec
  BY <1>1 DEF CallRec
<1>4. calls' \in [DOMAIN calls -> CallRec]
  BY <1>1, <1>2, <1>3
<1> QED
  BY <1>2, <1>4, SameLength

\* A call that returns leaves the others.
LEMMA CallReturns ==
  ASSUME calls \in Seq(CallRec), NEW n \in DOMAIN calls, Return(n)
  PROVE  /\ calls' \in Seq(CallRec) /\ Len(calls') = Len(calls) - 1
         /\ \A m \in DOMAIN calls' : \E k \in DOMAIN calls : calls'[m] = calls[k]
BY Removed DEF Return

\* A call that begins comes last.
LEMMA CallBegins ==
  ASSUME calls \in Seq(CallRec), NEW c \in CallRec, calls' = Append(calls, c)
  PROVE  /\ calls' \in Seq(CallRec) /\ Len(calls') = Len(calls) + 1 /\ calls' # <<>>
         /\ \A m \in DOMAIN calls' : calls'[m] = c \/ (m \in DOMAIN calls /\ calls'[m] = calls[m])
         /\ \E m \in DOMAIN calls' : calls'[m] = c
<1>1. Len(calls) \in Nat /\ DOMAIN calls = 1..Len(calls)
  BY LenProperties
<1>2. Len(calls') = Len(calls) + 1
  BY AppendProperties
<1>3. calls' # <<>>
  BY <1>1, <1>2, EmptySeq
<1>4. /\ calls' \in Seq(CallRec) /\ DOMAIN calls' = DOMAIN calls \cup {Len(calls) + 1}
      /\ \A m \in DOMAIN calls : calls'[m] = calls[m]
      /\ calls'[Len(calls) + 1] = c
  BY Appended
<1> QED
  BY <1>2, <1>3, <1>4

\* The types hold throughout.
LEMMA RunsTyped ==
  ASSUME RunsTypeOK, [RunsNext]_runVars
  PROVE  RunsTypeOK'
<1> USE DEF RunsTypeOK, Phases, Working
<1>0. \A n \in DOMAIN calls : calls[n] \in CallRec
  BY Elements
<1>a. runsStarted \in Nat /\ runsStarted + 1 \in Nat /\ plan \in Nat /\ pending \in Nat /\ revertible \in Nat
  OBVIOUS
<1>1. ASSUME NEW kind \in Kinds, NEW a \in Helpers \cup {None}, NEW given, Begin(kind, a, given)
      PROVE  RunsTypeOK'
  <2>1. Call(kind, a, runsStarted + 1, "emit") \in CallRec
    BY <1>a DEF Call, CallRec, Places, Kinds, RunKinds
  <2>2. calls' \in Seq(CallRec)
    BY <1>1, <2>1, CallBegins DEF Begin
  <2>3. pending' \in Nat
    BY <1>1, <1>a DEF Begin
  <2>4. policyHold' \in BOOLEAN
    BY <1>1 DEF Begin
  <2>5. runsStarted' \in Nat /\ phase' \in Phases
    BY <1>1, <1>a DEF Begin
  <2>6. /\ UNCHANGED <<runLane, refusal, revertible, receiptSummary, active, plan>>
        /\ UNCHANGED <<resume, approvedOn, written, crossed>>
    BY <1>1 DEF Begin
  <2> QED
    BY <2>2, <2>3, <2>4, <2>5, <2>6
<1>2. ASSUME NEW a \in Helpers, ClickStart("shadow", a) \/ ClickStart("supervised", a) PROVE RunsTypeOK'
  BY <1>1, <1>2 DEF ClickStart, Kinds, RunKinds
<1>3. ASSUME Answer PROVE RunsTypeOK'
  <2>1. resume.kind \in Kinds /\ resume.agent \in Helpers \cup {None}
    BY <1>3 DEF Answer
  <2> QED
    BY <1>1, <1>3, <2>1 DEF Answer
<1>4. ASSUME NEW c \in CallRec, calls' = Append(calls, c) PROVE calls' \in Seq(CallRec)
  BY <1>4, CallBegins
<1>5. ASSUME NEW a \in Helpers, ClickApprove(a) PROVE RunsTypeOK'
  <2>1. Call("approve", a, pending, "emit") \in CallRec
    BY DEF Call, CallRec, Places, Kinds, RunKinds
  <2>2. calls' \in Seq(CallRec)
    BY <1>5, <2>1, <1>4 DEF ClickApprove
  <2>3. [diff |-> pending, plan |-> plan] \in Decision
    BY DEF Decision
  <2> QED
    BY <1>5, <2>2, <2>3 DEF ClickApprove, Decided, storeOfRuns, moduleVars
<1>6. ASSUME ClickReject PROVE RunsTypeOK'
  <2>1. Call("reject", None, pending, "emit") \in CallRec
    BY DEF Call, CallRec, Places, Kinds, RunKinds
  <2>2. calls' \in Seq(CallRec)
    BY <1>6, <2>1, <1>4 DEF ClickReject
  <2> QED
    BY <1>6, <2>2 DEF ClickReject, Decided, storeOfRuns, moduleVars
<1>7. ASSUME ClickRevert PROVE RunsTypeOK'
  <2>1. Call("revert", None, revertible, "reverting") \in CallRec
    BY DEF Call, CallRec, Places, Kinds, RunKinds
  <2>2. calls' \in Seq(CallRec)
    BY <1>7, <2>1, <1>4 DEF ClickRevert
  <2> QED
    BY <1>7, <2>2 DEF ClickRevert, moduleVars
<1>8. ASSUME NEW l \in {"api", "browser"}, SetLane(l) PROVE RunsTypeOK'
  BY <1>8 DEF SetLane, moduleVars
<1>9. ASSUME HoldByPolicy \/ ClickDone PROVE RunsTypeOK'
  <2>1. CASE HoldByPolicy
    BY <2>1 DEF HoldByPolicy, moduleVars
  <2>2. CASE ClickDone
    <3>1. crossed' \in BOOLEAN
      BY <2>2 DEF ClickDone
    <3>2. /\ plan' = 0 /\ resume' = None /\ phase' = "idle" /\ pending' = 0 /\ refusal' = FALSE
          /\ revertible' = 0 /\ policyHold' = FALSE /\ receiptSummary' = FALSE
          /\ UNCHANGED <<runLane, active, calls, runsStarted, approvedOn, written>>
      BY <2>2 DEF ClickDone, Reset
    <3> QED
      BY <3>1, <3>2
  <2> QED
    BY <1>9, <2>1, <2>2
<1>10. ASSUME NEW n \in DOMAIN calls,
              \/ Compile(n) \/ Discover(n) \/ ShadowSteps(n) \/ SupervisedSteps(n)
              \/ Gate(n) \/ Report(n) \/ Catch(n)
              \/ RejectResumes(n) \/ ApproveResumes(n) \/ ApproveReports(n) \/ RevertReturns(n)
       PROVE  RunsTypeOK'
  <2>1. calls[n].run \in Nat /\ calls[n].agent \in Helpers \cup {None} /\ calls[n].kind \in Kinds
    BY <1>0 DEF CallRec
  <2>2. ASSUME NEW place \in Places, Goto(n, place) PROVE calls' \in Seq(CallRec)
    BY <2>2, CallMoves
  <2>3. ASSUME Return(n) PROVE calls' \in Seq(CallRec)
    BY <2>3, CallReturns
  <2>4. CASE Compile(n)
    <3>1. calls' \in Seq(CallRec)
      BY <2>2, <2>4 DEF Compile, Places
    <3>2. active' \in RunOf
      BY <2>1, <2>4 DEF Compile, RunOf
    <3> QED
      BY <2>4, <3>1, <3>2 DEF Compile, storeOfRuns
  <2>5. CASE Discover(n)
    <3>1. calls' \in Seq(CallRec)
      BY <2>2, <2>3, <2>5 DEF Discover, Places
    <3>2. calls[n].at = "look"
      BY <2>5 DEF Discover, Places
    <3> QED
      BY <2>1, <2>5, <3>1, <3>2 DEF Discover, Places
  <2>6. CASE ShadowSteps(n)
    BY <2>2, <2>6 DEF ShadowSteps, Places, moduleVars
  <2>7. CASE SupervisedSteps(n)
    <3>1. calls' \in Seq(CallRec)
      BY <2>2, <2>7 DEF SupervisedSteps, Places
    <3>2. plan' = plan \/ plan' = calls[n].run \/ plan' = 0
      BY <2>7 DEF SupervisedSteps
    <3>3. plan' \in Nat
      BY <1>a, <2>1, <3>2
    <3> QED
      BY <2>7, <3>1, <3>3 DEF SupervisedSteps, Places
  <2>8. CASE Gate(n)
    BY <2>1, <2>3, <2>8 DEF Gate, moduleVars
  <2>9. CASE Report(n)
    BY <2>3, <2>9 DEF Report, moduleVars
  <2>10. CASE Catch(n)
    BY <2>3, <2>10 DEF Catch, moduleVars
  <2>11. CASE RejectResumes(n)
    BY <2>3, <2>11 DEF RejectResumes, moduleVars
  <2>12. CASE ApproveResumes(n)
    <3>1. calls' \in Seq(CallRec)
      BY <2>2, <2>3, <2>12 DEF ApproveResumes, Places
    <3>2. [diff |-> calls[n].run, as |-> active.run, plan |-> IF runLane = "browser" THEN plan ELSE 0] \in Write
      BY <2>1 DEF Write, RunOf
    <3>3. written' \subseteq Write
      BY <2>12, <3>2 DEF ApproveResumes, Places
    <3>4. phase' \in Phases
      BY <2>12 DEF ApproveResumes, Places
    <3> QED
      BY <2>12, <3>1, <3>3, <3>4 DEF ApproveResumes, Places, moduleVars
  <2>13. CASE ApproveReports(n)
    BY <2>1, <2>3, <2>13 DEF ApproveReports, moduleVars
  <2>14. CASE RevertReturns(n)
    BY <2>1, <2>3, <2>14 DEF RevertReturns, moduleVars
  <2> QED
    BY <1>10, <2>4, <2>5, <2>6, <2>7, <2>8, <2>9, <2>10, <2>11, <2>12, <2>13, <2>14
<1>11. ASSUME UNCHANGED runVars PROVE RunsTypeOK'
  BY <1>11 DEF runVars, storeOfRuns, moduleVars
<1> QED
  BY <1>2, <1>3, <1>5, <1>6, <1>7, <1>8, <1>9, <1>10, <1>11 DEF RunsNext

-----------------------------------------------------------------------------
\* A call that runs an agent is the only one, ...
LEMMA RunIsAlone ==
  ASSUME RunsTypeOK, PanelInv, NEW n \in DOMAIN calls, calls[n].kind \in RunKinds
  PROVE  /\ DOMAIN calls = {n} /\ Len(calls) = 1 /\ phase \in Working /\ revertible = 0
         /\ answers \subseteq {calls[n].agent}
<1>1. Len(calls) = 1 /\ phase \in Working /\ revertible = 0 /\ answers \subseteq {calls[n].agent}
  BY DEF PanelInv, CallsInv, CallIsSafe, Alone
<1>2. DOMAIN calls = 1..1
  BY <1>1, LenProperties DEF RunsTypeOK
<1> QED
  BY <1>1, <1>2

\* ... and beside any other call nothing runs.
LEMMA NothingRuns ==
  ASSUME RunsTypeOK, PanelInv, NEW n \in DOMAIN calls, calls[n].kind \notin RunKinds
  PROVE  /\ phase \notin Working \cup {"idle", "needs_input"}
         /\ \A m \in DOMAIN calls : calls[m].kind \notin RunKinds
<1>1. \A m \in DOMAIN calls : calls[m].kind \notin RunKinds
  BY RunIsAlone
<1>2. phase \notin Working
  BY <1>1 DEF PanelInv, PhaseInv
<1>3. calls # <<>>
  BY EmptySeq DEF RunsTypeOK
<1> QED
  BY <1>1, <1>2, <1>3 DEF PanelInv, PhaseInv

\* Each step of a panel whose runs were never dismissed too early keeps it so.
LEMMA PanelKeeps ==
  ASSUME RunsTypeOK, RunsTypeOK', PanelInv, ~crossed', RunsNext
  PROVE  PanelInv'
<1> USE DEF RunKinds, Working
<1>0. \A n \in DOMAIN calls : calls[n] \in CallRec
  BY Elements DEF RunsTypeOK
\* A run that goes on.
<1>1. ASSUME NEW n \in DOMAIN calls, calls[n].kind \in RunKinds, NEW place \in Places \ {"reverting", "wrote"}, Goto(n, place),
             phase' \in Working, UNCHANGED <<answers, revertible, written, approvedOn>>,
             receiptSummary => receiptSummary', place = "steps" => inputs' = answers
      PROVE  PanelInv'
  <2>1. /\ DOMAIN calls = {n} /\ Len(calls) = 1 /\ revertible = 0 /\ answers \subseteq {calls[n].agent}
    BY <1>1, RunIsAlone
  <2>2. /\ DOMAIN calls' = {n} /\ Len(calls') = 1 /\ calls'[n] = [calls[n] EXCEPT !.at = place]
    BY <1>1, <2>1, CallMoves DEF RunsTypeOK
  <2>3. /\ calls'[n].at = place /\ calls'[n].kind = calls[n].kind /\ calls'[n].run = calls[n].run
        /\ calls'[n].agent = calls[n].agent
    BY <1>0, <2>2 DEF CallRec
  <2>4. CallIsSafe(calls[n])
    BY DEF PanelInv, CallsInv
  <2>5. CallIsSafe(calls[n])'
    BY <1>1, <2>1, <2>2, <2>3, <2>4 DEF CallIsSafe, Alone
  <2>6. CallsInv'
    BY <2>2, <2>5 DEF CallsInv
  <2>7. PhaseInv'
    BY <1>1, <2>1, <2>2, <2>3 DEF PanelInv, PhaseInv
  <2> QED
    BY <1>1, <2>6, <2>7 DEF PanelInv, WritesWereApproved
\* A run that ends.
<1>2. ASSUME NEW n \in DOMAIN calls, calls[n].kind \in RunKinds, Return(n),
             UNCHANGED <<answers, written, approvedOn>>, revertible' \in {0, revertible},
             phase' \in {"needs_input", "waiting_approval", "completed", "failed"},
             phase' = "needs_input" =>
               resume' = [agent |-> calls[n].agent, kind |-> calls[n].kind],
             phase' = "waiting_approval" => pending' = calls[n].run,
             phase' = "completed" => receiptSummary'
      PROVE  PanelInv'
  <2>1. /\ DOMAIN calls = {n} /\ Len(calls) = 1 /\ revertible = 0 /\ answers \subseteq {calls[n].agent}
    BY <1>2, RunIsAlone
  <2>2. calls' \in Seq(CallRec) /\ Len(calls') = 0
    BY <1>2, <2>1, CallReturns DEF RunsTypeOK
  <2>3. calls' = <<>> /\ DOMAIN calls' = {}
    BY <2>2, EmptySeq, LenProperties
  <2>4. calls[n].run # 0
    BY DEF PanelInv, CallsInv, CallIsSafe
  <2>5. PhaseInv'
    BY <1>2, <2>1, <2>3, <2>4 DEF PanelInv, PhaseInv
  <2> QED
    BY <1>2, <2>3, <2>5 DEF PanelInv, CallsInv, WritesWereApproved
\* What the other calls rely on stays as long as the plan does.
<1>3. ASSUME NEW m \in DOMAIN calls', NEW k \in DOMAIN calls, calls'[m] = calls[k], calls[k].kind \notin RunKinds,
             UNCHANGED plan, approvedOn \subseteq approvedOn', receiptSummary => receiptSummary'
      PROVE  CallIsSafe(calls[m])'
  <2>1. CallIsSafe(calls[k])
    BY DEF PanelInv, CallsInv
  <2> QED
    BY <1>3, <2>1 DEF CallIsSafe
\* A decision or a revert that ends.
<1>4. ASSUME NEW n \in DOMAIN calls, calls[n].kind \notin RunKinds, Return(n),
             UNCHANGED <<plan, approvedOn, written>>, receiptSummary => receiptSummary',
             phase' \in {"completed", "completed_with_warnings", "cancelled", "failed"},
             phase' \in {"completed", "completed_with_warnings"} \/ revertible' # 0 => receiptSummary'
      PROVE  PanelInv'
  <2>1. \A m \in DOMAIN calls : calls[m].kind \notin RunKinds
    BY <1>4, NothingRuns
  <2>2. \A m \in DOMAIN calls' : \E k \in DOMAIN calls : calls'[m] = calls[k]
    BY <1>4, CallReturns DEF RunsTypeOK
  <2>3. CallsInv'
    BY <1>3, <1>4, <2>1, <2>2 DEF CallsInv
  <2>4. PhaseInv'
    BY <1>4 DEF PhaseInv
  <2> QED
    BY <1>4, <2>3, <2>4 DEF PanelInv, WritesWereApproved
\* An approval that goes on.
<1>5. ASSUME NEW n \in DOMAIN calls, calls[n].kind = "approve", NEW place \in {"wrote", "throw", "nothing"}, Goto(n, place),
             phase' = "applying_write", UNCHANGED <<plan, approvedOn, receiptSummary, revertible>>, WritesWereApproved'
      PROVE  PanelInv'
  <2>1. \A m \in DOMAIN calls : calls[m].kind \notin RunKinds
    BY <1>5, NothingRuns
  <2>2. /\ calls' \in Seq(CallRec) /\ DOMAIN calls' = DOMAIN calls
        /\ calls'[n] = [calls[n] EXCEPT !.at = place]
        /\ \A m \in DOMAIN calls : m # n => calls'[m] = calls[m]
    BY <1>5, CallMoves DEF RunsTypeOK, Places
  <2>3. calls'[n].at = place /\ calls'[n].kind = calls[n].kind /\ calls'[n].run = calls[n].run
    BY <1>0, <2>2 DEF CallRec
  <2>4. CallIsSafe(calls[n])
    BY DEF PanelInv, CallsInv
  <2>5. CallIsSafe(calls[n])'
    BY <1>5, <2>3, <2>4 DEF CallIsSafe
  <2>6. CallsInv'
    BY <1>3, <1>5, <2>1, <2>2, <2>5 DEF CallsInv
  <2>7. calls' # <<>>
    BY <2>2, EmptySeq
  <2>8. PhaseInv'
    BY <1>5, <2>7 DEF PanelInv, PhaseInv
  <2> QED
    BY <1>5, <2>6, <2>8 DEF PanelInv
\* A click on a panel on which nothing runs.
<1>6. ASSUME NEW c \in CallRec, calls' = Append(calls, c), c.kind \notin RunKinds, CallIsSafe(c)',
             phase \notin Working, phase' \in {phase, "applying_write"}, phase' \notin {"idle", "needs_input"},
             UNCHANGED <<plan, written, receiptSummary, revertible, pending>>, approvedOn \subseteq approvedOn'
      PROVE  PanelInv'
  <2>1. \A m \in DOMAIN calls : calls[m].kind \notin RunKinds
    BY <1>6, RunIsAlone
  <2>2. /\ calls' # <<>>
        /\ \A m \in DOMAIN calls' : calls'[m] = c \/ (m \in DOMAIN calls /\ calls'[m] = calls[m])
    BY <1>6, CallBegins DEF RunsTypeOK
  <2>3. ASSUME NEW m \in DOMAIN calls' PROVE CallIsSafe(calls[m])'
    <3>1. CASE calls'[m] = c
      BY <1>6, <3>1 DEF CallIsSafe
    <3>2. CASE m \in DOMAIN calls /\ calls'[m] = calls[m]
      BY <1>3, <1>6, <2>1, <3>2
    <3> QED
      BY <2>2, <3>1, <3>2
  <2>4. CallsInv'
    BY <2>3 DEF CallsInv
  <2>5. PhaseInv'
    BY <1>6, <2>2 DEF PanelInv, PhaseInv
  <2>6. WritesWereApproved'
    BY <1>6 DEF PanelInv, WritesWereApproved
  <2> QED
    BY <2>4, <2>5, <2>6 DEF PanelInv
\* A run that begins on a quiet panel.
<1>7. ASSUME NEW kind \in RunKinds, NEW a \in Helpers \cup {None}, NEW given, Begin(kind, a, given),
             phase \in {"idle", "needs_input"}, answers' \subseteq {a}
      PROVE  PanelInv'
  <2>1. calls = <<>> /\ revertible = 0
    BY <1>7 DEF PanelInv, PhaseInv
  <2> DEFINE c == Call(kind, a, runsStarted + 1, "emit")
  <2>2. runsStarted \in Nat /\ runsStarted + 1 # 0
    BY DEF RunsTypeOK
  <2>3. c \in CallRec /\ c.kind = kind /\ c.agent = a /\ c.run = runsStarted + 1 /\ c.at = "emit"
    BY <2>2 DEF Call, CallRec, Places, Kinds
  <2>4. calls' = Append(calls, c) /\ phase' = "running_read" /\ UNCHANGED <<revertible, receiptSummary, approvedOn, written>>
    BY <1>7 DEF Begin
  <2> HIDE DEF c
  <2>5. /\ Len(calls') = Len(calls) + 1
        /\ \A m \in DOMAIN calls' : calls'[m] = c \/ (m \in DOMAIN calls /\ calls'[m] = calls[m])
        /\ \E m \in DOMAIN calls' : calls'[m] = c
    BY <2>3, <2>4, CallBegins DEF RunsTypeOK
  <2>6. Len(calls) = 0 /\ DOMAIN calls = {}
    BY <2>1
  <2>7. CallsInv'
    <3>1. ASSUME NEW m \in DOMAIN calls' PROVE CallIsSafe(calls[m])'
      <4>1. calls'[m] = c /\ Len(calls') = 1
        BY <2>5, <2>6
      <4>2. /\ calls'[m].kind \in RunKinds /\ calls'[m].agent = a /\ calls'[m].run # 0
            /\ calls'[m].at = "emit"
        BY <2>2, <2>3, <4>1
      <4>3. phase' \in Working /\ revertible' = 0 /\ answers' \subseteq {a}
        BY <1>7, <2>1, <2>4
      <4> QED
        BY <4>1, <4>2, <4>3 DEF CallIsSafe, Alone
    <3> QED
      BY <3>1 DEF CallsInv
  <2>8. PhaseInv'
    BY <2>1, <2>3, <2>4, <2>5 DEF PanelInv, PhaseInv
  <2>9. WritesWereApproved'
    BY <2>4 DEF PanelInv, WritesWereApproved
  <2> QED
    BY <2>7, <2>8, <2>9 DEF PanelInv
<1>8. ASSUME NEW a \in Helpers, ClickStart("shadow", a) \/ ClickStart("supervised", a) PROVE PanelInv'
  <2>1. phase = "idle" /\ UNCHANGED answers /\ answers = {}
    BY <1>8 DEF ClickStart, Begin, PanelInv, PhaseInv
  <2> QED
    BY <1>7, <1>8, <2>1 DEF ClickStart
<1>9. ASSUME Answer PROVE PanelInv'
  <2>1. resume.kind \in RunKinds /\ resume.agent \in Helpers \cup {None} /\ answers \subseteq {resume.agent}
    BY <1>9 DEF Answer, PanelInv, PhaseInv, RunsTypeOK
  <2>2. answers' = answers \cup {resume.agent}
    BY <1>9 DEF Answer, Begin
  <2> QED
    BY <1>7, <1>9, <2>1, <2>2 DEF Answer
<1>10. ASSUME NEW a \in Helpers, ClickApprove(a) PROVE PanelInv'
  <2>0. Call("approve", a, pending, "emit") \in CallRec /\ [diff |-> pending, plan |-> plan] \in Decision
    BY DEF Call, CallRec, Places, Kinds, RunsTypeOK, Decision
  <2>a. PICK c \in CallRec, d \in Decision :
          c = Call("approve", a, pending, "emit") /\ d = [diff |-> pending, plan |-> plan]
    BY <2>0
  <2>1. c \in CallRec /\ c.kind = "approve" /\ c.at = "emit" /\ c.run = pending
    BY <2>a DEF Call
  <2>2. phase = "waiting_approval" /\ pending # 0 /\ calls' = Append(calls, c) /\ approvedOn' = approvedOn \cup {d}
    BY <1>10, <2>a DEF ClickApprove, Waiting
  <2>3. UNCHANGED <<phase, plan, written, receiptSummary, revertible, pending>>
    BY <1>10 DEF ClickApprove, Decided, storeOfRuns, moduleVars
  <2>4. d.diff = pending /\ d.plan = plan /\ d \in approvedOn'
    BY <2>2, <2>a
  <2>5. CallIsSafe(c)'
    BY <2>1, <2>2, <2>3, <2>4 DEF CallIsSafe
  <2> QED
    BY <1>6, <2>1, <2>2, <2>3, <2>5
<1>11. ASSUME ClickReject PROVE PanelInv'
  <2>0. Call("reject", None, pending, "emit") \in CallRec
    BY DEF Call, CallRec, Places, Kinds, RunsTypeOK
  <2>a. PICK c \in CallRec : c = Call("reject", None, pending, "emit")
    BY <2>0
  <2>1. c \in CallRec /\ c.kind = "reject" /\ c.at = "emit" /\ c.run = pending
    BY <2>a DEF Call
  <2>2. phase = "waiting_approval" /\ pending # 0 /\ calls' = Append(calls, c)
    BY <1>11, <2>a DEF ClickReject, Waiting
  <2>3. UNCHANGED <<phase, plan, written, receiptSummary, revertible, pending, approvedOn>>
    BY <1>11 DEF ClickReject, Decided, storeOfRuns, moduleVars
  <2>4. CallIsSafe(c)'
    BY <2>1, <2>2, <2>3 DEF CallIsSafe
  <2> QED
    BY <1>6, <2>1, <2>2, <2>3, <2>4
<1>12. ASSUME ClickRevert PROVE PanelInv'
  <2>0. Call("revert", None, revertible, "reverting") \in CallRec
    BY DEF Call, CallRec, Places, Kinds, RunsTypeOK
  <2>a. PICK c \in CallRec : c = Call("revert", None, revertible, "reverting")
    BY <2>0
  <2>1. c \in CallRec /\ c.kind = "revert" /\ c.at = "reverting" /\ c.run = revertible
    BY <2>a DEF Call
  <2>2. revertible # 0 /\ phase' = "applying_write" /\ calls' = Append(calls, c)
    BY <1>12, <2>a DEF ClickRevert
  <2>3. UNCHANGED <<plan, written, receiptSummary, revertible, pending, approvedOn>>
    BY <1>12 DEF ClickRevert, moduleVars
  <2>4. receiptSummary /\ phase \notin Working
    BY <2>2, RunIsAlone DEF PanelInv, PhaseInv
  <2>5. CallIsSafe(c)'
    BY <2>1, <2>2, <2>3, <2>4 DEF CallIsSafe
  <2> QED
    BY <1>6, <2>1, <2>2, <2>3, <2>4, <2>5
<1>13. ASSUME NEW l \in {"api", "browser"}, SetLane(l) PROVE PanelInv'
  <2>1. UNCHANGED <<phase, pending, revertible, receiptSummary, calls, answers, inputs, plan, resume, approvedOn, written>>
    BY <1>13 DEF SetLane, moduleVars
  <2>2. CallsInv'
    BY <2>1 DEF PanelInv, CallsInv, CallIsSafe, Alone
  <2>3. PhaseInv'
    BY <2>1 DEF PanelInv, PhaseInv
  <2>4. WritesWereApproved'
    BY <2>1 DEF PanelInv, WritesWereApproved
  <2> QED
    BY <2>2, <2>3, <2>4 DEF PanelInv
<1>14. ASSUME HoldByPolicy PROVE PanelInv'
  <2>1. calls = <<>> /\ revertible = 0 /\ phase' = "cancelled"
    BY <1>14 DEF HoldByPolicy, PanelInv, PhaseInv
  <2>2. UNCHANGED <<revertible, calls, approvedOn, written>>
    BY <1>14 DEF HoldByPolicy
  <2> QED
    BY <2>1, <2>2 DEF PanelInv, PhaseInv, CallsInv, WritesWereApproved
\* A run that is dismissed takes nothing with it.
<1>15. ASSUME ClickDone PROVE PanelInv'
  <2>1. calls = <<>> /\ UNCHANGED <<calls, approvedOn, written>>
    BY <1>15 DEF ClickDone
  <2>2. phase' = "idle" /\ answers' = {} /\ revertible' = 0
    BY <1>15 DEF ClickDone, Reset
  <2> QED
    BY <2>1, <2>2 DEF PanelInv, PhaseInv, CallsInv, WritesWereApproved
<1>16. ASSUME NEW n \in DOMAIN calls, CallIsSafe(calls[n]),
              \/ Compile(n) \/ Discover(n) \/ ShadowSteps(n) \/ SupervisedSteps(n)
              \/ Gate(n) \/ Report(n) \/ Catch(n)
              \/ RejectResumes(n) \/ ApproveResumes(n) \/ ApproveReports(n) \/ RevertReturns(n)
       PROVE  PanelInv'
  <2>1. calls[n].at \in {"look", "steps", "gate", "refused gate", "report"} => calls[n].kind \in RunKinds
    BY <1>16 DEF CallIsSafe
  <2>2. calls[n].kind \in RunKinds => phase \in Working
    BY RunIsAlone
  <2>3. CASE Compile(n)
    BY <1>1, <2>2, <2>3 DEF Compile, storeOfRuns, Places
  <2>4. CASE Discover(n)
    BY <1>1, <1>2, <2>1, <2>2, <2>4 DEF Discover, Places
  <2>5. CASE ShadowSteps(n)
    BY <1>1, <2>5 DEF ShadowSteps, moduleVars, Places
  <2>6. CASE SupervisedSteps(n)
    BY <1>1, <2>6 DEF SupervisedSteps, Places
  <2>7. CASE Gate(n)
    BY <1>2, <2>1, <2>7 DEF Gate, moduleVars
  <2>8. CASE Report(n)
    BY <1>2, <2>1, <2>8 DEF Report, moduleVars
  <2>9. CASE Catch(n)
    <3>1. /\ Return(n) /\ phase' = "failed" /\ revertible' \in {0, revertible}
          /\ UNCHANGED <<plan, answers, approvedOn, written, receiptSummary>>
      BY <2>9 DEF Catch, moduleVars
    <3>2. revertible # 0 => receiptSummary
      BY DEF PanelInv, PhaseInv
    <3> QED
      BY <1>2, <1>4, <3>1, <3>2
  <2>10. CASE RejectResumes(n)
    <3>1. /\ Return(n) /\ phase' = "cancelled" /\ calls[n].kind = "reject"
          /\ UNCHANGED <<plan, approvedOn, written, receiptSummary, revertible>>
      BY <2>10 DEF RejectResumes, moduleVars
    <3>2. revertible # 0 => receiptSummary
      BY DEF PanelInv, PhaseInv
    <3> QED
      BY <1>4, <3>1, <3>2
  <2>11. CASE ApproveResumes(n)
    <3>1. PICK d \in approvedOn : d.diff = calls[n].run /\ plan \in {0, d.plan}
      BY <1>16, <2>11 DEF ApproveResumes, Emitted, CallIsSafe
    <3>2. calls[n].kind = "approve" /\ UNCHANGED <<plan, approvedOn, receiptSummary, revertible>>
      BY <2>11 DEF ApproveResumes, moduleVars
    <3>3. revertible # 0 => receiptSummary
      BY DEF PanelInv, PhaseInv
    <3>4. CASE phase' = "failed" /\ Return(n) /\ UNCHANGED written
      BY <1>4, <3>2, <3>3, <3>4
    <3>5. CASE phase' # "failed"
      <4>1. phase' = "applying_write" /\ \E place \in {"wrote", "throw", "nothing"} : Goto(n, place)
        BY <2>11, <3>5 DEF ApproveResumes
      <4>2. written' \subseteq
              written \cup {[diff |-> calls[n].run, as |-> active.run, plan |-> IF runLane = "browser" THEN plan ELSE 0]}
        BY <2>11 DEF ApproveResumes
      <4>3. WritesWereApproved'
        BY <3>1, <3>2, <4>2 DEF PanelInv, WritesWereApproved
      <4> QED
        BY <1>5, <3>2, <4>1, <4>3
    <3> QED
      BY <2>11, <3>4, <3>5 DEF ApproveResumes
  <2>12. CASE ApproveReports(n)
    <3>1. /\ Return(n) /\ phase' \in {"completed", "completed_with_warnings"} /\ receiptSummary' = TRUE
          /\ UNCHANGED <<plan, answers, approvedOn, written>>
      BY <2>12 DEF ApproveReports, moduleVars
    <3>2. calls[n].kind \notin RunKinds
      BY <1>16, <2>12 DEF ApproveReports, CallIsSafe
    <3> QED
      BY <1>4, <3>1, <3>2
  <2>13. CASE RevertReturns(n)
    <3>1. calls[n].kind = "revert" /\ receiptSummary
      BY <1>16, <2>13 DEF RevertReturns, CallIsSafe
    <3>2. /\ Return(n) /\ phase' \in {"completed", "completed_with_warnings"}
          /\ UNCHANGED <<plan, approvedOn, written, receiptSummary>>
      BY <2>13 DEF RevertReturns, moduleVars
    <3> QED
      BY <1>4, <3>1, <3>2
  <2> QED
    BY <1>16, <2>3, <2>4, <2>5, <2>6, <2>7, <2>8, <2>9, <2>10, <2>11, <2>12, <2>13
<1>17. \A n \in DOMAIN calls : CallIsSafe(calls[n])
  BY DEF PanelInv, CallsInv
<1> QED
  BY <1>8, <1>9, <1>10, <1>11, <1>12, <1>13, <1>14, <1>15, <1>16, <1>17 DEF RunsNext

\* Starts, clicks, returns of calls and dismissals keep it.
LEMMA RunsInductive ==
  /\ RunsInit => RunsInv
  /\ RunsInv /\ [RunsNext]_runVars => RunsInv'
<1>1. ASSUME RunsInit PROVE RunsInv
  <2>1. DOMAIN calls = {} /\ calls \in Seq(CallRec)
    BY <1>1 DEF RunsInit
  <2>2. RunsTypeOK
    BY <1>1, <2>1 DEF RunsInit, RunsTypeOK, Phases, RunOf, NoRun
  <2>3. PanelInv
    BY <1>1, <2>1 DEF RunsInit, PanelInv, PhaseInv, CallsInv, WritesWereApproved, Working
  <2> QED
    BY <2>2, <2>3 DEF RunsInv
<1>2. ASSUME RunsInv, [RunsNext]_runVars PROVE RunsInv'
  <2>1. RunsTypeOK'
    BY <1>2, RunsTyped DEF RunsInv
  <2>2. ASSUME RunsNext, ~crossed' PROVE ~crossed
    <3>1. CASE ClickDone
      BY <2>2, <3>1 DEF ClickDone
    <3>2. CASE ~ClickDone
      BY <2>2, <3>2 DEF RunsNext, ClickStart, Begin, SetLane, HoldByPolicy, Answer, ClickApprove, ClickReject,
        ClickRevert, Compile, Discover, ShadowSteps, SupervisedSteps, Gate, Report, Catch, RejectResumes,
        ApproveResumes, ApproveReports, RevertReturns, Decided
    <3> QED
      BY <3>1, <3>2
  <2>3. ASSUME RunsNext, ~crossed' PROVE PanelInv'
    BY <1>2, <2>1, <2>2, <2>3, PanelKeeps DEF RunsInv
  <2>4. ASSUME UNCHANGED runVars, ~crossed' PROVE PanelInv'
    <3>1. UNCHANGED <<phase, pending, revertible, receiptSummary, calls, answers, inputs, plan, resume>>
      BY <2>4 DEF runVars, storeOfRuns, moduleVars
    <3>2. UNCHANGED <<approvedOn, written, crossed>>
      BY <2>4 DEF runVars
    <3> QED
      BY <1>2, <2>4, <3>1, <3>2 DEF RunsInv, PanelInv, PhaseInv, CallsInv, CallIsSafe, Alone, WritesWereApproved
  <2> QED
    BY <1>2, <2>1, <2>3, <2>4 DEF RunsInv
<1> QED
  BY <1>1, <1>2

\* In every behaviour of the executor, as long as no run was dismissed while a call was still at work on it, what
\* is written is a diff the user approved, with the plan it was shown with, and what the user answered for one
\* agent is an input of that agent's steps only (approve, answer and the module variables of runs.ts).
THEOREM ApprovalStaysMeant == RunsSpec => []ApprovalIsMeant
<1>1. RunsInv => ApprovalIsMeant
  <2>1. ASSUME PanelInv PROVE AnswersStayWithTheirRun
    BY <2>1 DEF PanelInv, CallsInv, CallIsSafe, AnswersStayWithTheirRun
  <2> QED
    BY <2>1 DEF RunsInv, PanelInv, ApprovalIsMeant
<1> QED
  BY <1>1, RunsInductive, PTL DEF RunsSpec

\* In every behaviour of the executor, a run panel with nothing under way has something to click, as long as no
\* run was dismissed while a call was still at work on it (RunPanel of Agents.tsx).
THEOREM PanelNeverWedges == RunsSpec => []PanelOffersAWayOn
<1>1. RunsInv => PanelOffersAWayOn
  <2>1. ASSUME RunsInv, calls = <<>>, ~crossed PROVE phase = "idle" \/ DoneVisible \/ Waiting \/ revertible # 0
    <3>1. PhaseInv /\ phase \in Phases /\ DOMAIN calls = {}
      BY <2>1 DEF RunsInv, PanelInv, RunsTypeOK
    <3> QED
      BY <2>1, <3>1 DEF PhaseInv, Phases, Working, DoneVisible, Waiting
  <2> QED
    BY <2>1 DEF PanelOffersAWayOn
<1> QED
  BY <1>1, RunsInductive, PTL DEF RunsSpec

-----------------------------------------------------------------------------
(* The relay of the browser bridge. *)

Line == [req : Requests, secret : Nat]
Link == [host : {"opening", "open", "closed"}, desk : {"accepted", "registered", "serving"},
         lines : Seq(Line \cup {None})]
BridgeAnswer == {"refused", "applied"}
Job == [req : Requests, link : Nat, result : BridgeAnswer \cup {None}]
Result == [req : Requests, result : BridgeAnswer, secret : Nat]
Dispatch == [at : {"none", "signed", "begun", "pushed", "expired", "answered", "timed out", "gone", "failed"} \cup BridgeAnswer,
             answer : BridgeAnswer \cup {None}, secret : Nat]

BridgeTypeOK ==
  /\ extPairing \in Nat \cup {None} /\ deskSecret \in Nat /\ extSecret \in Nat
  /\ links \in Seq(Link)
  /\ waiters \subseteq Requests /\ dispatches \in [Requests -> Dispatch]
  /\ handled \subseteq Job /\ upward \subseteq Result /\ droppedAnswers \subseteq Requests

\* Where a request can be once it was pushed: on a line the host has not read, with the worker, or, as its
\* result, on its way up.
OnLine(ls, l, i, r) ==
  l \in DOMAIN ls /\ i \in DOMAIN ls[l].lines /\ ls[l].lines[i] # None /\ ls[l].lines[i].req = r
Travels(ls, hs, us, r) ==
  \/ \E l, i \in Nat : OnLine(ls, l, i, r)
  \/ \E h \in hs : h.req = r
  \/ \E a \in us : a.req = r

\* A request is in one place only, ...
InOnePlace(ls, hs, us) ==
  \A r \in Requests :
    /\ \A l, i, m, j \in Nat : OnLine(ls, l, i, r) /\ OnLine(ls, m, j, r) => l = m /\ i = j
    /\ \A h, k \in hs : h.req = r /\ k.req = r => h = k
    /\ \A a, b \in us : a.req = r /\ b.req = r => a = b
    /\ (\E l, i \in Nat : OnLine(ls, l, i, r)) =>
         (\A h \in hs : h.req # r) /\ (\A a \in us : a.req # r)
    /\ (\E h \in hs : h.req = r) => \A a \in us : a.req # r

\* ... and only after its push and before its answer.
NotYetAnswered(ls, hs, us, ds) ==
  \A r \in Requests :
    Travels(ls, hs, us, r) =>
      ds[r].at \in {"pushed", "expired", "timed out", "gone"} /\ ds[r].answer = None

\* A dispatch that waits has its waiter until it is answered.
WaitersInv ==
  /\ \A r \in waiters : dispatches[r].at \in {"begun", "pushed", "expired"} /\ dispatches[r].answer = None
  /\ \A r \in Requests :
       /\ dispatches[r].at \in {"none", "signed"} => dispatches[r].answer = None
       /\ dispatches[r].at = "begun" => r \in waiters
       /\ dispatches[r].at = "pushed" /\ r \notin waiters => dispatches[r].answer # None
       /\ dispatches[r].at = "answered" => dispatches[r].answer # None
  /\ \A r \in droppedAnswers : dispatches[r].at \in {"expired", "timed out", "gone"}

BridgeInv ==
  /\ BridgeTypeOK /\ InOnePlace(links, handled, upward)
  /\ NotYetAnswered(links, handled, upward, dispatches) /\ WaitersInv

-----------------------------------------------------------------------------
\* Lines that move up, or go, leave every request where it is, or nowhere.
MovesUp(ls, next) ==
  \E shift \in [DOMAIN next -> {0, 1}] :
    \A l, i \in Nat, r \in Requests : OnLine(next, l, i, r) => OnLine(ls, l, i + shift[l], r)

\* What moves up its line, and is joined by nothing, is still in one place and not yet answered.
LEMMA FewerTravel ==
  ASSUME NEW ls, NEW next, NEW hs, NEW us, NEW ds, MovesUp(ls, next),
         InOnePlace(ls, hs, us), NotYetAnswered(ls, hs, us, ds),
         NEW hs2 \in SUBSET hs, NEW us2 \in SUBSET us
  PROVE  InOnePlace(next, hs2, us2) /\ NotYetAnswered(next, hs2, us2, ds)
<1>1. PICK shift \in [DOMAIN next -> {0, 1}] :
        \A l, i \in Nat, r \in Requests : OnLine(next, l, i, r) => OnLine(ls, l, i + shift[l], r)
  BY DEF MovesUp
<1>2. \A l \in DOMAIN next, i \in Nat : shift[l] \in Nat /\ i + shift[l] \in Nat
  BY <1>1
<1>3. \A l, i \in Nat : \A r : OnLine(next, l, i, r) => l \in DOMAIN next
  BY DEF OnLine
<1>4. ASSUME NEW r \in Requests, Travels(next, hs2, us2, r) PROVE Travels(ls, hs, us, r)
  <2>1. CASE \E l, i \in Nat : OnLine(next, l, i, r)
    BY <1>1, <1>2, <1>3, <2>1 DEF Travels
  <2> QED
    BY <2>1, <1>4 DEF Travels
<1>5. NotYetAnswered(next, hs2, us2, ds)
  BY <1>4 DEF NotYetAnswered
<1>6. ASSUME NEW r \in Requests, NEW l \in Nat, NEW i \in Nat, NEW m \in Nat, NEW j \in Nat,
             OnLine(next, l, i, r), OnLine(next, m, j, r)
      PROVE  l = m /\ i = j
  <2>1. l \in DOMAIN next /\ m \in DOMAIN next
    BY <1>3, <1>6
  <2>2. OnLine(ls, l, i + shift[l], r) /\ OnLine(ls, m, j + shift[m], r)
    BY <1>1, <1>6
  <2>3. i + shift[l] \in Nat /\ j + shift[m] \in Nat
    BY <1>2, <2>1
  <2>4. l = m /\ i + shift[l] = j + shift[m]
    BY <2>2, <2>3 DEF InOnePlace
  <2> QED
    BY <2>1, <2>3, <2>4, <1>1
<1>7. ASSUME NEW r \in Requests, \E l, i \in Nat : OnLine(next, l, i, r)
      PROVE  \E l, i \in Nat : OnLine(ls, l, i, r)
  BY <1>1, <1>2, <1>3, <1>7
<1>8. InOnePlace(next, hs2, us2)
  BY <1>6, <1>7 DEF InOnePlace
<1> QED
  BY <1>5, <1>8

\* Links whose lines are as they were hold what they held, where they held it.
LEMMA SameLines ==
  ASSUME NEW ls, NEW next, DOMAIN next \subseteq DOMAIN ls,
         \A l \in DOMAIN next : next[l].lines = ls[l].lines
  PROVE  MovesUp(ls, next)
<1>1. [l \in DOMAIN next |-> 0] \in [DOMAIN next -> {0, 1}]
  OBVIOUS
<1>2. \A l, i \in Nat, r \in Requests : OnLine(next, l, i, r) =>
        OnLine(ls, l, i + [m \in DOMAIN next |-> 0][l], r)
  BY DEF OnLine
<1> QED
  BY <1>1, <1>2 DEF MovesUp

\* A link is a record with a secret and a line.
LEMMA LinkSet ==
  ASSUME links \in Seq(Link), NEW l \in DOMAIN links, NEW x \in Link
  PROVE  [links EXCEPT ![l] = x] \in Seq(Link) /\ DOMAIN [links EXCEPT ![l] = x] = DOMAIN links
<1>1. \A k \in DOMAIN links : links[k] \in Link
  BY Elements
<1>2. [links EXCEPT ![l] = x] \in [DOMAIN links -> Link]
  BY <1>1
<1> QED
  BY <1>2, SameLength

\* A link of the relay is a link.
LEMMA LinkTyped ==
  ASSUME links \in Seq(Link), NEW l \in DOMAIN links
  PROVE  links[l] \in Link /\ links[l].lines \in Seq(Line \cup {None})
<1>1. links[l] \in Link
  BY Elements
<1> QED
  BY <1>1 DEF Link

\* One line of a link is taken from its front.
LEMMA TailMoves ==
  ASSUME links \in Seq(Link), NEW l \in DOMAIN links, NEW x \in Link, links[l].lines # <<>>,
         x.lines = Tail(links[l].lines)
  PROVE  /\ [links EXCEPT ![l] = x] \in Seq(Link) /\ MovesUp(links, [links EXCEPT ![l] = x])
         /\ \A k, i \in Nat, r \in Requests :
              OnLine([links EXCEPT ![l] = x], k, i, r) => OnLine(links, k, i + (IF k = l THEN 1 ELSE 0), r)
         /\ Head(links[l].lines) \in Line \cup {None}
         /\ 1 \in DOMAIN links[l].lines /\ Head(links[l].lines) = links[l].lines[1]
<1> DEFINE next == [links EXCEPT ![l] = x]
<1>1. next \in Seq(Link) /\ DOMAIN next = DOMAIN links /\ next[l] = x /\ \A k \in DOMAIN links : k # l => next[k] = links[k]
  BY LinkSet
<1>2. links[l].lines \in Seq(Line \cup {None})
  BY LinkTyped
<1>3. /\ Head(links[l].lines) \in Line \cup {None} /\ Head(links[l].lines) = links[l].lines[1]
      /\ 1 \in DOMAIN links[l].lines
      /\ \A i \in DOMAIN Tail(links[l].lines) :
           i + 1 \in DOMAIN links[l].lines /\ Tail(links[l].lines)[i] = links[l].lines[i + 1]
  BY <1>2, Shortened
<1> HIDE DEF next
<1>4. ASSUME NEW k \in Nat, NEW i \in Nat, NEW r \in Requests, OnLine(next, k, i, r)
      PROVE  OnLine(links, k, i + (IF k = l THEN 1 ELSE 0), r)
  <2>1. CASE k = l
    BY <1>1, <1>3, <1>4, <2>1 DEF OnLine
  <2>2. CASE k # l
    BY <1>1, <1>4, <2>2 DEF OnLine
  <2> QED
    BY <2>1, <2>2
<1>5. MovesUp(links, next)
  <2> DEFINE shift == [k \in DOMAIN next |-> IF k = l THEN 1 ELSE 0]
  <2>1. shift \in [DOMAIN next -> {0, 1}]
    OBVIOUS
  <2>2. \A k, i \in Nat, r \in Requests : OnLine(next, k, i, r) => OnLine(links, k, i + shift[k], r)
    BY <1>4 DEF OnLine
  <2> HIDE DEF shift
  <2> QED
    BY <2>1, <2>2 DEF MovesUp
<1> QED
  BY <1>1, <1>3, <1>4, <1>5 DEF next

\* Pairing and the worker's port: what is on its way stays where it is.
LEMMA PortKeeps ==
  ASSUME BridgeInv, NEW secret, OpenPort(secret)
  PROVE  links' \in Seq(Link) /\ MovesUp(links, links')
<1>0. links \in Seq(Link)
  BY DEF BridgeInv, BridgeTypeOK
<1>1. CASE relayPort = 0 /\ secret # 0 /\ Len(links) < MaxLinks
  <2>1. PICK reached \in BOOLEAN :
          links' = Append(links, [host |-> IF reached THEN "opening" ELSE "closed", desk |-> "accepted", lines |-> <<>>])
    BY <1>1 DEF OpenPort
  <2> DEFINE new == [host |-> IF reached THEN "opening" ELSE "closed", desk |-> "accepted", lines |-> <<>>]
  <2>2. new \in Link /\ new.lines = <<>>
    BY DEF Link
  <2>3. links' = Append(links, new)
    BY <2>1
  <2> HIDE DEF new
  <2>4. /\ links' \in Seq(Link) /\ DOMAIN links' = DOMAIN links \cup {Len(links) + 1}
        /\ \A l \in DOMAIN links : links'[l] = links[l]
        /\ links'[Len(links) + 1] = new
    BY <1>0, <2>2, <2>3, Appended
  <2>5. \A l, i \in Nat, r \in Requests : OnLine(links', l, i, r) => OnLine(links, l, i, r)
    <3> SUFFICES ASSUME NEW l \in Nat, NEW i \in Nat, NEW r \in Requests, OnLine(links', l, i, r)
                 PROVE  OnLine(links, l, i, r)
      OBVIOUS
    <3>1. CASE l \in DOMAIN links
      BY <2>4, <3>1 DEF OnLine
    <3>2. CASE l = Len(links) + 1
      <4>1. links'[l].lines = <<>>
        BY <2>2, <2>4, <3>2
      <4> QED
        BY <4>1 DEF OnLine
    <3> QED
      BY <3>1, <3>2, <2>4 DEF OnLine
  <2>6. MovesUp(links, links')
    <3>1. [l \in DOMAIN links' |-> 0] \in [DOMAIN links' -> {0, 1}]
      OBVIOUS
    <3>2. \A l, i \in Nat, r \in Requests : OnLine(links', l, i, r) =>
            OnLine(links, l, i + [m \in DOMAIN links' |-> 0][l], r)
      BY <2>5 DEF OnLine
    <3> QED
      BY <3>1, <3>2 DEF MovesUp
  <2> QED
    BY <2>4, <2>6
<1>2. CASE ~(relayPort = 0 /\ secret # 0 /\ Len(links) < MaxLinks)
  <2>1. links' = links
    BY <1>2 DEF OpenPort
  <2> QED
    BY <1>0, <2>1, SameLines
<1> QED
  BY <1>1, <1>2

\* When only lines move up, nothing that travels is disturbed.
LEMMA TravelSame ==
  ASSUME BridgeInv, MovesUp(links, links'), links' \in Seq(Link),
         UNCHANGED <<handled, upward, dispatchVars, droppedAnswers>>,
         extPairing' \in Nat \cup {None}, deskSecret' \in Nat, extSecret' \in Nat
  PROVE  BridgeInv'
<1>1. InOnePlace(links', handled, upward) /\ NotYetAnswered(links', handled, upward, dispatches)
  BY FewerTravel DEF BridgeInv
<1>2. BridgeTypeOK'
  BY DEF BridgeInv, BridgeTypeOK, dispatchVars
<1>3. WaitersInv'
  BY DEF BridgeInv, WaitersInv, dispatchVars
<1>4. InOnePlace(links, handled, upward)' /\ NotYetAnswered(links, handled, upward, dispatches)'
  BY <1>1 DEF dispatchVars
<1> QED
  BY <1>2, <1>3, <1>4 DEF BridgeInv

\* One dispatch moves on, with its waiter, while what travels stays where it is.
LEMMA DispatchMoves ==
  ASSUME BridgeInv, NEW r \in Requests, NEW d \in Dispatch, dispatches' = [dispatches EXCEPT ![r] = d],
         UNCHANGED <<pairVars, links, handled, upward, droppedAnswers>>,
         waiters' \subseteq Requests, \A q \in Requests \ {r} : q \in waiters' <=> q \in waiters,
         Travels(links, handled, upward, r) =>
           d.at \in {"pushed", "expired", "timed out", "gone"} /\ d.answer = None,
         r \in waiters' => d.at \in {"begun", "pushed", "expired"} /\ d.answer = None,
         d.at \in {"none", "signed"} => d.answer = None,
         d.at = "begun" => r \in waiters',
         d.at = "pushed" /\ r \notin waiters' => d.answer # None,
         d.at = "answered" => d.answer # None,
         r \in droppedAnswers => d.at \in {"expired", "timed out", "gone"}
  PROVE  BridgeInv'
<1>0. BridgeTypeOK
  BY DEF BridgeInv
<1>1. dispatches' \in [Requests -> Dispatch] /\ dispatches'[r] = d
      /\ \A q \in Requests \ {r} : dispatches'[q] = dispatches[q]
  BY <1>0 DEF BridgeTypeOK
<1>2. BridgeTypeOK'
  BY <1>0, <1>1 DEF BridgeTypeOK, pairVars
<1>3. InOnePlace(links', handled', upward')
  BY DEF BridgeInv
<1>4. NotYetAnswered(links', handled', upward', dispatches')
  BY <1>1 DEF BridgeInv, NotYetAnswered
<1>5. WaitersInv'
  <2>1. \A q \in waiters' : dispatches'[q].at \in {"begun", "pushed", "expired"} /\ dispatches'[q].answer = None
    BY <1>1 DEF BridgeInv, WaitersInv
  <2>2. \A q \in Requests :
          /\ dispatches'[q].at \in {"none", "signed"} => dispatches'[q].answer = None
          /\ dispatches'[q].at = "begun" => q \in waiters'
          /\ dispatches'[q].at = "pushed" /\ q \notin waiters' => dispatches'[q].answer # None
          /\ dispatches'[q].at = "answered" => dispatches'[q].answer # None
    BY <1>1 DEF BridgeInv, WaitersInv
  <2>3. \A q \in droppedAnswers' : dispatches'[q].at \in {"expired", "timed out", "gone"}
    BY <1>0, <1>1 DEF BridgeInv, WaitersInv, BridgeTypeOK
  <2> QED
    BY <2>1, <2>2, <2>3 DEF WaitersInv
<1> QED
  BY <1>2, <1>3, <1>4, <1>5 DEF BridgeInv

\* Dispatches, deliveries, evictions, restarts and pairings keep the bridge's invariant.
LEMMA BridgeInductive == BridgeInv /\ [BridgeNext]_bridgeVars => BridgeInv'
<1> SUFFICES ASSUME BridgeInv, [BridgeNext]_bridgeVars PROVE BridgeInv'
  OBVIOUS
<1> USE BridgeAssumption
<1>0. BridgeTypeOK /\ links \in Seq(Link) /\ MovesUp(links, links)
  BY SameLines DEF BridgeInv, BridgeTypeOK
<1>1. CASE UNCHANGED bridgeVars
  BY <1>0, <1>1, TravelSame DEF bridgeVars, dispatchVars, BridgeTypeOK
<1>2. CASE PairingBegin \/ TokenExpires \/ Pair \/ PairFails
  BY <1>0, <1>2, TravelSame DEF PairingBegin, TokenExpires, Pair, PairFails, BridgeTypeOK
<1>3. CASE PairCheck
  BY <1>0, <1>3, TravelSame DEF PairCheck, BridgeTypeOK
<1>4. CASE PairAnswered
  BY <1>0, <1>4, PortKeeps, TravelSame DEF PairAnswered, BridgeTypeOK
<1>5. CASE EnsureRelayPort
  BY <1>0, <1>5, PortKeeps, TravelSame DEF EnsureRelayPort, BridgeTypeOK, pairVars
<1>6. ASSUME NEW l \in DOMAIN links, RegisterRelay(l) PROVE BridgeInv'
  <2> DEFINE x == [links[l] EXCEPT !.desk = "registered"]
  <2>1. x \in Link /\ x.lines = links[l].lines
    BY <1>0, LinkTyped DEF Link
  <2>2. links' = [links EXCEPT ![l] = x]
    BY <1>6 DEF RegisterRelay
  <2> HIDE DEF x
  <2>3. links' \in Seq(Link) /\ DOMAIN links' = DOMAIN links
    BY <1>0, <2>1, <2>2, LinkSet
  <2>4. \A k \in DOMAIN links' : links'[k].lines = links[k].lines
    BY <2>1, <2>2, <2>3
  <2>5. MovesUp(links, links')
    BY <2>3, <2>4, SameLines
  <2> QED
    BY <1>0, <1>6, <2>3, <2>5, TravelSame DEF RegisterRelay, BridgeTypeOK, pairVars
<1>7. ASSUME NEW l \in DOMAIN links, ReplyToRegistration(l) PROVE BridgeInv'
  <2> DEFINE x == [links[l] EXCEPT !.desk = "serving", !.lines = Append(@, None)]
  <2>1. links[l] \in Link /\ links[l].lines \in Seq(Line \cup {None})
    BY <1>0, LinkTyped
  <2>2. x \in Link /\ x.lines = Append(links[l].lines, None)
    <3>1. Append(links[l].lines, None) \in Seq(Line \cup {None})
      BY <2>1, Appended
    <3> QED
      BY <2>1, <3>1 DEF Link
  <2>3. links' = [links EXCEPT ![l] = x]
    BY <1>7 DEF ReplyToRegistration
  <2> HIDE DEF x
  <2>4. links' \in Seq(Link) /\ DOMAIN links' = DOMAIN links
    BY <1>0, <2>2, <2>3, LinkSet
  <2>5. \A k, i \in Nat, r \in Requests : OnLine(links', k, i, r) => OnLine(links, k, i, r)
    <3> SUFFICES ASSUME NEW k \in Nat, NEW i \in Nat, NEW r \in Requests, OnLine(links', k, i, r)
                 PROVE  OnLine(links, k, i, r)
      OBVIOUS
    <3>1. CASE k # l
      BY <2>3, <2>4, <3>1 DEF OnLine
    <3>2. CASE k = l
      <4>1. links'[k].lines = Append(links[l].lines, None)
        BY <2>2, <2>3, <3>2
      <4>2. /\ DOMAIN Append(links[l].lines, None) = DOMAIN links[l].lines \cup {Len(links[l].lines) + 1}
            /\ \A j \in DOMAIN links[l].lines : Append(links[l].lines, None)[j] = links[l].lines[j]
            /\ Append(links[l].lines, None)[Len(links[l].lines) + 1] = None
        BY <2>1, Appended
      <4> QED
        BY <3>2, <4>1, <4>2, <2>4 DEF OnLine
    <3> QED
      BY <3>1, <3>2
  <2>6. MovesUp(links, links')
    <3>1. [k \in DOMAIN links' |-> 0] \in [DOMAIN links' -> {0, 1}]
      OBVIOUS
    <3>2. \A k, i \in Nat, r \in Requests : OnLine(links', k, i, r) =>
            OnLine(links, k, i + [m \in DOMAIN links' |-> 0][k], r)
      BY <2>5 DEF OnLine
    <3> QED
      BY <3>1, <3>2 DEF MovesUp
  <2> QED
    BY <1>0, <1>7, <2>4, <2>6, TravelSame DEF ReplyToRegistration, BridgeTypeOK, pairVars
<1>8. ASSUME NEW l \in DOMAIN links, HostReadsReply(l) PROVE BridgeInv'
  <2> DEFINE x == [links[l] EXCEPT !.host = "open", !.lines = Tail(@)]
  <2>1. links[l] \in Link /\ links[l].lines \in Seq(Line \cup {None}) /\ links[l].lines # <<>>
    BY <1>0, <1>8, LinkTyped DEF HostReadsReply
  <2>2. x \in Link /\ x.lines = Tail(links[l].lines)
    BY <2>1, Shortened DEF Link
  <2>3. links' = [links EXCEPT ![l] = x]
    BY <1>8 DEF HostReadsReply
  <2> HIDE DEF x
  <2>4. links' \in Seq(Link) /\ MovesUp(links, links')
    BY <1>0, <2>1, <2>2, <2>3, TailMoves
  <2> QED
    BY <1>0, <1>8, <2>4, TravelSame DEF HostReadsReply, BridgeTypeOK, pairVars
<1>9. ASSUME NEW l \in DOMAIN links, HostForwards(l) PROVE BridgeInv'
  <2> DEFINE x == [links[l] EXCEPT !.lines = Tail(@)]
  <2> DEFINE line == Head(links[l].lines)
  <2>1. links[l] \in Link /\ links[l].lines \in Seq(Line \cup {None}) /\ links[l].lines # <<>> /\ l \in Nat
    BY <1>0, <1>9, LinkTyped DEF HostForwards
  <2>2. x \in Link /\ x.lines = Tail(links[l].lines)
    BY <2>1, Shortened DEF Link
  <2>3. links' = [links EXCEPT ![l] = x]
    BY <1>9 DEF HostForwards
  <2> HIDE DEF x
  <2>4. /\ links' \in Seq(Link) /\ MovesUp(links, links')
        /\ \A k, i \in Nat, r \in Requests :
             OnLine(links', k, i, r) => OnLine(links, k, i + (IF k = l THEN 1 ELSE 0), r)
        /\ line \in Line \cup {None} /\ 1 \in DOMAIN links[l].lines /\ line = links[l].lines[1]
    BY <1>0, <2>1, <2>2, <2>3, TailMoves
  <2>5. handled' = IF line # None /\ line.secret = extSecret
                   THEN handled \cup {[req |-> line.req, link |-> l, result |-> None]} ELSE handled
    BY <1>9 DEF HostForwards
  <2>6. UNCHANGED <<extPairing, deskSecret, extSecret, upward, waiters, dispatches, droppedAnswers>>
    BY <1>9 DEF HostForwards, pairVars, dispatchVars
  <2> HIDE DEF line
  <2>7. CASE line # None /\ line.secret = extSecret
    <3> DEFINE job == [req |-> line.req, link |-> l, result |-> None]
    <3>1. line \in Line /\ line.req \in Requests /\ job \in Job
      BY <2>1, <2>4, <2>7 DEF Line, Job
    <3>2. OnLine(links, l, 1, line.req)
      BY <2>4, <2>7 DEF OnLine
    <3>3. handled' = handled \cup {job} /\ job.req = line.req
      BY <2>5, <2>7
    <3> HIDE DEF job
    <3>4. InOnePlace(links', handled, upward) /\ NotYetAnswered(links', handled, upward, dispatches)
      BY <2>4, FewerTravel DEF BridgeInv
    <3>5. \A k, i \in Nat : ~OnLine(links', k, i, line.req)
      <4> SUFFICES ASSUME NEW k \in Nat, NEW i \in Nat, OnLine(links', k, i, line.req) PROVE FALSE
        OBVIOUS
      <4>1. OnLine(links, k, i + (IF k = l THEN 1 ELSE 0), line.req)
        BY <2>4, <3>1
      <4>2. k = l /\ i + (IF k = l THEN 1 ELSE 0) = 1
        BY <2>1, <3>1, <3>2, <4>1 DEF BridgeInv, InOnePlace
      <4>3. i # 0
        <5>1. links'[l].lines = Tail(links[l].lines)
          BY <2>2, <2>3
        <5>2. Tail(links[l].lines) \in Seq(Line \cup {None})
          BY <2>1, Shortened
        <5>3. 0 \notin DOMAIN Tail(links[l].lines)
          BY <5>2
        <5> QED
          BY <4>2, <5>1, <5>3 DEF OnLine
      <4> QED
        BY <4>2, <4>3
    <3>6. (\A h \in handled : h.req # line.req) /\ \A a \in upward : a.req # line.req
      BY <2>1, <3>1, <3>2 DEF BridgeInv, InOnePlace
    <3>7. InOnePlace(links', handled', upward')
      BY <2>6, <3>3, <3>4, <3>5, <3>6 DEF InOnePlace
    <3>8. Travels(links, handled, upward, line.req)
      BY <2>1, <3>2 DEF Travels
    <3>9. NotYetAnswered(links', handled', upward', dispatches')
      <4>1. \A r \in Requests : Travels(links', handled', upward', r) => r = line.req \/ Travels(links', handled, upward, r)
        BY <2>6, <3>3 DEF Travels
      <4> QED
        BY <2>6, <3>1, <3>4, <3>8, <4>1 DEF NotYetAnswered, BridgeInv
    <3>10. BridgeTypeOK'
      BY <1>0, <2>4, <2>6, <3>1, <3>3 DEF BridgeTypeOK
    <3>11. WaitersInv'
      BY <2>6 DEF BridgeInv, WaitersInv
    <3> QED
      BY <3>7, <3>9, <3>10, <3>11 DEF BridgeInv
  <2>8. CASE ~(line # None /\ line.secret = extSecret)
    BY <1>0, <2>4, <2>5, <2>6, <2>8, TravelSame DEF dispatchVars, BridgeTypeOK
  <2> QED
    BY <2>7, <2>8
<1>10. ASSUME NEW h \in handled, Perform(h) PROVE BridgeInv'
  <2>1. PICK result \in BridgeAnswer : handled' = (handled \ {h}) \cup {[h EXCEPT !.result = result]}
    BY <1>10 DEF Perform, BridgeAnswer
  <2> DEFINE done == [h EXCEPT !.result = result]
  <2>2. h \in Job /\ done \in Job /\ done.req = h.req
    BY <1>0 DEF BridgeTypeOK, Job
  <2>3. handled' = (handled \ {h}) \cup {done}
    BY <2>1
  <2> HIDE DEF done
  <2>4. UNCHANGED <<extPairing, deskSecret, extSecret, links, upward, waiters, dispatches, droppedAnswers>>
    BY <1>10 DEF Perform, pairVars, dispatchVars
  <2>5. h.req \in Requests
    BY <2>2 DEF Job
  <2>6. InOnePlace(links', handled', upward')
    BY <2>2, <2>3, <2>4, <2>5 DEF BridgeInv, InOnePlace
  <2>7. NotYetAnswered(links', handled', upward', dispatches')
    <3>1. \A r \in Requests : Travels(links', handled', upward', r) => Travels(links, handled, upward, r)
      BY <2>2, <2>3, <2>4 DEF Travels
    <3> QED
      BY <2>4, <3>1 DEF BridgeInv, NotYetAnswered
  <2>8. BridgeTypeOK'
    BY <1>0, <2>2, <2>3, <2>4 DEF BridgeTypeOK
  <2>9. WaitersInv'
    BY <2>4 DEF BridgeInv, WaitersInv
  <2> QED
    BY <2>6, <2>7, <2>8, <2>9 DEF BridgeInv
<1>11. ASSUME NEW next \in SUBSET handled, handled' = next,
              UNCHANGED <<extPairing, deskSecret, extSecret, links, upward, waiters, dispatches, droppedAnswers>>
       PROVE  BridgeInv'
  <2>1. InOnePlace(links, next, upward) /\ NotYetAnswered(links, next, upward, dispatches)
    BY <1>0, FewerTravel DEF BridgeInv
  <2>2. InOnePlace(links', handled', upward') /\ NotYetAnswered(links', handled', upward', dispatches')
    BY <1>11, <2>1
  <2>3. BridgeTypeOK'
    BY <1>0, <1>11 DEF BridgeTypeOK
  <2>4. WaitersInv'
    BY <1>11 DEF BridgeInv, WaitersInv
  <2> QED
    BY <2>2, <2>3, <2>4 DEF BridgeInv
<1>12. ASSUME NEW h \in handled, PerformThrows(h) PROVE BridgeInv'
  BY <1>11, <1>12 DEF PerformThrows, pairVars, dispatchVars
<1>13. ASSUME NEW h \in handled, PostResult(h) PROVE BridgeInv'
  <2>0. UNCHANGED <<extPairing, deskSecret, extSecret, links, waiters, dispatches, droppedAnswers>> /\ handled' = handled \ {h}
    BY <1>13 DEF PostResult, pairVars, dispatchVars
  <2>1. CASE links[h.link].host = "closed" \/ relayPort # h.link
    BY <1>11, <1>13, <2>0, <2>1 DEF PostResult
  <2>2. CASE ~(links[h.link].host = "closed" \/ relayPort # h.link)
    <3> DEFINE up == [req |-> h.req, result |-> h.result, secret |-> extSecret]
    <3>1. up \in Result /\ up.req = h.req /\ h.req \in Requests
      BY <1>0, <1>13 DEF PostResult, BridgeTypeOK, Job, Result
    <3>2. upward' = upward \cup {up}
      BY <1>13, <2>2 DEF PostResult
    <3> HIDE DEF up
    <3>3. InOnePlace(links', handled', upward')
      BY <2>0, <3>1, <3>2 DEF BridgeInv, InOnePlace
    <3>4. NotYetAnswered(links', handled', upward', dispatches')
      <4>1. \A r \in Requests : Travels(links', handled', upward', r) => Travels(links, handled, upward, r)
        BY <2>0, <3>1, <3>2 DEF Travels
      <4> QED
        BY <2>0, <4>1 DEF BridgeInv, NotYetAnswered
    <3>5. BridgeTypeOK'
      BY <1>0, <2>0, <3>1, <3>2 DEF BridgeTypeOK
    <3>6. WaitersInv'
      BY <2>0 DEF BridgeInv, WaitersInv
    <3> QED
      BY <3>3, <3>4, <3>5, <3>6 DEF BridgeInv
  <2> QED
    BY <2>1, <2>2
<1>14. CASE WorkerEvicted
  <2>1. links' = [links EXCEPT ![relayPort].host = "closed"] /\ handled' = {} /\ extPairing' = None
        /\ UNCHANGED <<deskSecret, extSecret, waiters, dispatches, upward, droppedAnswers>>
    BY <1>14 DEF WorkerEvicted, dispatchVars
  <2>2. links' \in Seq(Link) /\ MovesUp(links, links')
    <3>1. CASE relayPort \in DOMAIN links
      <4> DEFINE x == [links[relayPort] EXCEPT !.host = "closed"]
      <4>1. x \in Link /\ x.lines = links[relayPort].lines
        BY <1>0, <3>1, LinkTyped DEF Link
      <4>2. links' = [links EXCEPT ![relayPort] = x]
        BY <2>1
      <4> HIDE DEF x
      <4>3. links' \in Seq(Link) /\ DOMAIN links' = DOMAIN links
        BY <1>0, <3>1, <4>1, <4>2, LinkSet
      <4>4. \A k \in DOMAIN links' : links'[k].lines = links[k].lines
        BY <4>1, <4>2, <4>3
      <4> QED
        BY <4>3, <4>4, SameLines
    <3>2. CASE relayPort \notin DOMAIN links
      <4>1. links' = links
        BY <1>0, <2>1, <3>2
      <4> QED
        BY <1>0, <4>1
    <3> QED
      BY <3>1, <3>2
  <2>3. InOnePlace(links', {}, upward) /\ NotYetAnswered(links', {}, upward, dispatches)
    BY <2>2, FewerTravel DEF BridgeInv
  <2>4. InOnePlace(links', handled', upward') /\ NotYetAnswered(links', handled', upward', dispatches')
    BY <2>1, <2>3
  <2>5. BridgeTypeOK'
    BY <1>0, <2>1, <2>2 DEF BridgeTypeOK
  <2>6. WaitersInv'
    BY <2>1 DEF BridgeInv, WaitersInv
  <2> QED
    BY <2>4, <2>5, <2>6 DEF BridgeInv
<1>15. ASSUME NEW r \in Requests, DispatchAction(r) PROVE BridgeInv'
  <2> DEFINE d == [dispatches[r] EXCEPT !.at = IF deskSecret = 0 THEN "failed" ELSE "signed", !.secret = deskSecret]
  <2>1. dispatches[r] \in Dispatch /\ dispatches[r].at = "none"
    BY <1>0, <1>15 DEF BridgeTypeOK, DispatchAction, At_
  <2>2. d \in Dispatch /\ d.at \in {"failed", "signed"} /\ d.answer = dispatches[r].answer
    BY <1>0, <2>1 DEF Dispatch, BridgeTypeOK
  <2>3. dispatches' = [dispatches EXCEPT ![r] = d]
    BY <1>15 DEF DispatchAction
  <2> HIDE DEF d
  <2>4. ~Travels(links, handled, upward, r) /\ r \notin droppedAnswers /\ r \notin waiters /\ dispatches[r].answer = None
    BY <2>1 DEF BridgeInv, NotYetAnswered, WaitersInv
  <2>5. UNCHANGED <<pairVars, links, handled, upward, droppedAnswers, waiters>>
    BY <1>15 DEF DispatchAction
  <2>6. waiters' \subseteq Requests
    BY <1>0, <2>5 DEF BridgeTypeOK
  <2> QED
    BY <2>2, <2>3, <2>4, <2>5, <2>6, DispatchMoves
<1>16. ASSUME NEW r \in Requests, BeginWait(r) PROVE BridgeInv'
  <2> DEFINE d == [dispatches[r] EXCEPT !.at = "begun"]
  <2>1. dispatches[r] \in Dispatch /\ dispatches[r].at = "signed"
    BY <1>0, <1>16 DEF BridgeTypeOK, BeginWait, At_
  <2>2. d \in Dispatch /\ d.at = "begun" /\ d.answer = dispatches[r].answer
    BY <2>1 DEF Dispatch
  <2>3. dispatches' = [dispatches EXCEPT ![r] = d] /\ waiters' = waiters \cup {r}
    BY <1>16 DEF BeginWait, To
  <2> HIDE DEF d
  <2>4. ~Travels(links, handled, upward, r) /\ r \notin droppedAnswers /\ dispatches[r].answer = None
    BY <2>1 DEF BridgeInv, NotYetAnswered, WaitersInv
  <2>5. UNCHANGED <<pairVars, links, handled, upward, droppedAnswers>>
    BY <1>16 DEF BeginWait
  <2>6. waiters' \subseteq Requests
    BY <1>0, <2>3 DEF BridgeTypeOK
  <2> QED
    BY <2>2, <2>3, <2>4, <2>5, <2>6, DispatchMoves
<1>17. ASSUME NEW r \in Requests, WaitReturns(r) PROVE BridgeInv'
  <2> DEFINE d == [dispatches[r] EXCEPT !.at = IF dispatches[r].answer = None THEN "expired" ELSE "answered"]
  <2>1. dispatches[r] \in Dispatch /\ dispatches[r].at = "pushed"
    BY <1>0, <1>17 DEF BridgeTypeOK, WaitReturns, At_
  <2>2. d \in Dispatch /\ d.answer = dispatches[r].answer
        /\ d.at = IF dispatches[r].answer = None THEN "expired" ELSE "answered"
    BY <2>1 DEF Dispatch
  <2>3. dispatches' = [dispatches EXCEPT ![r] = d]
    BY <1>17 DEF WaitReturns, To
  <2> HIDE DEF d
  <2>4. /\ Travels(links, handled, upward, r) => dispatches[r].answer = None
        /\ r \notin droppedAnswers
        /\ r \in waiters => dispatches[r].answer = None
    BY <2>1 DEF BridgeInv, NotYetAnswered, WaitersInv
  <2>5. UNCHANGED <<pairVars, links, handled, upward, droppedAnswers, waiters>>
    BY <1>17 DEF WaitReturns
  <2>6. waiters' \subseteq Requests
    BY <1>0, <2>5 DEF BridgeTypeOK
  <2> QED
    BY <2>2, <2>3, <2>4, <2>5, <2>6, DispatchMoves
<1>18. ASSUME NEW r \in Requests, DispatchReturns(r) PROVE BridgeInv'
  <2> DEFINE d == [dispatches[r] EXCEPT !.at = IF dispatches[r].at = "answered" THEN dispatches[r].answer ELSE "timed out"]
  <2>1. dispatches[r] \in Dispatch /\ dispatches[r].at \in {"expired", "answered"}
    BY <1>0, <1>18 DEF BridgeTypeOK, DispatchReturns
  <2>2. dispatches[r].at = "answered" => dispatches[r].answer \in BridgeAnswer
    BY <2>1 DEF BridgeInv, WaitersInv, Dispatch
  <2>3. d \in Dispatch /\ d.answer = dispatches[r].answer
        /\ d.at = IF dispatches[r].at = "answered" THEN dispatches[r].answer ELSE "timed out"
    BY <2>1, <2>2 DEF Dispatch
  <2>4. dispatches' = [dispatches EXCEPT ![r] = d] /\ waiters' = waiters \ {r}
    BY <1>18 DEF DispatchReturns, To, Abandon, At_
  <2> HIDE DEF d
  <2>5. /\ Travels(links, handled, upward, r) => dispatches[r].answer = None
        /\ r \in droppedAnswers => dispatches[r].at = "expired"
        /\ dispatches[r].at = "answered" => dispatches[r].answer # None
    BY <2>1 DEF BridgeInv, NotYetAnswered, WaitersInv
  <2>6. UNCHANGED <<pairVars, links, handled, upward, droppedAnswers>>
    BY <1>18 DEF DispatchReturns
  <2>7. waiters' \subseteq Requests /\ \A q \in Requests \ {r} : q \in waiters' <=> q \in waiters
    BY <1>0, <2>4 DEF BridgeTypeOK
  <2>8. d.at \in {"timed out"} \cup BridgeAnswer
    BY <2>2, <2>3
  <2>9. r \notin waiters'
    BY <2>4
  <2>10. Travels(links, handled, upward, r) => d.at = "timed out" /\ d.answer = None
    BY <2>1, <2>3, <2>5
  <2>11. r \in droppedAnswers => d.at = "timed out"
    BY <2>3, <2>5
  <2>12. d.at \notin {"none", "signed", "begun", "pushed", "answered"}
    BY <2>8 DEF BridgeAnswer
  <2> QED
    BY <2>3, <2>4, <2>6, <2>7, <2>9, <2>10, <2>11, <2>12, DispatchMoves
<1>19. ASSUME NEW a \in upward, Deliver(a) PROVE BridgeInv'
  <2>0. /\ upward' = upward \ {a}
        /\ UNCHANGED <<extPairing, deskSecret, extSecret, links, handled>>
    BY <1>19 DEF Deliver, pairVars
  <2>1. a \in Result /\ a.req \in Requests /\ a.result \in BridgeAnswer /\ Travels(links, handled, upward, a.req)
    BY <1>0 DEF BridgeTypeOK, Result, Travels
  <2>2. /\ dispatches[a.req].at \in {"pushed", "expired", "timed out", "gone"} /\ dispatches[a.req].answer = None
    BY <2>1 DEF BridgeInv, NotYetAnswered
  <2>3. InOnePlace(links, handled, upward \ {a}) /\ NotYetAnswered(links, handled, upward \ {a}, dispatches)
    BY <1>0, FewerTravel DEF BridgeInv
  <2>4. InOnePlace(links', handled', upward')
    BY <2>0, <2>3
  <2>5. CASE a.secret # deskSecret
    <3>1. UNCHANGED <<waiters, dispatches, droppedAnswers>>
      BY <1>19, <2>5 DEF Deliver, dispatchVars
    <3>2. NotYetAnswered(links', handled', upward', dispatches')
      BY <2>0, <2>3, <3>1
    <3>3. BridgeTypeOK'
      BY <1>0, <2>0, <3>1 DEF BridgeTypeOK
    <3>4. WaitersInv'
      BY <3>1 DEF BridgeInv, WaitersInv
    <3> QED
      BY <2>4, <3>2, <3>3, <3>4 DEF BridgeInv
  <2>6. CASE a.secret = deskSecret /\ a.req \in waiters
    <3> DEFINE d == [dispatches[a.req] EXCEPT !.answer = a.result]
    <3>1. d \in Dispatch /\ d.at = dispatches[a.req].at /\ d.answer = a.result /\ a.result # None
      BY <1>0, <2>1 DEF BridgeTypeOK, Dispatch, BridgeAnswer
    <3>2. waiters' = waiters \ {a.req} /\ droppedAnswers' = droppedAnswers /\ dispatches' = [dispatches EXCEPT ![a.req] = d]
      BY <1>19, <2>6 DEF Deliver
    <3> HIDE DEF d
    <3>3. dispatches' \in [Requests -> Dispatch] /\ dispatches'[a.req] = d
          /\ \A q \in Requests \ {a.req} : dispatches'[q] = dispatches[q]
      BY <1>0, <2>1, <3>1, <3>2 DEF BridgeTypeOK
    <3>4. ~Travels(links, handled, upward \ {a}, a.req)
      BY <2>1 DEF BridgeInv, InOnePlace, Travels
    <3>5. NotYetAnswered(links', handled', upward', dispatches')
      BY <2>0, <2>3, <3>3, <3>4 DEF NotYetAnswered
    <3>6. BridgeTypeOK'
      BY <1>0, <2>0, <3>2, <3>3 DEF BridgeTypeOK
    <3>7. \A r \in waiters' : dispatches'[r].at \in {"begun", "pushed", "expired"} /\ dispatches'[r].answer = None
      BY <1>0, <3>2, <3>3 DEF BridgeInv, WaitersInv, BridgeTypeOK
    <3>8. \A r \in Requests :
            /\ dispatches'[r].at \in {"none", "signed"} => dispatches'[r].answer = None
            /\ dispatches'[r].at = "begun" => r \in waiters'
            /\ dispatches'[r].at = "pushed" /\ r \notin waiters' => dispatches'[r].answer # None
            /\ dispatches'[r].at = "answered" => dispatches'[r].answer # None
      BY <2>2, <3>1, <3>2, <3>3 DEF BridgeInv, WaitersInv
    <3>9. \A r \in droppedAnswers' : dispatches'[r].at \in {"expired", "timed out", "gone"}
      BY <1>0, <3>1, <3>2, <3>3 DEF BridgeInv, WaitersInv, BridgeTypeOK
    <3>10. WaitersInv'
      BY <3>7, <3>8, <3>9 DEF WaitersInv
    <3> QED
      BY <2>4, <3>5, <3>6, <3>10 DEF BridgeInv
  <2>7. CASE a.secret = deskSecret /\ a.req \notin waiters
    <3>1. UNCHANGED <<waiters, dispatches>> /\ droppedAnswers' = droppedAnswers \cup {a.req}
      BY <1>19, <2>7 DEF Deliver, dispatchVars
    <3>2. NotYetAnswered(links', handled', upward', dispatches')
      BY <2>0, <2>3, <3>1
    <3>3. BridgeTypeOK'
      BY <1>0, <2>0, <2>1, <3>1 DEF BridgeTypeOK
    <3>4. dispatches[a.req].at \in {"expired", "timed out", "gone"}
      BY <2>1, <2>2, <2>7 DEF BridgeInv, WaitersInv
    <3>5. WaitersInv'
      BY <3>1, <3>4 DEF BridgeInv, WaitersInv
    <3> QED
      BY <2>4, <3>2, <3>3, <3>5 DEF BridgeInv
  <2> QED
    BY <2>5, <2>6, <2>7
<1>20. ASSUME NEW r \in Requests, PushRequest(r) PROVE BridgeInv'
  <2>1. dispatches[r] \in Dispatch /\ dispatches[r].at = "begun"
    BY <1>0, <1>20 DEF BridgeTypeOK, PushRequest, At_
  <2>2. ~Travels(links, handled, upward, r) /\ r \notin droppedAnswers /\ r \in waiters /\ dispatches[r].answer = None
    BY <2>1 DEF BridgeInv, NotYetAnswered, WaitersInv
  <2>3. UNCHANGED <<pairVars, handled, upward, droppedAnswers>>
    BY <1>20 DEF PushRequest
  <2>4. CASE /\ relayLink # 0 => links[relayLink].host = "closed"
             /\ relayLink' = 0 /\ waiters' = Abandon(r) /\ To(r, "failed") /\ UNCHANGED links
    <3> DEFINE d == [dispatches[r] EXCEPT !.at = "failed"]
    <3>1. d \in Dispatch /\ d.at = "failed" /\ d.answer = None
      BY <2>1, <2>2 DEF Dispatch
    <3>2. dispatches' = [dispatches EXCEPT ![r] = d] /\ waiters' = waiters \ {r} /\ links' = links
      BY <2>4 DEF To, Abandon
    <3> HIDE DEF d
    <3>3. waiters' \subseteq Requests /\ r \notin waiters' /\ \A q \in Requests \ {r} : q \in waiters' <=> q \in waiters
      BY <1>0, <3>2 DEF BridgeTypeOK
    <3> QED
      BY <2>2, <2>3, <3>1, <3>2, <3>3, DispatchMoves
  <2>5. CASE /\ relayLink # 0 /\ To(r, "pushed")
             /\ links' = [links EXCEPT ![relayLink].lines =
                            IF links[relayLink].host = "closed" THEN @
                            ELSE Append(@, [req |-> r, secret |-> dispatches[r].secret])]
             /\ UNCHANGED <<relayLink, waiters>>
    <3> DEFINE d == [dispatches[r] EXCEPT !.at = "pushed"]
    <3>1. d \in Dispatch /\ d.at = "pushed" /\ d.answer = None
      BY <2>1, <2>2 DEF Dispatch
    <3>2. dispatches' = [dispatches EXCEPT ![r] = d] /\ waiters' = waiters
      BY <2>5 DEF To
    <3> HIDE DEF d
    <3>3. waiters' \subseteq Requests
      BY <1>0, <3>2 DEF BridgeTypeOK
    <3>4. CASE relayLink \notin DOMAIN links \/ links[relayLink].host = "closed"
      <4>1. links' = links
        <5>1. CASE relayLink \notin DOMAIN links
          BY <1>0, <2>5, <5>1
        <5>2. CASE relayLink \in DOMAIN links /\ links[relayLink].host = "closed"
          <6>1. links[relayLink] \in Link
            BY <1>0, <5>2, LinkTyped
          <6>2. links' = [links EXCEPT ![relayLink] = [links[relayLink] EXCEPT !.lines = links[relayLink].lines]]
            BY <2>5, <5>2
          <6>3. [links[relayLink] EXCEPT !.lines = links[relayLink].lines] = links[relayLink]
            BY <6>1 DEF Link
          <6> QED
            BY <1>0, <5>2, <6>2, <6>3
        <5> QED
          BY <3>4, <5>1, <5>2
      <4> QED
        BY <2>2, <2>3, <3>1, <3>2, <3>3, <4>1, DispatchMoves
    <3>5. CASE relayLink \in DOMAIN links /\ links[relayLink].host # "closed"
      <4> DEFINE line == [req |-> r, secret |-> dispatches[r].secret]
                 was == links[relayLink].lines
                 x == [links[relayLink] EXCEPT !.lines = Append(was, line)]
      <4>1. line \in Line /\ line.req = r /\ line # None
        <5>1. dispatches[r].secret \in Nat
          BY <2>1 DEF Dispatch
        <5>2. line \in Line /\ line.req = r
          BY <5>1 DEF Line
        <5>3. None \notin Line
          BY DEF Line
        <5> QED
          BY <5>2, <5>3
      <4>2. links[relayLink] \in Link /\ was \in Seq(Line \cup {None}) /\ relayLink \in Nat
        BY <1>0, <3>5, LinkTyped
      <4>3. links' = [links EXCEPT ![relayLink] = x]
        BY <2>5, <3>5
      <4> HIDE DEF line
      <4>4. /\ Append(was, line) \in Seq(Line \cup {None}) /\ Len(was) + 1 \notin DOMAIN was
            /\ DOMAIN Append(was, line) = DOMAIN was \cup {Len(was) + 1}
            /\ \A i \in DOMAIN was : Append(was, line)[i] = was[i]
            /\ Append(was, line)[Len(was) + 1] = line
        BY <4>1, <4>2, Appended, SMTT(30)
      <4>5. Len(was) + 1 \in Nat
        BY <4>2
      <4>6. x \in Link /\ x.lines = Append(was, line)
        BY <4>2, <4>4 DEF Link
      <4> HIDE DEF x
      <4>7. links' \in Seq(Link) /\ DOMAIN links' = DOMAIN links /\ links'[relayLink].lines = Append(was, line)
            /\ \A k \in DOMAIN links : k # relayLink => links'[k] = links[k]
        BY <1>0, <3>5, <4>3, <4>6, LinkSet
      <4>8. \A k, i \in Nat, q \in Requests :
              OnLine(links', k, i, q) => OnLine(links, k, i, q) \/ (q = r /\ k = relayLink /\ i = Len(was) + 1)
        <5> SUFFICES ASSUME NEW k \in Nat, NEW i \in Nat, NEW q \in Requests, OnLine(links', k, i, q)
                     PROVE  OnLine(links, k, i, q) \/ (q = r /\ k = relayLink /\ i = Len(was) + 1)
          OBVIOUS
        <5>1. CASE k # relayLink
          BY <4>7, <5>1 DEF OnLine
        <5>2. CASE k = relayLink
          BY <4>1, <4>4, <4>7, <5>2 DEF OnLine
        <5> QED
          BY <5>1, <5>2
      <4> HIDE DEF was
      <4>9. /\ \A k, i \in Nat : ~OnLine(links, k, i, r)
            /\ \A h \in handled : h.req # r
            /\ \A a \in upward : a.req # r
        BY <2>2 DEF Travels
      <4>10. InOnePlace(links', handled', upward')
        <5> SUFFICES ASSUME NEW q \in Requests
                     PROVE  /\ \A l, i, m, j \in Nat : OnLine(links', l, i, q) /\ OnLine(links', m, j, q) => l = m /\ i = j
                            /\ \A h, k \in handled : h.req = q /\ k.req = q => h = k
                            /\ \A a, b \in upward : a.req = q /\ b.req = q => a = b
                            /\ (\E l, i \in Nat : OnLine(links', l, i, q)) =>
                                 (\A h \in handled : h.req # q) /\ (\A a \in upward : a.req # q)
                            /\ (\E h \in handled : h.req = q) => \A a \in upward : a.req # q
          BY <2>3 DEF InOnePlace
        <5>1. CASE q = r
          <6>1. \A k, i \in Nat : OnLine(links', k, i, q) => k = relayLink /\ i = Len(was) + 1
            BY <4>8, <4>9, <5>1
          <6>2. (\A h \in handled : h.req # q) /\ (\A a \in upward : a.req # q)
            BY <4>9, <5>1
          <6> QED
            BY <6>1, <6>2
        <5>2. CASE q # r
          <6>1. \A k, i \in Nat : OnLine(links', k, i, q) => OnLine(links, k, i, q)
            BY <4>8, <5>2
          <6> QED
            BY <6>1 DEF BridgeInv, InOnePlace
        <5> QED
          BY <5>1, <5>2
      <4>11. dispatches' \in [Requests -> Dispatch] /\ dispatches'[r] = d
             /\ \A q \in Requests \ {r} : dispatches'[q] = dispatches[q]
        BY <1>0, <3>1, <3>2 DEF BridgeTypeOK
      <4>12. NotYetAnswered(links', handled', upward', dispatches')
        <5> SUFFICES ASSUME NEW q \in Requests, Travels(links', handled', upward', q)
                     PROVE  /\ dispatches'[q].at \in {"pushed", "expired", "timed out", "gone"}
                            /\ dispatches'[q].answer = None
          BY DEF NotYetAnswered
        <5>1. CASE q = r
          BY <3>1, <4>11, <5>1
        <5>2. CASE q # r
          <6>1. Travels(links, handled, upward, q)
            BY <2>3, <4>8, <5>2 DEF Travels
          <6> QED
            BY <4>11, <5>2, <6>1 DEF BridgeInv, NotYetAnswered
        <5> QED
          BY <5>1, <5>2
      <4>13. BridgeTypeOK'
        BY <1>0, <2>3, <3>3, <3>2, <4>7, <4>11 DEF BridgeTypeOK, pairVars
      <4>14. \A q \in waiters' : dispatches'[q].at \in {"begun", "pushed", "expired"} /\ dispatches'[q].answer = None
        BY <1>0, <3>1, <3>2, <4>11 DEF BridgeInv, WaitersInv, BridgeTypeOK
      <4>15. \A q \in Requests :
               /\ dispatches'[q].at \in {"none", "signed"} => dispatches'[q].answer = None
               /\ dispatches'[q].at = "begun" => q \in waiters'
               /\ dispatches'[q].at = "pushed" /\ q \notin waiters' => dispatches'[q].answer # None
               /\ dispatches'[q].at = "answered" => dispatches'[q].answer # None
        BY <2>2, <3>1, <3>2, <4>11 DEF BridgeInv, WaitersInv
      <4>16. \A q \in droppedAnswers' : dispatches'[q].at \in {"expired", "timed out", "gone"}
        BY <1>0, <2>2, <2>3, <4>11 DEF BridgeInv, WaitersInv, BridgeTypeOK
      <4>17. WaitersInv'
        BY <4>14, <4>15, <4>16 DEF WaitersInv
      <4> QED
        BY <4>10, <4>12, <4>13, <4>17 DEF BridgeInv
    <3> QED
      BY <3>4, <3>5
  <2> QED
    BY <1>20, <2>4, <2>5 DEF PushRequest
<1>21. CASE DesktopRestarts
  <2>1. /\ links' = [l \in DOMAIN links |-> [links[l] EXCEPT !.host = "closed", !.lines = <<>>]]
        /\ waiters' = {}
        /\ dispatches' = [r \in Requests |-> IF dispatches[r].at \in {"none", "refused", "applied", "failed", "timed out"}
                                             THEN dispatches[r] ELSE [dispatches[r] EXCEPT !.at = "gone"]]
        /\ UNCHANGED <<extPairing, deskSecret, extSecret, handled, upward, droppedAnswers>>
    BY <1>21 DEF DesktopRestarts, pairVars
  <2>2. links' \in Seq(Link) /\ DOMAIN links' = DOMAIN links
    <3>1. \A l \in DOMAIN links : [links[l] EXCEPT !.host = "closed", !.lines = <<>>] \in Link
      <4> SUFFICES ASSUME NEW l \in DOMAIN links PROVE [links[l] EXCEPT !.host = "closed", !.lines = <<>>] \in Link
        OBVIOUS
      <4>1. links[l] \in Link
        BY <1>0, LinkTyped
      <4>2. <<>> \in Seq(Line \cup {None})
        OBVIOUS
      <4> QED
        BY <4>1, <4>2 DEF Link
    <3>2. links' \in [DOMAIN links -> Link]
      BY <2>1, <3>1
    <3> QED
      BY <1>0, <3>2, SameLength
  <2>3. \A l, i \in Nat, r \in Requests : ~OnLine(links', l, i, r)
    <3> SUFFICES ASSUME NEW l \in Nat, NEW i \in Nat, NEW r \in Requests, OnLine(links', l, i, r) PROVE FALSE
      OBVIOUS
    <3>1. l \in DOMAIN links /\ links[l] \in Link
      BY <1>0, <2>2, LinkTyped DEF OnLine
    <3>2. links'[l].lines = <<>>
      BY <2>1, <3>1 DEF Link
    <3> QED
      BY <3>2 DEF OnLine
  <2>4. InOnePlace(links', handled', upward')
    BY <2>1, <2>3 DEF BridgeInv, InOnePlace
  <2>5. \A r \in Requests :
          /\ dispatches[r] \in Dispatch /\ dispatches'[r] \in Dispatch /\ dispatches'[r].answer = dispatches[r].answer
          /\ dispatches'[r].at = IF dispatches[r].at \in {"none", "refused", "applied", "failed", "timed out"}
                                 THEN dispatches[r].at ELSE "gone"
    <3> SUFFICES ASSUME NEW r \in Requests
                 PROVE  /\ dispatches[r] \in Dispatch /\ dispatches'[r] \in Dispatch /\ dispatches'[r].answer = dispatches[r].answer
                        /\ dispatches'[r].at = IF dispatches[r].at \in {"none", "refused", "applied", "failed", "timed out"}
                                               THEN dispatches[r].at ELSE "gone"
      OBVIOUS
    <3>1. dispatches[r] \in Dispatch
      BY <1>0 DEF BridgeTypeOK
    <3> QED
      BY <2>1, <3>1 DEF Dispatch
  <2>6. NotYetAnswered(links', handled', upward', dispatches')
    <3>1. \A r \in Requests : Travels(links', handled', upward', r) => Travels(links, handled, upward, r)
      BY <2>1, <2>3 DEF Travels
    <3> QED
      BY <2>5, <3>1 DEF BridgeInv, NotYetAnswered
  <2>7. BridgeTypeOK'
    <3>1. dispatches' \in [Requests -> Dispatch]
      BY <2>1, <2>5
    <3> QED
      BY <1>0, <2>1, <2>2, <3>1 DEF BridgeTypeOK
  <2>8. WaitersInv'
    <3>1. \A r \in droppedAnswers' : dispatches'[r].at \in {"expired", "timed out", "gone"}
      BY <1>0, <2>1, <2>5 DEF BridgeInv, WaitersInv, BridgeTypeOK
    <3>2. \A r \in Requests : dispatches'[r].at \in {"none", "signed"} => dispatches'[r].answer = None
      BY <2>5 DEF BridgeInv, WaitersInv
    <3>3. \A r \in Requests : dispatches'[r].at \notin {"begun", "pushed", "answered"}
      BY <2>5 DEF Dispatch, BridgeAnswer
    <3> QED
      BY <2>1, <3>1, <3>2, <3>3 DEF WaitersInv
  <2> QED
    BY <2>4, <2>6, <2>7, <2>8 DEF BridgeInv
<1> QED
  BY <1>1, <1>2, <1>3, <1>4, <1>5, <1>6, <1>7, <1>8, <1>9, <1>10, <1>12, <1>13, <1>14, <1>15, <1>16,
     <1>17, <1>18, <1>19, <1>20, <1>21 DEF BridgeNext

\* Only a dispatch that is under way has a waiter, and no answer to one that waits is dropped, wherever the
\* worker is evicted, the desktop restarted and the pairing done again.
THEOREM WaitersAreKept == BridgeSpec => []RelayKeepsItsWaiters
<1>1. BridgeInit => BridgeInv
  <2> SUFFICES ASSUME BridgeInit PROVE BridgeInv
    OBVIOUS
  <2>1. links = <<>> /\ DOMAIN links = {} /\ handled = {} /\ upward = {} /\ waiters = {} /\ droppedAnswers = {}
        /\ dispatches = [r \in Requests |-> [at |-> "none", answer |-> None, secret |-> 0]]
    BY DEF BridgeInit
  <2>2. \A r : ~Travels(links, handled, upward, r)
    BY <2>1 DEF Travels, OnLine
  <2>3. \A l, i, r : ~OnLine(links, l, i, r)
    BY <2>1 DEF OnLine
  <2>4. dispatches \in [Requests -> Dispatch] /\ links \in Seq(Link)
    BY <2>1 DEF Dispatch
  <2>5. BridgeTypeOK
    BY <2>1, <2>4 DEF BridgeInit, BridgeTypeOK
  <2>6. InOnePlace(links, handled, upward) /\ NotYetAnswered(links, handled, upward, dispatches)
    BY <2>1, <2>2, <2>3 DEF InOnePlace, NotYetAnswered
  <2>7. WaitersInv
    BY <2>1 DEF WaitersInv
  <2> QED
    BY <2>5, <2>6, <2>7 DEF BridgeInv
<1>2. BridgeInv => RelayKeepsItsWaiters
  <2> SUFFICES ASSUME BridgeInv PROVE RelayKeepsItsWaiters
    OBVIOUS
  <2>1. \A r \in waiters : dispatches[r].at \in {"begun", "pushed", "expired"}
    BY DEF BridgeInv, WaitersInv
  <2>2. \A r \in droppedAnswers : dispatches[r].at \notin {"begun", "pushed", "answered"}
    BY DEF BridgeInv, WaitersInv
  <2> QED
    BY <2>1, <2>2 DEF RelayKeepsItsWaiters
<1> QED
  BY <1>1, <1>2, BridgeInductive, PTL DEF BridgeSpec

-----------------------------------------------------------------------------
(* A run in the browser lane. *)

FieldChange == [field : Fields, from : Contents, to : Contents]
Undone == [change : FieldChange, before : Contents, wrote : Contents]
PlanStep ==
  [kind : {"focus", "read", "set", "select"}, change : FieldChange] \cup [kind : {"save"}, change : {None}]

LaneTypeOK ==
  /\ controls \in [Fields -> Controls] /\ changes \in Seq(FieldChange)
  /\ page \in [Fields -> Contents] /\ record \in [Fields -> Contents]
  /\ steps \in Seq(PlanStep) /\ at \in Nat \ {0}
  /\ lane \in {"diff", "gate", "running", "done", "reverting", "reverted", "refused"}
  /\ outcome \in [halted : BOOLEAN, writes : Nat, verified : BOOLEAN]
  /\ revertable \in Seq(Undone) /\ held \in [Fields -> Contents \cup {None}]
  /\ touched \subseteq Fields /\ edits \in Nat

WritesField(step) == step.kind \in {"set", "select"}
FieldsApart(list) == \A i, j \in DOMAIN list : list[i].field = list[j].field => i = j
WrittenOnce(planned) ==
  \A k, l \in DOMAIN planned :
    WritesField(planned[k]) /\ WritesField(planned[l]) /\ planned[k].change.field = planned[l].change.field => k = l

\* A plan is of changes to different fields, and nothing is there to undo before it runs.
DiffInv ==
  /\ lane \notin {"diff", "refused"} => FieldsApart(changes)
  /\ lane \in {"diff", "gate", "refused"} => steps = <<>> /\ revertable = <<>>

\* The plan that runs is of the changes shown, and writes no field twice.
RunInv ==
  lane \in {"running", "done"} =>
    /\ WrittenOnce(steps)
    /\ \A k \in DOMAIN steps : steps[k].kind # "save" => \E i \in DOMAIN changes : steps[k].change = changes[i]

\* What is there to undo is a change shown, with what the field held; while the plan runs, its write is behind.
UndoInv ==
  \A i \in DOMAIN revertable :
    /\ \E j \in DOMAIN changes : revertable[i].change = changes[j]
    /\ revertable[i].wrote = revertable[i].change.to
    /\ revertable[i].before = held[revertable[i].change.field]
    /\ lane = "running" =>
         \E k \in DOMAIN steps :
           k < at /\ WritesField(steps[k]) /\ steps[k].change.field = revertable[i].change.field

\* A revert writes what the fields held, where they have what the run wrote, and saves nothing; it has a write for
\* everything there is to undo.
BackPlanInv ==
  lane \in {"reverting", "reverted"} =>
    /\ \A k \in DOMAIN steps :
         /\ steps[k].kind # "save" /\ steps[k].change.to = held[steps[k].change.field]
         /\ \E i \in DOMAIN changes : steps[k].change.field = changes[i].field /\ steps[k].change.from = changes[i].to
    /\ \A i \in DOMAIN Restorable :
         \E k \in DOMAIN steps : WritesField(steps[k]) /\ steps[k].change.field = Restorable[i].change.field

\* What a revert has written so far stands, unless somebody touched the field since.
BackInv ==
  lane \in {"reverting", "reverted"} /\ ~outcome.halted =>
    /\ \A k \in DOMAIN steps :
         k < at /\ WritesField(steps[k]) =>
           steps[k].change.field \in touched \/ page[steps[k].change.field] = held[steps[k].change.field]
    /\ lane = "reverted" => at > Len(steps)

LaneInv == LaneTypeOK /\ DiffInv /\ RunInv /\ UndoInv /\ BackPlanInv /\ BackInv

\* A plan has steps for the changes it is of, for each a write, and for no field two; it saves only when told to.
LEMMA PlanIs ==
  ASSUME NEW list \in Seq(FieldChange), NEW saves \in BOOLEAN, controls \in [Fields -> Controls]
  PROVE  /\ PlanSteps(list, saves) \in Seq(PlanStep)
         /\ \A k \in DOMAIN PlanSteps(list, saves) :
              IF PlanSteps(list, saves)[k].kind = "save" THEN saves
              ELSE \E i \in DOMAIN list : PlanSteps(list, saves)[k].change = list[i]
         /\ \A i \in DOMAIN list :
              \E k \in DOMAIN PlanSteps(list, saves) :
                WritesField(PlanSteps(list, saves)[k]) /\ PlanSteps(list, saves)[k].change = list[i]
         /\ FieldsApart(list) => WrittenOnce(PlanSteps(list, saves))
<1> DEFINE body == [i \in DOMAIN list |-> StepsFor(list[i])]
           front == FlattenSeq(body)
           reads == [i \in DOMAIN list |-> Step("read", list[i])]
           tail == IF saves THEN Confirms(list) ELSE <<>>
<1>0. Len(list) \in Nat /\ DOMAIN list = 1..Len(list) /\ \A i \in DOMAIN list : list[i] \in FieldChange
  BY LenProperties, Elements
\* The steps of one change.
<1>1. ASSUME NEW i \in DOMAIN list
      PROVE  /\ body[i] \in Seq(PlanStep)
             /\ \A j \in DOMAIN body[i] : body[i][j].kind # "save" /\ body[i][j].change = list[i]
             /\ \E j \in DOMAIN body[i] : WritesField(body[i][j])
             /\ \A j, l \in DOMAIN body[i] : WritesField(body[i][j]) /\ WritesField(body[i][l]) => j = l
  <2> DEFINE c == list[i]
  <2>0. c \in FieldChange /\ body[i] = StepsFor(c)
    BY <1>0
  <2> HIDE DEF c
  <2>1. \A kind \in {"focus", "read", "set", "select"} : Step(kind, c) \in PlanStep
    BY <2>0 DEF Step, PlanStep
  <2>2. CASE controls[c.field].role = "combobox"
    <3>1. body[i] = <<Step("focus", c), Step("read", c), Step("select", c), Step("read", c)>>
      BY <2>0, <2>2 DEF StepsFor
    <3> HIDE DEF body
    <3>2. /\ DOMAIN body[i] = 1..4 /\ body[i] \in Seq(PlanStep)
          /\ body[i][1] = Step("focus", c) /\ body[i][2] = Step("read", c)
          /\ body[i][3] = Step("select", c) /\ body[i][4] = Step("read", c)
      BY <2>1, <3>1
    <3> QED BY <3>2 DEF Step, WritesField, c
  <2>3. CASE controls[c.field].role # "combobox"
    <3>1. body[i] = <<Step("focus", c), Step("set", c), Step("read", c)>>
      BY <2>0, <2>3 DEF StepsFor
    <3> HIDE DEF body
    <3>2. /\ DOMAIN body[i] = 1..3 /\ body[i] \in Seq(PlanStep)
          /\ body[i][1] = Step("focus", c) /\ body[i][2] = Step("set", c) /\ body[i][3] = Step("read", c)
      BY <2>1, <3>1
    <3> QED BY <3>2 DEF Step, WritesField, c
  <2> QED BY <2>2, <2>3
<1>2. body \in Seq(Seq(PlanStep)) /\ Len(body) = Len(list) /\ DOMAIN body = DOMAIN list
  <2>1. body \in [DOMAIN list -> Seq(PlanStep)]
    BY <1>1
  <2> HIDE DEF body
  <2> QED BY <2>1, SameLength
<1> HIDE DEF body
<1>3. front \in Seq(PlanStep) /\ Flat(front, body, Len(body))
  BY <1>2, FlattenIs
<1>4. PICK row, col : FlatAt(front, body, Len(body), row, col)
  BY <1>3 DEF Flat
<1>5. /\ \A k \in DOMAIN front : row[k] \in DOMAIN list /\ col[k] \in DOMAIN body[row[k]] /\ front[k] = body[row[k]][col[k]]
      /\ \A k, l \in DOMAIN front : row[k] = row[l] /\ col[k] = col[l] => k = l
      /\ \A i \in DOMAIN list : \A j \in DOMAIN body[i] : \E k \in DOMAIN front : row[k] = i /\ col[k] = j
  BY <1>0, <1>2, <1>4 DEF FlatAt
<1> HIDE DEF front
\* What comes after them.
<1>6. /\ tail \in Seq(PlanStep)
      /\ \A k \in DOMAIN tail :
           /\ ~WritesField(tail[k])
           /\ IF tail[k].kind = "save" THEN saves ELSE \E i \in DOMAIN list : tail[k].change = list[i]
  <2>1. CASE ~saves
    <3>1. tail = <<>>
      BY <2>1
    <3> HIDE DEF tail
    <3> QED BY <3>1
  <2>2. CASE saves
    <3>1. /\ reads \in Seq(PlanStep) /\ DOMAIN reads = DOMAIN list
          /\ \A k \in DOMAIN reads : reads[k].kind = "read" /\ reads[k].change = list[k]
      <4>1. \A i \in DOMAIN list : Step("read", list[i]) \in PlanStep
        BY <1>0 DEF Step, PlanStep
      <4>2. reads \in [DOMAIN list -> PlanStep]
        BY <4>1
      <4>3. \A k \in DOMAIN list : reads[k].kind = "read" /\ reads[k].change = list[k]
        BY DEF Step
      <4> HIDE DEF reads
      <4> QED BY <4>2, <4>3, SameLength
    <3> DEFINE save == <<Step("save", None)>>
    <3>2. save \in Seq(PlanStep) /\ Len(save) = 1 /\ save[1].kind = "save"
      BY DEF Step, PlanStep
    <3>3. tail = save \o reads
      BY <2>2 DEF Confirms
    <3> HIDE DEF tail, save, reads
    <3>4. Len(reads) \in Nat /\ DOMAIN reads = 1..Len(reads)
      BY <3>1, LenProperties
    <3>5. /\ tail \in Seq(PlanStep) /\ Len(tail) = 1 + Len(reads)
          /\ \A k \in 1..(1 + Len(reads)) : tail[k] = IF k <= 1 THEN save[k] ELSE reads[k - 1]
      <4>1. /\ save \o reads \in Seq(PlanStep) /\ Len(save \o reads) = Len(save) + Len(reads)
            /\ \A k \in 1..(Len(save) + Len(reads)) :
                 (save \o reads)[k] = IF k <= Len(save) THEN save[k] ELSE reads[k - Len(save)]
        <5>1. save \in Seq(PlanStep) /\ reads \in Seq(PlanStep)
          BY <3>1, <3>2
        <5> QED
          BY ONLY <5>1, ConcatProperties
      <4> QED BY <3>2, <3>3, <4>1
    <3>6. DOMAIN tail = 1..(1 + Len(reads))
      BY <3>5, LenProperties
    <3>7. ASSUME NEW k \in DOMAIN tail
          PROVE  \/ tail[k].kind = "save"
                 \/ \E i \in DOMAIN list : tail[k].kind = "read" /\ tail[k].change = list[i]
      <4>1. CASE k = 1
        BY <3>2, <3>5, <3>6, <4>1
      <4>2. CASE k # 1
        <5>1. k - 1 \in DOMAIN reads /\ tail[k] = reads[k - 1]
          BY <3>4, <3>5, <3>6, <4>2
        <5> QED BY <3>1, <5>1
      <4> QED BY <4>1, <4>2
    <3> QED BY <2>2, <3>5, <3>7 DEF WritesField
  <2> QED BY <2>1, <2>2
<1> DEFINE planned == front \o tail
<1>7. PlanSteps(list, saves) = planned
  BY DEF PlanSteps, body, front
<1> HIDE DEF tail
<1>8. /\ planned \in Seq(PlanStep)
      /\ \A k \in DOMAIN front : k \in DOMAIN planned /\ planned[k] = front[k]
      /\ \A k \in DOMAIN planned : k \in DOMAIN front \/ \E l \in DOMAIN tail : planned[k] = tail[l]
  <2> DEFINE m == Len(front)
             n == Len(tail)
  <2>1. m \in Nat /\ n \in Nat /\ DOMAIN front = 1..m /\ DOMAIN tail = 1..n
    BY <1>3, <1>6, LenProperties
  <2>2. /\ planned \in Seq(PlanStep) /\ Len(planned) = m + n
        /\ \A k \in 1..(m + n) : planned[k] = IF k <= m THEN front[k] ELSE tail[k - m]
    BY <1>3, <1>6, ConcatProperties
  <2>3. DOMAIN planned = 1..(m + n)
    BY <2>2, LenProperties
  <2> HIDE DEF planned, m, n
  <2>4. \A k \in DOMAIN front : k \in DOMAIN planned /\ planned[k] = front[k]
    BY <2>1, <2>2, <2>3
  <2>5. ASSUME NEW k \in DOMAIN planned PROVE k \in DOMAIN front \/ \E l \in DOMAIN tail : planned[k] = tail[l]
    <3>1. CASE k <= m
      BY <2>1, <2>3, <3>1
    <3>2. CASE ~(k <= m)
      <4>1. k - m \in DOMAIN tail /\ planned[k] = tail[k - m]
        BY <2>1, <2>2, <2>3, <3>2
      <4> QED BY <4>1
    <3> QED BY <3>1, <3>2
  <2> QED BY <2>2, <2>4, <2>5
<1> HIDE DEF planned
<1>9. \A k \in DOMAIN front : front[k].kind # "save" /\ front[k].change = list[row[k]]
  BY <1>1, <1>5
<1>10. \A k \in DOMAIN planned : IF planned[k].kind = "save" THEN saves ELSE \E i \in DOMAIN list : planned[k].change = list[i]
  <2> SUFFICES ASSUME NEW k \in DOMAIN planned
               PROVE  IF planned[k].kind = "save" THEN saves ELSE \E i \in DOMAIN list : planned[k].change = list[i]
    OBVIOUS
  <2>1. CASE k \in DOMAIN front
    <3>1. planned[k] = front[k] /\ row[k] \in DOMAIN list
      BY <1>5, <1>8, <2>1
    <3> QED BY <1>9, <2>1, <3>1
  <2>2. CASE \E l \in DOMAIN tail : planned[k] = tail[l]
    BY <1>6, <2>2
  <2> QED BY <1>8, <2>1, <2>2
<1>11. ASSUME NEW i \in DOMAIN list PROVE \E k \in DOMAIN planned : WritesField(planned[k]) /\ planned[k].change = list[i]
  <2>1. PICK j \in DOMAIN body[i] : WritesField(body[i][j])
    BY <1>1
  <2>2. PICK k \in DOMAIN front : row[k] = i /\ col[k] = j
    BY <1>5
  <2>3. k \in DOMAIN planned /\ planned[k] = body[i][j] /\ planned[k].change = list[i]
    BY <1>5, <1>8, <1>9, <2>2
  <2> QED BY <2>1, <2>3
<1>12. ASSUME FieldsApart(list) PROVE WrittenOnce(planned)
  <2> SUFFICES ASSUME NEW k \in DOMAIN planned, NEW l \in DOMAIN planned,
                      WritesField(planned[k]), WritesField(planned[l]), planned[k].change.field = planned[l].change.field
               PROVE  k = l
    BY DEF WrittenOnce
  <2>1. k \in DOMAIN front /\ l \in DOMAIN front /\ planned[k] = front[k] /\ planned[l] = front[l]
    BY <1>6, <1>8
  <2>2. row[k] = row[l]
    BY <1>5, <1>9, <1>12, <2>1 DEF FieldsApart
  <2>3. col[k] = col[l]
    <3>1. /\ row[k] \in DOMAIN list /\ col[k] \in DOMAIN body[row[k]] /\ planned[k] = body[row[k]][col[k]]
          /\ col[l] \in DOMAIN body[row[k]] /\ planned[l] = body[row[k]][col[l]]
      BY <1>5, <2>1, <2>2
    <3>2. WritesField(body[row[k]][col[k]]) /\ WritesField(body[row[k]][col[l]])
      BY <3>1
    <3> QED BY <1>1, <3>1, <3>2, SMTT(30)
  <2> QED BY <1>5, <2>1, <2>2, <2>3
<1> QED
  BY <1>7, <1>8, <1>10, <1>11, <1>12

\* What a revert is of: each entry undoes one of the run's, and each that changed something has one.
LEMMA UndoingIs ==
  ASSUME revertable \in Seq(Undone)
  PROVE  /\ Undoing \in Seq(FieldChange)
         /\ \A i \in DOMAIN Undoing :
              \E j \in DOMAIN revertable :
                Undoing[i] = [field |-> revertable[j].change.field, from |-> revertable[j].wrote,
                              to |-> revertable[j].before]
         /\ \A i \in DOMAIN Restorable : \E k \in DOMAIN Undoing : Undoing[k].field = Restorable[i].change.field
<1> DEFINE n == Len(Restorable)
           back == Reverse(Restorable)
           Of(u) == [field |-> u.change.field, from |-> u.wrote, to |-> u.before]
<1>1. /\ Restorable \in Seq(Undone)
      /\ \A i \in DOMAIN Restorable : \E j \in DOMAIN revertable : Restorable[i] = revertable[j]
  <2> DEFINE P == {i \in DOMAIN revertable : revertable[i].before # revertable[i].wrote}
             q == Chosen(revertable, P)
  <2>1. Restorable = q
    BY DEF Restorable
  <2> HIDE DEF P, q
  <2>2. q \in Seq(Undone) /\ \A i \in DOMAIN q : \E j \in DOMAIN revertable : q[i] = revertable[j]
    <3>1. Chosen(revertable, P) \in Seq(Undone)
      BY ChosenIs
    <3>2. PICK pos \in [DOMAIN Chosen(revertable, P) -> DOMAIN revertable] :
            \A k \in DOMAIN Chosen(revertable, P) : Chosen(revertable, P)[k] = revertable[pos[k]]
      BY ChosenIs
    <3>3. \A i \in DOMAIN q : pos[i] \in DOMAIN revertable /\ q[i] = revertable[pos[i]]
      BY <3>2 DEF q
    <3> QED BY <3>1, <3>3 DEF q
  <2> QED BY <2>1, <2>2
<1>2. n \in Nat /\ DOMAIN Restorable = 1..n
  BY <1>1, LenProperties
<1>3. back = [i \in 1..n |-> Restorable[(n - i) + 1]]
  BY DEF Reverse
<1>4. Undoing = [i \in 1..n |-> Of(Restorable[(n - i) + 1])]
  <2>1. DOMAIN back = 1..n /\ \A i \in 1..n : back[i] = Restorable[(n - i) + 1]
    BY <1>3
  <2>2. Undoing = [i \in DOMAIN back |-> Of(back[i])]
    BY DEF Undoing
  <2> HIDE DEF back, Of
  <2> QED BY <2>1, <2>2
<1>5. \A i \in 1..n : (n - i) + 1 \in 1..n /\ (n - ((n - i) + 1)) + 1 = i
  BY <1>2
<1>6. \A u \in Undone : Of(u) \in FieldChange
  BY DEF Undone, FieldChange
<1>7. \A i \in 1..n : Restorable[i] \in Undone
  BY <1>1, <1>2, Elements
<1> HIDE DEF n, back, Of
<1>8. \A i \in 1..n : Undoing[i] = Of(Restorable[(n - i) + 1])
  BY <1>4
<1>9. DOMAIN Undoing = 1..n /\ Undoing \in Seq(FieldChange)
  <2>1. Undoing \in [1..n -> FieldChange]
    BY <1>4, <1>5, <1>6, <1>7
  <2> QED BY <1>2, <2>1, SeqDef
<1>10. ASSUME NEW i \in DOMAIN Undoing
       PROVE  \E j \in DOMAIN revertable : Undoing[i] = Of(revertable[j])
  BY <1>1, <1>2, <1>5, <1>8, <1>9
<1>11. ASSUME NEW i \in DOMAIN Restorable
       PROVE  \E k \in DOMAIN Undoing : Undoing[k].field = Restorable[i].change.field
  <2>1. PICK k \in 1..n : (n - k) + 1 = i
    BY <1>2, <1>5
  <2>2. Undoing[k] = Of(Restorable[i])
    BY <1>8, <2>1
  <2> QED BY <1>9, <2>1, <2>2 DEF Of
<1> QED
  BY <1>9, <1>10, <1>11 DEF Of

\* The step the executor is at.
LEMMA CurrentStep ==
  ASSUME LaneTypeOK, Executing
  PROVE  /\ at \in DOMAIN steps /\ steps[at] \in PlanStep /\ at + 1 \in Nat \ {0} /\ lane \in {"running", "reverting"}
         /\ WritesField(steps[at]) => steps[at].kind # "save"
         /\ steps[at].kind # "save" => steps[at].change \in FieldChange /\ steps[at].change.field \in Fields
         /\ steps[at].kind # "save" /\ Writes(steps[at]) => WritesField(steps[at])
<1>1. at \in DOMAIN steps /\ steps[at] \in PlanStep /\ at + 1 \in Nat \ {0}
  BY LenProperties, Elements DEF LaneTypeOK, Executing
<1> QED
  BY <1>1 DEF PlanStep, FieldChange, WritesField, Writes, Executing

\* What the page may do with a step: leave everything, set the field, or save.
Handled ==
  \/ UNCHANGED <<page, record, held>>
  \/ WritesField(steps[at]) /\ PageTakes(steps[at]) /\ PageSets(steps[at])
  \/ steps[at].kind = "save" /\ PageSaves

\* What the page holds after a request is a content of each field.
LEMMA HandledTyped ==
  ASSUME LaneTypeOK, Executing, Handled
  PROVE  page' \in [Fields -> Contents] /\ record' \in [Fields -> Contents] /\ held' \in [Fields -> Contents \cup {None}]
<1>1. CASE UNCHANGED <<page, record, held>>
  BY <1>1 DEF LaneTypeOK
<1>2. CASE WritesField(steps[at]) /\ PageSets(steps[at])
  <2>1. steps[at].change \in FieldChange /\ steps[at].change.field \in Fields
    BY <1>2, CurrentStep
  <2>2. steps[at].change.to \in Contents
    BY <2>1 DEF FieldChange
  <2> QED BY <1>2, <2>1, <2>2 DEF PageSets, LaneTypeOK
<1>3. CASE PageSaves
  BY <1>3 DEF PageSaves, LaneTypeOK
<1> QED BY <1>1, <1>2, <1>3 DEF Handled

\* An answered, a refused and a lost step are all of a plan under way, and the page took the request or did not.
LEMMA StepsAreHandled ==
  ASSUME LaneTypeOK, StepAnswered \/ StepRefused \/ StepLost
  PROVE  Executing /\ Handled
<1>1. Executing
  BY DEF StepAnswered, StepRefused, StepLost
<1>2. CASE StepAnswered
  BY <1>1, <1>2, CurrentStep DEF StepAnswered, Handled
<1>3. CASE StepRefused
  BY <1>3 DEF StepRefused, Handled
<1>4. CASE StepLost
  BY <1>4 DEF StepLost, Handled, WritesField
<1> QED BY <1>1, <1>2, <1>3, <1>4

\* The types of the lane's state hold throughout.
LEMMA LaneTypeStays ==
  ASSUME LaneTypeOK, [LaneNext]_laneVars
  PROVE  LaneTypeOK'
<1>1. CASE PreviewBrowserPlan
  <2>1. \A list \in SeqOf(FieldChange, 2) : list \in Seq(FieldChange)
    <3>1. ASSUME NEW m \in 0..2, NEW list \in [1..m -> FieldChange] PROVE list \in Seq(FieldChange)
      BY SeqDef
    <3> QED BY <3>1 DEF SeqOf
  <2>2. changes' \in Seq(FieldChange) /\ lane' \in {"gate", "refused"}
    BY <1>1, <2>1 DEF PreviewBrowserPlan, FieldChange
  <2> QED BY <1>1, <2>2 DEF PreviewBrowserPlan, LaneTypeOK
<1>2. CASE ApprovePlan
  <2>1. PlanSteps(changes, TRUE) \in Seq(PlanStep)
    BY PlanIs DEF LaneTypeOK
  <2>2. steps' \in Seq(PlanStep) /\ at' = 1 /\ touched' = {} /\ lane' = "running"
    BY <1>2, <2>1 DEF ApprovePlan
  <2>3. UNCHANGED <<controls, changes, page, record, outcome, revertable, edits, held>>
    BY <1>2 DEF ApprovePlan
  <2> QED BY <2>2, <2>3 DEF LaneTypeOK
<1>3. CASE StepAnswered
  <2>1. Executing /\ Handled
    BY <1>3, StepsAreHandled
  <2>2. page' \in [Fields -> Contents] /\ record' \in [Fields -> Contents] /\ held' \in [Fields -> Contents \cup {None}]
    BY <2>1, HandledTyped
  <2>3. revertable' \in Seq(Undone)
    <3>1. CASE revertable' = revertable
      BY <3>1 DEF LaneTypeOK
    <3>2. CASE revertable' = Append(revertable, Undo(steps[at])) /\ steps[at].kind # "save"
      <4>1. steps[at].change \in FieldChange /\ steps[at].change.field \in Fields /\ steps[at].change.to \in Contents
        BY <2>1, <3>2, CurrentStep DEF FieldChange
      <4>2. Undo(steps[at]) \in Undone
        BY <4>1 DEF Undo, Undone, LaneTypeOK
      <4>3. revertable \in Seq(Undone)
        BY DEF LaneTypeOK
      <4> QED BY <3>2, <4>2, <4>3, Appended
    <3> QED BY <1>3, <3>1, <3>2 DEF StepAnswered
  <2>4. outcome' \in [halted : BOOLEAN, writes : Nat, verified : BOOLEAN]
    <3>0. outcome.halted \in BOOLEAN /\ outcome.writes \in Nat /\ outcome.verified \in BOOLEAN
      BY DEF LaneTypeOK
    <3>1. CASE outcome' = outcome \/ outcome' = [outcome EXCEPT !.writes = @ + 1]
      BY <3>1, SMTT(30) DEF LaneTypeOK
    <3>2. CASE Writes(steps[at]) /\ steps[at].kind # "save"
      <4> DEFINE ok == page'[steps[at].change.field] = steps[at].change.to
      <4>1. PICK halted \in BOOLEAN, verified \in BOOLEAN : halted = ~ok /\ verified = (outcome.verified /\ ok)
        BY Zenon
      <4>2. outcome' = [halted |-> ~ok, writes |-> outcome.writes + 1, verified |-> outcome.verified /\ ok]
        BY <1>3, <3>2, Zenon DEF StepAnswered
      <4>3. outcome' = [halted |-> halted, writes |-> outcome.writes + 1, verified |-> verified]
        BY <4>1, <4>2, Zenon
      <4> QED BY <3>0, <4>3
    <3> QED BY <1>3, <3>1, <3>2 DEF StepAnswered
  <2>5. at' \in Nat \ {0} /\ UNCHANGED <<controls, changes, steps, lane, edits, touched>>
    BY <1>3, <2>1, CurrentStep DEF StepAnswered
  <2> QED BY <2>2, <2>3, <2>4, <2>5 DEF LaneTypeOK
<1>4. CASE StepRefused
  BY <1>4 DEF StepRefused, Halt, LaneTypeOK, Writes
<1>5. CASE StepLost
  <2>1. page' \in [Fields -> Contents] /\ record' \in [Fields -> Contents] /\ held' \in [Fields -> Contents \cup {None}]
    BY <1>5, StepsAreHandled, HandledTyped
  <2>2. outcome' \in [halted : BOOLEAN, writes : Nat, verified : BOOLEAN]
    BY <1>5 DEF StepLost, Halt, LaneTypeOK, Writes
  <2>3. UNCHANGED <<controls, changes, steps, at, lane, revertable, edits, touched>>
    BY <1>5 DEF StepLost
  <2> QED BY <2>1, <2>2, <2>3 DEF LaneTypeOK
<1>6. CASE RunEnds
  BY <1>6 DEF RunEnds, LaneTypeOK
<1>7. CASE Revert
  <2>1. Undoing \in Seq(FieldChange)
    BY UndoingIs DEF LaneTypeOK
  <2>2. PlanSteps(Undoing, FALSE) \in Seq(PlanStep)
    BY <2>1, PlanIs DEF LaneTypeOK
  <2>3. steps' \in Seq(PlanStep) /\ at' = 1 /\ touched' = {} /\ lane' = "reverting"
    BY <1>7, <2>2 DEF Revert
  <2>4. outcome' \in [halted : BOOLEAN, writes : Nat, verified : BOOLEAN]
    BY <1>7 DEF Revert, Clean
  <2>5. UNCHANGED <<controls, changes, page, record, revertable, edits, held>>
    BY <1>7 DEF Revert
  <2> QED BY <2>3, <2>4, <2>5 DEF LaneTypeOK
<1>8. CASE SomebodyEdits
  BY <1>8 DEF SomebodyEdits, LaneTypeOK
<1>9. CASE UNCHANGED laneVars
  BY <1>9 DEF laneVars, LaneTypeOK
<1> QED
  BY <1>1, <1>2, <1>3, <1>4, <1>5, <1>6, <1>7, <1>8, <1>9 DEF LaneNext

\* The diff that is shown stays the diff that is written.
LEMMA DiffStays ==
  ASSUME LaneInv, [LaneNext]_laneVars
  PROVE  DiffInv'
<1> USE DEF LaneInv, LaneTypeOK, DiffInv
<1>1. CASE PreviewBrowserPlan
  <2>1. /\ lane' \in {"gate", "refused"} /\ lane = "diff" /\ UNCHANGED <<steps, revertable>>
        /\ lane' # "refused" => ~PlanRefused(changes')
    BY <1>1 DEF PreviewBrowserPlan
  <2>2. lane' # "refused" => FieldsApart(changes)'
    BY <2>1 DEF PlanRefused, FieldsApart
  <2> QED BY <2>1, <2>2
<1>2. CASE ApprovePlan
  BY <1>2 DEF ApprovePlan, FieldsApart
<1>3. CASE StepAnswered \/ StepRefused \/ StepLost
  <2>1. lane \in {"running", "reverting"} /\ lane' = lane /\ changes' = changes
    BY <1>3 DEF StepAnswered, StepRefused, StepLost, Executing
  <2> QED BY <2>1 DEF FieldsApart
<1>4. CASE RunEnds
  BY <1>4 DEF RunEnds, FieldsApart
<1>5. CASE Revert
  BY <1>5 DEF Revert, FieldsApart
<1>6. CASE SomebodyEdits
  BY <1>6 DEF SomebodyEdits, FieldsApart
<1>7. CASE UNCHANGED laneVars
  BY <1>7 DEF laneVars, FieldsApart
<1> QED
  BY <1>1, <1>2, <1>3, <1>4, <1>5, <1>6, <1>7 DEF LaneNext

\* The plan that runs stays a plan of the changes shown, that writes no field twice.
LEMMA RunStays ==
  ASSUME LaneInv, [LaneNext]_laneVars
  PROVE  RunInv'
<1>1. CASE PreviewBrowserPlan
  BY <1>1 DEF PreviewBrowserPlan, RunInv
<1>2. CASE ApprovePlan
  <2>1. FieldsApart(changes) /\ changes \in Seq(FieldChange) /\ controls \in [Fields -> Controls]
    BY <1>2 DEF ApprovePlan, LaneInv, LaneTypeOK, DiffInv
  <2> DEFINE planned == PlanSteps(changes, TRUE)
  <2>2. /\ WrittenOnce(planned)
        /\ \A k \in DOMAIN planned : planned[k].kind # "save" => \E i \in DOMAIN changes : planned[k].change = changes[i]
    BY <2>1, PlanIs
  <2>3. steps' = planned /\ changes' = changes
    BY <1>2 DEF ApprovePlan
  <2> HIDE DEF planned
  <2> QED BY <2>2, <2>3 DEF RunInv, WrittenOnce
<1>3. CASE StepAnswered \/ StepRefused \/ StepLost
  <2>1. lane' = lane /\ changes' = changes /\ steps' = steps
    BY <1>3 DEF StepAnswered, StepRefused, StepLost
  <2> QED BY <2>1 DEF LaneInv, RunInv, WrittenOnce
<1>4. CASE RunEnds
  <2>1. (lane' = "done" => lane = "running") /\ lane' \in {"done", "reverted"} /\ changes' = changes /\ steps' = steps
    BY <1>4 DEF RunEnds
  <2> QED BY <2>1 DEF LaneInv, RunInv, WrittenOnce
<1>5. CASE Revert
  BY <1>5 DEF Revert, RunInv
<1>6. CASE SomebodyEdits \/ UNCHANGED laneVars
  <2>1. lane' = lane /\ changes' = changes /\ steps' = steps
    BY <1>6 DEF SomebodyEdits, laneVars
  <2> QED BY <2>1 DEF LaneInv, RunInv, WrittenOnce
<1> QED
  BY <1>1, <1>2, <1>3, <1>4, <1>5, <1>6 DEF LaneNext

\* What a step does to the history: while the plan runs, only the field it writes is recorded.
LEMMA HeldMoves ==
  ASSUME LaneInv, Executing, Handled
  PROVE  /\ lane = "reverting" => held' = held
         /\ held' # held =>
              /\ WritesField(steps[at]) /\ steps[at].change.field \in Fields
              /\ held' = [held EXCEPT ![steps[at].change.field] = page[steps[at].change.field]]
<1>1. WritesField(steps[at]) => steps[at].change.field \in Fields
  BY CurrentStep DEF LaneInv
<1> QED BY <1>1 DEF Handled, PageSets, PageSaves

\* What is there to undo stays what the run wrote and what the field held before.
LEMMA UndoStays ==
  ASSUME LaneInv, [LaneNext]_laneVars
  PROVE  UndoInv'
<1> DEFINE Good(i) ==
             /\ \E j \in DOMAIN changes : revertable[i].change = changes[j]
             /\ revertable[i].wrote = revertable[i].change.to
             /\ revertable[i].before = held[revertable[i].change.field]
             /\ lane = "running" =>
                  \E k \in DOMAIN steps :
                    k < at /\ WritesField(steps[k]) /\ steps[k].change.field = revertable[i].change.field
<1>0. /\ \A i \in DOMAIN revertable : Good(i)
      /\ revertable \in Seq(Undone) /\ held \in [Fields -> Contents \cup {None}]
  BY DEF LaneInv, LaneTypeOK, UndoInv
<1>f. \A i \in DOMAIN revertable : revertable[i].change.field \in Fields
  <2>1. \A i \in DOMAIN revertable : revertable[i] \in Undone
    BY <1>0, Elements
  <2> QED BY <2>1 DEF Undone, FieldChange
<1>s. SUFFICES ASSUME NEW i \in DOMAIN revertable' PROVE Good(i)'
  BY DEF UndoInv
<1>1. CASE PreviewBrowserPlan \/ ApprovePlan
  <2>1. revertable' = revertable /\ lane \in {"diff", "gate"}
    BY <1>1 DEF PreviewBrowserPlan, ApprovePlan
  <2>2. revertable' = <<>>
    BY <2>1 DEF LaneInv, DiffInv
  <2> QED BY <1>s, <2>2
<1>2. CASE StepAnswered \/ StepRefused \/ StepLost
  <2>1. Executing /\ Handled
    BY <1>2, StepsAreHandled DEF LaneInv
  <2>2. /\ changes' = changes /\ steps' = steps /\ lane' = lane /\ at' \in {at, at + 1} /\ at \in Nat
        /\ at \in DOMAIN steps
    BY <1>2, <2>1, CurrentStep DEF StepAnswered, StepRefused, StepLost, LaneInv, LaneTypeOK
  \* An earlier entry is of another field than the one written now.
  <2>3. ASSUME i \in DOMAIN revertable, revertable'[i] = revertable[i] PROVE Good(i)'
    <3>1. held'[revertable[i].change.field] = held[revertable[i].change.field]
      <4>1. CASE held' = held
        BY <4>1
      <4>2. CASE held' # held
        <5>1. /\ lane = "running" /\ WritesField(steps[at]) /\ steps[at].change.field \in Fields
              /\ held' = [held EXCEPT ![steps[at].change.field] = page[steps[at].change.field]]
          BY <2>1, <4>2, HeldMoves, CurrentStep DEF LaneInv
        <5>2. PICK k \in DOMAIN steps :
                k < at /\ WritesField(steps[k]) /\ steps[k].change.field = revertable[i].change.field
          BY <1>0, <2>3, <5>1
        <5>3. steps[at].change.field # revertable[i].change.field
          BY <2>2, <5>1, <5>2 DEF LaneInv, RunInv, WrittenOnce
        <5> QED BY <1>0, <1>f, <2>3, <5>1, <5>3
      <4> QED BY <4>1, <4>2
    <3>2. \A k \in DOMAIN steps : k < at => k < at'
      <4>1. \A k \in DOMAIN steps : k \in Nat
        BY LenProperties DEF LaneInv, LaneTypeOK
      <4> QED BY <2>2, <4>1
    <3>3. Good(i)
      BY <1>0, <2>3
    <3> QED BY <2>2, <2>3, <3>1, <3>2, <3>3
  <2>4. CASE revertable' = revertable
    BY <1>s, <2>3, <2>4
  <2>5. CASE revertable' # revertable
    <3>1. /\ StepAnswered /\ lane = "running" /\ WritesField(steps[at]) /\ PageSets(steps[at])
          /\ revertable' = Append(revertable, Undo(steps[at])) /\ at' = at + 1
      BY <1>2, <2>1, <2>5, CurrentStep DEF StepAnswered, StepRefused, StepLost, LaneInv
    <3> DEFINE u == Undo(steps[at])
    <3>2. /\ steps[at].change \in FieldChange /\ steps[at].change.field \in Fields /\ steps[at].change.to \in Contents
      BY <2>1, <3>1, CurrentStep DEF LaneInv, FieldChange
    <3>3. u \in Undone
      BY <3>2 DEF Undo, Undone, LaneInv, LaneTypeOK
    <3> HIDE DEF u
    <3>4. \/ i \in DOMAIN revertable /\ revertable'[i] = revertable[i]
          \/ revertable'[i] = u
      BY <1>0, <1>s, <3>1, <3>3, Appended DEF u
    <3>5. CASE revertable'[i] = u
      <4>1. u.change = steps[at].change /\ u.wrote = steps[at].change.to /\ u.before = page[steps[at].change.field]
        BY DEF u, Undo
      <4>2. held'[steps[at].change.field] = page[steps[at].change.field]
        BY <1>0, <3>1, <3>2 DEF PageSets
      <4>3. \E j \in DOMAIN changes : steps[at].change = changes[j]
        BY <2>1, <2>2, <3>1, CurrentStep DEF LaneInv, RunInv
      <4>4. at < at'
        BY <2>2, <3>1
      <4> QED BY <2>2, <3>1, <3>5, <4>1, <4>2, <4>3, <4>4
    <3> QED BY <2>3, <3>4, <3>5
  <2> QED BY <2>4, <2>5
<1>3. CASE RunEnds
  BY <1>0, <1>s, <1>3 DEF RunEnds
<1>4. CASE Revert
  BY <1>0, <1>s, <1>4 DEF Revert
<1>5. CASE SomebodyEdits \/ UNCHANGED laneVars
  <2>1. UNCHANGED <<changes, steps, at, lane, revertable, held>>
    BY <1>5 DEF SomebodyEdits, laneVars
  <2> QED BY <1>0, <1>s, <2>1
<1> QED
  BY <1>1, <1>2, <1>3, <1>4, <1>5 DEF LaneNext

\* The plan of a revert stays the plan that puts back what the run wrote.
LEMMA BackPlanStays ==
  ASSUME LaneInv, [LaneNext]_laneVars
  PROVE  BackPlanInv'
<1>1. CASE PreviewBrowserPlan \/ ApprovePlan
  BY <1>1 DEF PreviewBrowserPlan, ApprovePlan, BackPlanInv
<1>2. CASE lane \in {"reverting", "reverted"}
  <2>1. UNCHANGED <<steps, changes, revertable>>
    BY <1>2 DEF LaneNext, PreviewBrowserPlan, ApprovePlan, StepAnswered, StepRefused, StepLost, RunEnds, Revert,
                SomebodyEdits, laneVars
  <2>2. held' = held
    <3>1. CASE StepAnswered \/ StepRefused \/ StepLost
      <4>1. Executing /\ Handled
        BY <3>1, StepsAreHandled DEF LaneInv
      <4>2. lane = "reverting"
        BY <1>2, <4>1 DEF Executing
      <4> QED BY <4>1, <4>2, HeldMoves
    <3>2. CASE ~(StepAnswered \/ StepRefused \/ StepLost)
      BY <1>2, <3>2 DEF LaneNext, PreviewBrowserPlan, ApprovePlan, RunEnds, Revert, SomebodyEdits, laneVars
    <3> QED BY <3>1, <3>2
  <2>3. Restorable' = Restorable
    BY <2>1 DEF Restorable
  <2> QED BY <1>2, <2>1, <2>2, <2>3 DEF LaneInv, BackPlanInv
<1>3. CASE Revert
  <2>0. revertable \in Seq(Undone) /\ controls \in [Fields -> Controls]
    BY DEF LaneInv, LaneTypeOK
  <2> DEFINE planned == PlanSteps(Undoing, FALSE)
  <2>1. /\ Undoing \in Seq(FieldChange)
        /\ \A i \in DOMAIN Undoing :
             \E j \in DOMAIN revertable :
               Undoing[i] = [field |-> revertable[j].change.field, from |-> revertable[j].wrote,
                             to |-> revertable[j].before]
        /\ \A i \in DOMAIN Restorable : \E k \in DOMAIN Undoing : Undoing[k].field = Restorable[i].change.field
    BY <2>0, UndoingIs
  <2>2. /\ \A k \in DOMAIN planned : planned[k].kind # "save" /\ \E i \in DOMAIN Undoing : planned[k].change = Undoing[i]
        /\ \A i \in DOMAIN Undoing : \E k \in DOMAIN planned : WritesField(planned[k]) /\ planned[k].change = Undoing[i]
    BY <2>0, <2>1, PlanIs
  <2>3. steps' = planned /\ UNCHANGED <<changes, held, revertable>>
    BY <1>3 DEF Revert
  <2>4. Restorable' = Restorable
    BY <2>3 DEF Restorable
  <2> HIDE DEF planned
  <2>5. ASSUME NEW k \in DOMAIN planned
        PROVE  /\ planned[k].kind # "save" /\ planned[k].change.to = held[planned[k].change.field]
               /\ \E i \in DOMAIN changes : planned[k].change.field = changes[i].field /\ planned[k].change.from = changes[i].to
    <3>1. PICK i \in DOMAIN Undoing : planned[k].change = Undoing[i]
      BY <2>2
    <3>2. PICK j \in DOMAIN revertable :
            Undoing[i] = [field |-> revertable[j].change.field, from |-> revertable[j].wrote,
                          to |-> revertable[j].before]
      BY <2>1
    <3>3. /\ planned[k].change.field = revertable[j].change.field /\ planned[k].change.from = revertable[j].wrote
          /\ planned[k].change.to = revertable[j].before
      BY <3>1, <3>2
    <3> QED BY <2>2, <3>3 DEF LaneInv, UndoInv
  <2>6. ASSUME NEW i \in DOMAIN Restorable
        PROVE  \E k \in DOMAIN planned : WritesField(planned[k]) /\ planned[k].change.field = Restorable[i].change.field
    BY <2>1, <2>2
  <2> QED BY <2>3, <2>4, <2>5, <2>6 DEF BackPlanInv
<1>4. CASE lane' \notin {"reverting", "reverted"}
  BY <1>4 DEF BackPlanInv
<1>5. lane' \in {"reverting", "reverted"} => Revert \/ lane \in {"reverting", "reverted"}
  BY DEF LaneNext, PreviewBrowserPlan, ApprovePlan, StepAnswered, StepRefused, StepLost, RunEnds, Executing,
         SomebodyEdits, laneVars
<1> QED
  BY <1>2, <1>3, <1>4, <1>5

\* What a revert wrote stands.
LEMMA BackStays ==
  ASSUME LaneInv, [LaneNext]_laneVars
  PROVE  BackInv'
<1>1. CASE lane' \notin {"reverting", "reverted"} \/ outcome'.halted
  BY <1>1 DEF BackInv
<1>2. CASE Revert
  <2>1. \A k \in DOMAIN steps' : ~(k < 1)
    <3>1. steps' \in Seq(PlanStep)
      BY LaneTypeStays DEF LaneInv, LaneTypeOK
    <3> QED BY <3>1, LenProperties
  <2> QED BY <1>2, <2>1 DEF Revert, BackInv
<1>3. CASE StepAnswered /\ lane = "reverting" /\ ~outcome'.halted
  <2>1. Executing /\ Handled /\ UNCHANGED <<steps, lane, touched>> /\ at' = at + 1 /\ ~outcome.halted
    BY <1>3, StepsAreHandled DEF LaneInv, StepAnswered, Executing
  <2>2. held' = held
    BY <1>3, <2>1, HeldMoves
  <2>3. at \in DOMAIN steps /\ at \in Nat /\ \A k \in DOMAIN steps : k \in Nat /\ (k < at + 1 => k < at \/ k = at)
    BY <2>1, CurrentStep, LenProperties DEF LaneInv, LaneTypeOK
  <2>4. ASSUME NEW k \in DOMAIN steps, k < at + 1, WritesField(steps[k])
        PROVE  steps[k].change.field \in touched \/ page'[steps[k].change.field] = held[steps[k].change.field]
    <3> DEFINE f == steps[k].change.field
    <3>1. CASE WritesField(steps[at])
      <4>1. /\ steps[at].change.field \in Fields /\ steps[at].kind # "save" /\ page \in [Fields -> Contents]
            /\ steps[at].change.to = held[steps[at].change.field]
        BY <1>3, <2>1, <2>3, <3>1, CurrentStep DEF LaneInv, LaneTypeOK, BackPlanInv
      <4>2. PageSets(steps[at]) /\ page'[steps[at].change.field] = steps[at].change.to
        <5> DEFINE ok == page'[steps[at].change.field] = steps[at].change.to
        <5>1. Writes(steps[at])
          BY <3>1 DEF WritesField, Writes
        <5>2. /\ PageSets(steps[at])
              /\ outcome' = [halted |-> ~ok, writes |-> outcome.writes + 1, verified |-> outcome.verified /\ ok]
          BY <1>3, <4>1, <5>1, Zenon DEF StepAnswered
        <5>3. outcome'.halted = ~ok
          BY <5>2
        <5> QED BY <1>3, <5>2, <5>3
      <4>3. f # steps[at].change.field => page'[f] = page[f]
        BY <4>1, <4>2 DEF PageSets
      <4>4. CASE f = steps[at].change.field
        BY <4>1, <4>2, <4>4
      <4>5. CASE f # steps[at].change.field
        <5>1. k < at
          BY <2>3, <2>4, <4>5
        <5> QED BY <1>3, <2>1, <2>4, <4>3, <4>5, <5>1 DEF LaneInv, BackInv
      <4> QED BY <4>4, <4>5
    <3>2. CASE ~WritesField(steps[at])
      <4>1. steps[at].kind # "save"
        BY <1>3, <2>3 DEF LaneInv, BackPlanInv
      <4>2. page' = page
        BY <2>1, <3>2, <4>1 DEF Handled
      <4>3. k < at
        BY <2>3, <2>4, <3>2
      <4> QED BY <1>3, <2>1, <2>4, <4>2, <4>3 DEF LaneInv, BackInv
    <3> QED BY <3>1, <3>2
  <2> QED BY <1>3, <2>1, <2>2, <2>4 DEF BackInv
<1>4. CASE StepRefused \/ StepLost
  BY <1>1, <1>4 DEF StepRefused, StepLost, Halt, LaneInv, LaneTypeOK
<1>5. CASE RunEnds /\ lane' = "reverted" /\ ~outcome'.halted
  <2>1. /\ lane = "reverting" /\ ~outcome.halted /\ at > Len(steps)
        /\ UNCHANGED <<steps, touched, page, held, at, outcome>>
    BY <1>5 DEF RunEnds, LaneInv, LaneTypeOK
  <2> QED BY <1>5, <2>1 DEF LaneInv, BackInv
<1>6. CASE SomebodyEdits /\ lane = "reverting" /\ ~outcome'.halted
  <2>1. PICK f \in Fields, v \in Contents : page' = [page EXCEPT ![f] = v] /\ touched' = touched \cup {f}
    BY <1>6 DEF SomebodyEdits
  <2>2. UNCHANGED <<steps, at, lane, outcome, held>>
    BY <1>6 DEF SomebodyEdits
  <2>3. \A k \in DOMAIN steps : steps[k].change.field # f => page'[steps[k].change.field] = page[steps[k].change.field]
    <3>1. ASSUME NEW g, g # f PROVE page'[g] = page[g]
      BY <2>1, <3>1 DEF LaneInv, LaneTypeOK
    <3> QED BY <3>1
  <2> QED BY <1>6, <2>1, <2>2, <2>3 DEF LaneInv, BackInv
<1>7. CASE UNCHANGED laneVars
  BY <1>7 DEF laneVars, LaneInv, BackInv
<1>8. PreviewBrowserPlan \/ ApprovePlan => lane' \notin {"reverting", "reverted"}
  BY DEF PreviewBrowserPlan, ApprovePlan
<1>9. (StepAnswered \/ SomebodyEdits) /\ lane' \in {"reverting", "reverted"} => lane = "reverting"
  BY DEF StepAnswered, SomebodyEdits, Executing
<1>10. RunEnds => lane' \in {"done", "reverted"}
  BY DEF RunEnds
<1> QED
  BY <1>1, <1>2, <1>3, <1>4, <1>5, <1>6, <1>7, <1>8, <1>9, <1>10 DEF LaneNext

\* All of it holds of every state of the lane.
LEMMA LaneInvariant == LaneSpec => []LaneInv
<1>1. LaneInit => LaneInv
  <2> SUFFICES ASSUME LaneInit PROVE LaneInv
    OBVIOUS
  <2>1. steps = <<>> /\ revertable = <<>> /\ changes = <<>> /\ lane = "diff" /\ at = 1 /\ touched = {} /\ edits = 0
    BY DEF LaneInit
  <2>2. LaneTypeOK
    BY <2>1 DEF LaneInit, LaneTypeOK, Clean, Unheld
  <2>3. DiffInv /\ RunInv /\ BackPlanInv /\ BackInv
    BY <2>1 DEF DiffInv, RunInv, BackPlanInv, BackInv
  <2>4. UndoInv
    BY <2>1 DEF UndoInv
  <2> QED BY <2>2, <2>3, <2>4 DEF LaneInv
<1>2. LaneInv /\ [LaneNext]_laneVars => LaneInv'
  <2> SUFFICES ASSUME LaneInv, [LaneNext]_laneVars PROVE LaneInv'
    OBVIOUS
  <2>1. LaneTypeOK'
    BY LaneTypeStays DEF LaneInv
  <2> QED
    BY <2>1, DiffStays, RunStays, UndoStays, BackPlanStays, BackStays DEF LaneInv
<1> QED
  BY <1>1, <1>2, PTL DEF LaneSpec

\* Whatever the page refuses, loses or drops and whoever edits it meanwhile, a revert that ends without a halt has put
\* back what every field held when the run wrote it.
THEOREM RevertsRestore == LaneSpec => []RevertRestores
<1>1. LaneInv => RevertRestores
  <2> SUFFICES ASSUME LaneInv, lane = "reverted", ~outcome.halted, NEW i \in DOMAIN Restorable
               PROVE  Restorable[i].change.field \in touched
                        \/ page[Restorable[i].change.field] = held[Restorable[i].change.field]
    BY DEF RevertRestores
  <2>1. PICK k \in DOMAIN steps : WritesField(steps[k]) /\ steps[k].change.field = Restorable[i].change.field
    BY DEF LaneInv, BackPlanInv
  <2>2. k < at
    BY LenProperties DEF LaneInv, LaneTypeOK, BackInv
  <2> QED BY <2>1, <2>2 DEF LaneInv, BackInv
<1> QED
  BY <1>1, LaneInvariant, PTL

\* No text field is typed over that does not hold what the user was shown.
THEOREM NothingWrittenBlindly == LaneSpec => NoBlindOverwrite
<1> DEFINE Blind ==
      \A f \in Fields :
        (page'[f] # page[f] /\ edits' = edits /\ steps[at].kind = "set") =>
          \E i \in DOMAIN changes :
            /\ changes[i].field = f
            /\ page[f] = IF lane = "running" THEN changes[i].from ELSE changes[i].to
<1>1. LaneInv /\ [LaneNext]_laneVars => Blind
  <2> SUFFICES ASSUME LaneInv, [LaneNext]_laneVars,
                      NEW f \in Fields, page'[f] # page[f], edits' = edits, steps[at].kind = "set"
               PROVE  \E i \in DOMAIN changes :
                        /\ changes[i].field = f
                        /\ page[f] = IF lane = "running" THEN changes[i].from ELSE changes[i].to
    OBVIOUS
  <2>1. StepAnswered \/ StepRefused \/ StepLost
    <3>1. edits \in Nat
      BY DEF LaneInv, LaneTypeOK
    <3>2. PreviewBrowserPlan \/ ApprovePlan \/ RunEnds \/ Revert \/ UNCHANGED laneVars => page' = page
      BY DEF PreviewBrowserPlan, ApprovePlan, RunEnds, Revert, laneVars
    <3>3. SomebodyEdits => edits' # edits
      BY <3>1 DEF SomebodyEdits
    <3> QED BY <3>2, <3>3 DEF LaneNext
  <2>2. Executing /\ Handled
    BY <2>1, StepsAreHandled DEF LaneInv
  <2>3. PageTakes(steps[at]) /\ PageSets(steps[at])
    BY <2>2 DEF Handled
  <2>4. at \in DOMAIN steps /\ steps[at].change.field \in Fields /\ lane \in {"running", "reverting"}
    BY <2>2, CurrentStep DEF LaneInv
  <2>5. f = steps[at].change.field
    BY <2>3, <2>4 DEF PageSets, LaneInv, LaneTypeOK
  <2>6. page[f] = steps[at].change.from
    BY <2>3, <2>5 DEF PageTakes, ResolveRequest
  <2>7. CASE lane = "running"
    <3>1. \E i \in DOMAIN changes : steps[at].change = changes[i]
      BY <2>4, <2>7 DEF LaneInv, RunInv
    <3> QED BY <2>5, <2>6, <2>7, <3>1
  <2>8. CASE lane = "reverting"
    <3>1. \E i \in DOMAIN changes : steps[at].change.field = changes[i].field /\ steps[at].change.from = changes[i].to
      BY <2>4, <2>8 DEF LaneInv, BackPlanInv
    <3> QED BY <2>5, <2>6, <2>8, <3>1
  <2> QED BY <2>4, <2>7, <2>8
<1> HIDE DEF Blind
<1>2. LaneInv /\ [LaneNext]_laneVars => [Blind]_laneVars
  BY <1>1
<1>3. LaneSpec => [][Blind]_laneVars
  BY <1>2, LaneInvariant, PTL DEF LaneSpec
<1> QED
  BY <1>3 DEF NoBlindOverwrite, Blind

-----------------------------------------------------------------------------
(* An agent's own window. *)

\* What is no credential, a control that holds one just when it is a credential box, a value that was read, a change
\* that was shown, a write that the page took.
Public == Text \ Secrets
Apart == {c \in Control : c.secure <=> c.value \in Secrets}
Sites == {None, "allowed", "elsewhere"}
Stages == {"idle", "reading", "threw", "proposed", "writing", "written", "verifying", "closed"}
Statuses == {"applied", "unverified", "observed", "refused", "failed", "skipped"}
Wish == [name : STRING, nth : Nat \cup {None}, value : Public]
Reading == [seen : BOOLEAN, value : Public]
Change == [name : STRING, old : Public, new : Public]
Taken == [run : Nat, step : Nat, kind : {"set", "click"}, name : DOMAIN Folded \cup {None}, over : Text,
          secure : BOOLEAN, site : Sites, onTime : BOOLEAN]

PageTypeOK ==
  /\ window \in [site : Sites, controls : Seq(Apart)]
  /\ cleared \in BOOLEAN /\ slipped \in BOOLEAN /\ made \in Seq(Taken)
RunTypeOK ==
  /\ stage \in Stages /\ (stage # "idle" => task \in Tasks /\ windowRuns # 0)
  /\ position \in Nat \ {0}
  /\ readings \in Seq(Reading) /\ proposal \in Seq(Change) /\ reports \in Seq(Statuses)
  /\ windowRuns \in Nat /\ confirmations \in Seq(Seq(Change)) /\ Len(confirmations) = windowRuns
  /\ stage = "reading" => position \in DOMAIN ReadList /\ Len(readings) = position - 1
WindowTypeOK == PageTypeOK /\ RunTypeOK

\* The request of a write of change s of run n, as it was confirmed.
Asks(req, n, s) ==
  LET c == confirmations[n][s]
  IN /\ req.kind \in {"set", "click"} /\ req.run = n /\ req.step = s
     /\ req.target.name = c.name /\ req.target.nth = None
     /\ req.kind = "set" => req.old = c.old /\ req.new = c.new

\* A write is as it was shown.
AsShown(w) ==
  LET c == confirmations[w.run][w.step]
  IN /\ Folded[w.name] = Folded[c.name] /\ (w.kind = "click" => w.name = c.name)
     /\ w.kind = "set" => w.over = c.old /\ ~w.secure
     /\ w.onTime => w.site = "allowed"

\* The steps of run n that were made are the first ones, in their order, each once.
FirstSteps(n) ==
  \A k \in TakenIn(n) :
    /\ \A l \in TakenIn(n) : made[l].step = made[k].step => l = k
    /\ \A l \in TakenIn(n) : made[l].step < made[k].step => l < k
    /\ \A s \in 1 .. made[k].step - 1 : \E l \in TakenIn(n) : made[l].step = s

\* Step s of run n is the next one: those before it were made and no others.
NextIs(n, s) ==
  /\ \A l \in TakenIn(n) : made[l].step < s
  /\ \A x \in 1 .. s - 1 : \E l \in TakenIn(n) : made[l].step = x

\* A script that is to be evaluated is on the page whose address was checked, unless the window just left it.
SiteInv == cleared /\ ~slipped => window.site = "allowed"

\* What the page took was confirmed, and of each run it is the beginning.
MadeInv ==
  /\ \A k \in DOMAIN made :
       made[k].run \in DOMAIN confirmations /\ made[k].step \in DOMAIN confirmations[made[k].run] /\ AsShown(made[k])
  /\ \A n \in Nat : FirstSteps(n)

\* A script that ran out of time is the next step of a run that goes no further.
OverdueInv ==
  \A req \in overdue :
    /\ req.run \in DOMAIN confirmations /\ req.step \in DOMAIN confirmations[req.run] /\ Asks(req, req.run, req.step)
    /\ NextIs(req.run, req.step)
    /\ \A other \in overdue : other.run = req.run => other = req
    /\ req.run = windowRuns => stage \notin {"reading", "proposed", "writing"}

\* Where the run is says what was confirmed, made and reported.
StageInv ==
  /\ stage \in {"reading", "proposed"} => TakenIn(windowRuns) = {} /\ reports = <<>>
  /\ stage = "writing" => position \in DOMAIN proposal /\ NextIs(windowRuns, position) /\ Len(reports) = position - 1
  /\ stage \in {"writing", "written", "verifying"} => confirmations[windowRuns] = proposal
  /\ stage \in {"written", "verifying"} => Len(reports) = Len(proposal)

\* What is reported as made was made, and what is called verified was all of it.
ReportsInv ==
  /\ \A i \in DOMAIN reports : reports[i] \in {"applied", "unverified"} => \E k \in TakenIn(windowRuns) : made[k].step = i
  /\ verdict = TRUE => stage = "closed" /\ confirmations[windowRuns] = proposal
                       /\ {made[k].step : k \in TakenIn(windowRuns)} = DOMAIN proposal


-----------------------------------------------------------------------------
\* Every set of numbers with a member has a least one.
LEMMA LeastOf ==
  ASSUME NEW S, S \subseteq Nat, S # {}
  PROVE  \E x \in S : \A y \in S : x <= y
<1> DEFINE R == OpToRel(<, Nat)
<1>1. IsWellFoundedOn(R, Nat)
  BY NatLessThanWellFounded DEF OpToRel
<1>2. \E x \in S : \A y \in S : <<y, x>> \notin R
  <2> HIDE DEF R
  <2> QED BY <1>1, WFMin
<1>3. PICK x \in S : \A y \in S : <<y, x>> \notin R
  BY <1>2
<1>4. \A y \in S : ~(y < x)
  BY <1>3 DEF OpToRel
<1> QED
  BY <1>4

\* A sequence is one over any set that holds its elements.
LEMMA SeqOver ==
  ASSUME NEW S, NEW T, NEW s \in Seq(S), \A i \in DOMAIN s : s[i] \in T
  PROVE  s \in Seq(T)
<1>1. Len(s) \in Nat /\ s \in [1..Len(s) -> S] /\ DOMAIN s = 1..Len(s)
  BY LenProperties
<1>2. s \in [1..Len(s) -> T]
  BY <1>1
<1> QED
  BY <1>1, <1>2, SeqDef

\* What is chosen is of the sequence, and all that was to be chosen is.
LEMMA ChosenFrom ==
  ASSUME NEW S, NEW s \in Seq(S), NEW P
  PROVE  /\ Chosen(s, P) \in Seq(S)
         /\ \A k \in DOMAIN Chosen(s, P) : \E i \in DOMAIN s : i \in P /\ Chosen(s, P)[k] = s[i]
         /\ \A i \in DOMAIN s : i \in P => \E k \in DOMAIN Chosen(s, P) : Chosen(s, P)[k] = s[i]
<1>1. Chosen(s, P) \in Seq(S)
  BY ChosenIs
<1>2. PICK pos \in [DOMAIN Chosen(s, P) -> DOMAIN s] :
        /\ \A k \in DOMAIN Chosen(s, P) : pos[k] \in P /\ Chosen(s, P)[k] = s[pos[k]]
        /\ \A i \in DOMAIN s : i \in P => \E k \in DOMAIN Chosen(s, P) : pos[k] = i
  BY ChosenIs
<1> QED
  BY <1>1, <1>2

\* A control that is found is one of the page, visible, with the role and, but for its case, the name asked for.
LEMMA ResolveIs ==
  ASSUME NEW S, NEW boxes \in Seq(S), NEW target, target.nth \in Nat \cup {None}
  PROVE  LET i == ResolveOne(boxes, target)
         IN i # 0 => /\ i \in DOMAIN boxes /\ NameOf(boxes[i]) # None
                     /\ Folded[NameOf(boxes[i])] = Folded[target.name]
<1> DEFINE matches == FindAll(boxes, target)
<1> DEFINE visible == {i \in DOMAIN boxes : boxes[i].shown /\ boxes[i].role = target.role /\ NameOf(boxes[i]) # None}
           exact == {i \in visible : NameOf(boxes[i]) = target.name}
           loose == {i \in visible : Folded[NameOf(boxes[i])] = Folded[target.name]}
           found == IF exact # {} THEN exact ELSE loose
<1>a. matches = InOrder(boxes, found)
  BY DEF FindAll
<1>b. \A i \in found : NameOf(boxes[i]) # None /\ Folded[NameOf(boxes[i])] = Folded[target.name]
  OBVIOUS
<1>0. PICK P : /\ matches = InOrder(boxes, P)
               /\ \A i \in P : NameOf(boxes[i]) # None /\ Folded[NameOf(boxes[i])] = Folded[target.name]
  <2> HIDE DEF matches, found
  <2> QED BY <1>a, <1>b
<1> HIDE DEF matches
<1>1. matches \in Seq(DOMAIN boxes) /\ DOMAIN matches = 1..Len(matches) /\ Len(matches) \in Nat
  <2>1. matches \in Seq(DOMAIN boxes)
    BY <1>0, InOrderIs
  <2> QED
    BY <2>1, LenProperties
<1>2. \A k \in DOMAIN matches :
        /\ matches[k] \in DOMAIN boxes /\ NameOf(boxes[matches[k]]) # None
        /\ Folded[NameOf(boxes[matches[k]])] = Folded[target.name]
  BY <1>0, InOrderIs
<1>3. ResolveOne(boxes, target) # 0 => \E k \in DOMAIN matches : ResolveOne(boxes, target) = matches[k]
  <2> HIDE DEF matches
  <2>1. CASE target.nth # None /\ target.nth < Len(matches)
    BY <1>1, <2>1 DEF ResolveOne, matches
  <2>2. CASE target.nth = None /\ Len(matches) = 1
    BY <1>1, <2>2 DEF ResolveOne, matches
  <2>3. CASE ~(target.nth # None /\ target.nth < Len(matches)) /\ ~(target.nth = None /\ Len(matches) = 1)
    BY <2>3 DEF ResolveOne, matches
  <2> QED
    BY <2>1, <2>2, <2>3
<1> QED
  BY <1>2, <1>3

-----------------------------------------------------------------------------
\* What is known of credentials: nothing that is typed, bound or absent is one.
LEMMA PublicIs == None \in Public /\ (\A v \in Typed : v \in Public)
BY PagesAssumption, SecretsAssumption DEF Public, Text

\* The pages there are hold a credential in a credential box and nowhere else.
LEMMA PagesApart == WindowPages \subseteq Seq(Apart)
<1> SUFFICES ASSUME NEW doc \in WindowPages PROVE doc \in Seq(Apart)
  OBVIOUS
<1>1. doc \in Seq(Control)
  BY PagesAssumption
<1>2. ASSUME NEW i \in DOMAIN doc PROVE doc[i] \in Apart
  <2>1. doc[i] \in Control
    BY <1>1, Elements
  <2>2. doc[i].secure => doc[i].value \in Secrets
    BY DEF Secrets
  <2>3. ~doc[i].secure => doc[i].value \notin Secrets
    BY SecretsAssumption
  <2> QED
    BY <2>1, <2>2, <2>3 DEF Apart, Control
<1> QED
  BY <1>1, <1>2, SeqOver

\* An answer that tells no more than that a step failed or was refused.
Bad(a) == Status(a) \in {"failed", "refused"}

\* A failure and a refusal tell no more than that.
LEMMA NoAnswers == Bad(Failed) /\ (\A why : Bad(Refused(why)))
<1>1. Status(Failed) = "failed"
  BY DEF Status, Failed
<1>2. ASSUME NEW why PROVE Bad(Refused(why))
  BY DEF Bad, Status, Refused
<1> QED
  BY <1>1, <1>2 DEF Bad

\* What a read tells is no credential.
LEMMA ReadsArePublic ==
  ASSUME NEW boxes \in Seq(Apart), NEW req, req.target.nth \in Nat \cup {None}
  PROVE  LET a == ReadAnswer(boxes, req)
         IN Status(a) \in {"failed", "refused", "observed"} /\ (Status(a) = "observed" => a.value \in Public)
<1> DEFINE i == ResolveOne(boxes, req.target)
<1>1. CASE i = 0
  <2>1. ReadAnswer(boxes, req) = Refused("target_not_found")
    BY <1>1 DEF ReadAnswer
  <2> QED
    BY <2>1, NoAnswers DEF Bad
<1>2. CASE i # 0
  <2>1. i \in DOMAIN boxes
    BY <1>2, ResolveIs
  <2>2. boxes[i] \in Apart
    BY <2>1, Elements
  <2>3. PICK v : v = IF boxes[i].secure THEN None ELSE boxes[i].value
    OBVIOUS
  <2>4. v \in Public
    BY <2>2, <2>3, PublicIs DEF Apart, Control, Public
  <2>5. ReadAnswer(boxes, req) = [outcome |-> "observed", value |-> v]
    BY <1>2, <2>3 DEF ReadAnswer, Observed
  <2>6. Status([outcome |-> "observed", value |-> v]) \in {"failed", "observed"}
    BY DEF Status
  <2> QED
    BY <2>4, <2>5, <2>6
<1> QED
  BY <1>1, <1>2

\* A write that is not declined is one the page takes as it was asked for.
LEMMA TakesAsAsked ==
  ASSUME NEW S, NEW boxes \in Seq(S), NEW req, req.target.nth \in Nat \cup {None}, req.kind \in {"set", "click"},
         Declines(boxes, req) = None
  PROVE  LET i == ResolveOne(boxes, req.target)
         IN /\ i \in DOMAIN boxes /\ NameOf(boxes[i]) # None
            /\ Folded[NameOf(boxes[i])] = Folded[req.target.name]
            /\ req.kind = "set" => ~boxes[i].secure /\ boxes[i].value = req.old
            /\ req.kind = "click" => NameOf(boxes[i]) = req.target.name
<1> DEFINE i == ResolveOne(boxes, req.target)
<1>0. /\ "target_not_found" # None /\ "secure_field" # None /\ "not_editable" # None /\ "precondition_failed" # None
      /\ "confirm_name_mismatch" # None
  BY ReasonsAssumption DEF Reasons
<1>1. i # 0
  <2> SUFFICES ASSUME i = 0 PROVE FALSE
    OBVIOUS
  <2>1. Declines(boxes, req) = "target_not_found"
    BY ResolveOne(boxes, req.target) = 0 DEF Declines
  <2> QED
    BY <1>0, <2>1
<1>2. i \in DOMAIN boxes /\ NameOf(boxes[i]) # None /\ Folded[NameOf(boxes[i])] = Folded[req.target.name]
  BY <1>1, ResolveIs
<1>3. CASE req.kind = "set"
  <2> DEFINE c == boxes[i]
  <2>1. CASE c.secure
    BY <1>0, <1>1, <1>3, <2>1 DEF Declines
  <2>2. CASE ~c.secure /\ ~c.editable
    BY <1>0, <1>1, <1>3, <2>2 DEF Declines
  <2>3. CASE ~c.secure /\ c.editable /\ c.value # req.old
    BY <1>0, <1>1, <1>3, <2>3 DEF Declines
  <2> QED
    BY <1>2, <1>3, <2>1, <2>2, <2>3
<1>4. CASE req.kind = "click"
  BY <1>1, <1>2, <1>4, <1>0 DEF Declines
<1> QED
  BY <1>2, <1>3, <1>4

\* The name of a control is one that controls may have, or none.
LEMMA NamesTyped == \A c \in Control : NameOf(c) \in DOMAIN Folded \cup {None}
<1> TAKE c \in Control
<1> DEFINE said == {i \in DOMAIN c.rungs : c.rungs[i] # None}
<1>1. c.rungs \in Seq(DOMAIN Folded \cup {None})
  BY DEF Control
<1>2. CASE said = {}
  BY <1>2 DEF NameOf
<1>3. CASE said # {}
  <2>1. said \subseteq Nat
    BY <1>1, LenProperties
  <2>2. \E i \in said : \A j \in said : i <= j
    BY <1>3, <2>1, LeastOf
  <2>3. PICK i \in said : NameOf(c) = c.rungs[i]
    BY <1>3, <2>2 DEF NameOf
  <2> QED
    BY <1>1, <2>3, Elements
<1> QED
  BY <1>2, <1>3

\* What a step is bound to is bound to no credential.
LEMMA TasksBound ==
  ASSUME NEW t \in Tasks
  PROVE  /\ t.kind \in {"read", "fill", "press"} /\ (t.kind = "press" => 1 \in DOMAIN t.target)
         /\ t.fields \in Seq(Wish) /\ t.target \in Seq(Wish) /\ ToRead(t) \in Seq(Wish)
<1>1. t.kind \in {"read", "fill", "press"} /\ t.fields \in Seq(BoundField) /\ t.target \in Seq(BoundField)
  BY TasksAssumption
<1>2. (\A i \in DOMAIN t.fields : t.fields[i].value \notin Secrets) /\ (\A i \in DOMAIN t.target : t.target[i].value \notin Secrets)
  BY SecretsAssumption
<1>3. t.fields \in Seq(Wish)
  <2>1. \A i \in DOMAIN t.fields : t.fields[i] \in BoundField
    BY <1>1, Elements
  <2>2. \A f \in BoundField : f.value \notin Secrets => f \in Wish
    BY DEF BoundField, Wish, Public
  <2> QED BY <1>1, <1>2, <2>1, <2>2, SeqOver
<1>4. t.target \in Seq(Wish)
  <2>1. \A i \in DOMAIN t.target : t.target[i] \in BoundField
    BY <1>1, Elements
  <2>2. \A f \in BoundField : f.value \notin Secrets => f \in Wish
    BY DEF BoundField, Wish, Public
  <2> QED BY <1>1, <1>2, <2>1, <2>2, SeqOver
<1>5. Given(t.fields) \in Seq(Wish) /\ Given(t.target) \in Seq(Wish)
  BY <1>3, <1>4, ChosenIs DEF Given
<1>6. ToRead(t) \in Seq(Wish)
  BY <1>3, <1>4, <1>5 DEF ToRead, Wanted
<1>7. t.kind = "press" => t.target # <<>>
  BY TasksAssumption
<1>8. t.target # <<>> => 1 \in DOMAIN t.target
  BY <1>1, Shortened
<1> QED
  BY <1>1, <1>3, <1>4, <1>6, <1>7, <1>8

\* The changes of what was read carry no credential.
LEMMA ChangesTyped ==
  ASSUME NEW wanted \in Seq(Wish), NEW seen \in Seq(Reading), DOMAIN wanted \subseteq DOMAIN seen
  PROVE  ChangesFor(wanted, seen) \in Seq(Change)
<1> DEFINE differs == {i \in DOMAIN wanted : seen[i].value # None /\ seen[i].value # wanted[i].value}
           order == InOrder(wanted, differs)
           change(i) == [name |-> wanted[i].name, old |-> seen[i].value, new |-> wanted[i].value]
<1>1. order \in Seq(DOMAIN wanted) /\ \A k \in DOMAIN order : order[k] \in DOMAIN wanted
  <2> HIDE DEF differs
  <2> QED BY InOrderIs
<1>2. \A i \in DOMAIN wanted : wanted[i] \in Wish /\ seen[i] \in Reading
  BY Elements
<1>3. \A i \in DOMAIN wanted : change(i) \in Change
  BY <1>2 DEF Change, Wish, Reading
<1>4. ChangesFor(wanted, seen) = [k \in DOMAIN order |-> change(order[k])]
  BY DEF ChangesFor
<1> HIDE DEF order, change
<1>5. [k \in DOMAIN order |-> change(order[k])] \in [DOMAIN order -> Change]
  BY <1>1, <1>3
<1> QED
  BY <1>1, <1>4, <1>5, SameLength

-----------------------------------------------------------------------------
\* What the next step asks of the page.
LEMMA ReadsAsk ==
  ASSUME WindowTypeOK, stage \in {"reading", "verifying"}
  PROVE  Request.kind = "read" /\ Request.target.nth \in Nat \cup {None}
<1>1. CASE stage = "reading"
  <2>1. task \in Tasks /\ position \in DOMAIN ReadList
    BY <1>1 DEF WindowTypeOK, PageTypeOK, RunTypeOK
  <2>2. ReadList \in Seq(Wish)
    BY <2>1, TasksBound DEF ReadList
  <2>3. ReadList[position] \in Wish
    BY <2>1, <2>2, Elements
  <2> QED
    BY <1>1, <2>3 DEF Request, Target, Wish
<1>2. CASE stage = "verifying"
  BY <1>2 DEF Request, Target
<1> QED
  BY <1>1, <1>2

\* What a run that writes asks for is the change it is at, as it was confirmed.
LEMMA WritesAsk ==
  ASSUME WindowTypeOK, StageInv, stage = "writing"
  PROVE  Asks(Request, windowRuns, position) /\ windowRuns \in DOMAIN confirmations
         /\ position \in DOMAIN confirmations[windowRuns]
<1>1. confirmations[windowRuns] = proposal /\ position \in DOMAIN proposal
  BY DEF StageInv
<1>2. windowRuns \in DOMAIN confirmations
  BY LenProperties DEF WindowTypeOK, PageTypeOK, RunTypeOK
<1>3. CASE task.kind = "press"
  <2>1. Request = [kind |-> "click", run |-> windowRuns, step |-> position,
                   target |-> [role |-> PressRole(task.role), name |-> proposal[position].name, nth |-> None]]
    BY <1>3 DEF Request, Target
  <2> QED
    BY <1>1, <1>2, <2>1 DEF Asks
<1>4. CASE task.kind # "press"
  <2>1. Request = [kind |-> "set", run |-> windowRuns, step |-> position,
                   target |-> [role |-> "textbox", name |-> proposal[position].name, nth |-> None],
                   old |-> proposal[position].old, new |-> proposal[position].new]
    BY <1>4 DEF Request, Target
  <2> QED
    BY <1>1, <1>2, <2>1 DEF Asks
<1> QED
  BY <1>1, <1>2, <1>3, <1>4

\* A request that was confirmed and is not declined leaves a page as it should be, and the write is as it was shown.
LEMMA LandsAsShown ==
  ASSUME WindowTypeOK, NEW req, NEW n \in DOMAIN confirmations, NEW s \in DOMAIN confirmations[n], Asks(req, n, s),
         Declines(window.controls, req) = None, NEW b \in BOOLEAN, b /\ ~slipped => window.site = "allowed"
  PROVE  /\ \A after \in Landing(window.controls, req) : after \in Seq(Apart)
         /\ LET w == Made(window.controls, req, b)
            IN w \in Taken /\ w.run = n /\ w.step = s /\ AsShown(w)
<1> DEFINE i == ResolveOne(window.controls, req.target)
           c == confirmations[n][s]
<1>1. window.controls \in Seq(Apart) /\ window.site \in Sites
  BY DEF WindowTypeOK, PageTypeOK, RunTypeOK
<1>2. n \in Nat /\ s \in Nat /\ c \in Change
  <2>1. confirmations \in Seq(Seq(Change)) /\ confirmations[n] \in Seq(Change)
    BY ElementOfSeq, Elements DEF WindowTypeOK, PageTypeOK, RunTypeOK
  <2> QED
    BY <2>1, Elements, LenProperties
<1>3. /\ i \in DOMAIN window.controls
      /\ Folded[NameOf(window.controls[i])] = Folded[c.name]
      /\ req.kind = "set" => ~window.controls[i].secure /\ window.controls[i].value = c.old /\ req.new = c.new
      /\ req.kind = "click" => NameOf(window.controls[i]) = c.name
  BY <1>1, TakesAsAsked DEF Asks
<1>4. window.controls[i] \in Apart /\ window.controls[i] \in Control
  BY <1>1, <1>3, Elements DEF Apart
<1>5. ASSUME NEW after \in Landing(window.controls, req) PROVE after \in Seq(Apart)
  <2>1. CASE req.kind = "click"
    BY <1>1, <1>5, <2>1 DEF Landing
  <2>2. CASE req.kind = "set"
    <3>1. PICK kept \in {req.new, window.controls[i].value} : after = [window.controls EXCEPT ![i].value = kept]
      BY <1>5, <2>2 DEF Landing
    <3>2. kept \in Public
      BY <1>2, <1>3, <1>4, <2>2, <3>1 DEF Change, Apart, Control, Public
    <3>3. [window.controls[i] EXCEPT !.value = kept] \in Apart
      BY <1>3, <1>4, <2>2, <3>2 DEF Apart, Control, Public
    <3>4. after = [window.controls EXCEPT ![i] = [window.controls[i] EXCEPT !.value = kept]]
      BY <3>1
    <3> QED
      BY <1>1, <1>3, <3>3, <3>4
  <2> QED
    BY <2>1, <2>2 DEF Asks
<1>6. PICK q \in BOOLEAN : q = (b /\ ~slipped)
  BY Zenon
<1> DEFINE d == window.controls[i]
           w == [run |-> req.run, step |-> req.step, kind |-> req.kind, name |-> NameOf(d), over |-> d.value, secure |-> d.secure,
                 site |-> window.site, onTime |-> q]
<1>7. Made(window.controls, req, b) = w
  BY <1>6, Zenon DEF Made
<1>8. NameOf(d) \in DOMAIN Folded \cup {None}
  BY <1>4, NamesTyped
<1>9. w \in Taken
  BY <1>1, <1>2, <1>4, <1>8 DEF Taken, Asks, Control
<1>10. w.run = n /\ w.step = s
  BY DEF Asks
<1>11. q => window.site = "allowed"
  BY <1>6
<1>12. AsShown(w)
  BY <1>3, <1>10, <1>11 DEF AsShown, Asks
<1> HIDE DEF w
<1> QED
  BY <1>5, <1>7, <1>9, <1>10, <1>12

-----------------------------------------------------------------------------
\* The adapter call goes on with an answer: what is known of the answer of a read, ...
Tells(a) == Status(a) \in {"failed", "refused", "observed"} /\ (Status(a) = "observed" => a.value \in Public)

\* ... of the status of a write ...
LEMMA WriteStatusIs ==
  ASSUME NEW req
  PROVE  /\ \A a : Bad(a) => WriteStatus(req, a) \in {"failed", "refused"}
         /\ \A c, v, w : WriteStatus(req, Applied(c, v, w)) \in {"applied", "unverified", "failed"}
<1>1. ASSUME NEW a, Bad(a) PROVE WriteStatus(req, a) \in {"failed", "refused"}
  BY <1>1 DEF WriteStatus, Bad
<1>2. ASSUME NEW c, NEW v, NEW w PROVE WriteStatus(req, Applied(c, v, w)) \in {"applied", "unverified", "failed"}
  <2>1. Status(Applied(c, v, w)) \in {"applied", "failed"}
    BY DEF Status, Applied
  <2> QED
    BY <2>1 DEF WriteStatus
<1> QED
  BY <1>1, <1>2

\* ... and what a call takes from it: a read of the proposal, ...
LEMMA ReadTaken ==
  ASSUME WindowTypeOK, stage = "reading", NEW req, NEW a, Tells(a), Take(req, a)
  PROVE  /\ readings' \in Seq(Reading) /\ proposal' \in Seq(Change) /\ stage' \in {"reading", "proposed", "threw", "closed"}
         /\ position' \in Nat \ {0}
         /\ stage' = "reading" => position' \in DOMAIN ReadList' /\ Len(readings') = position' - 1
         /\ UNCHANGED <<reports, confirmed, verdict, task, windowRuns, confirmations, surface, looked>>
<1> DEFINE v == IF Status(a) = "observed" THEN a.value ELSE None
           seen == Append(readings, [seen |-> Status(a) = "observed", value |-> v])
<1>1. TakeRead(a) /\ UNCHANGED <<task, windowRuns, confirmations, surface, looked>>
  BY DEF Take, TakeWrite, TakeReadBack
<1>2. /\ task \in Tasks /\ position \in DOMAIN ReadList /\ readings \in Seq(Reading) /\ Len(readings) = position - 1
      /\ proposal \in Seq(Change)
  BY DEF WindowTypeOK, PageTypeOK, RunTypeOK
<1>3. ReadList \in Seq(Wish) /\ DOMAIN ReadList = 1..Len(ReadList) /\ Len(ReadList) \in Nat
  BY <1>2, TasksBound, LenProperties DEF ReadList
<1>4. v \in Public
  BY PublicIs DEF Tells
<1>5. PICK q \in BOOLEAN : q = (Status(a) = "observed")
  BY Zenon
<1>6. [seen |-> q, value |-> v] \in Reading
  BY <1>4 DEF Reading
<1>7. seen = Append(readings, [seen |-> q, value |-> v])
  BY <1>5, Zenon
<1> HIDE DEF v
<1>8. seen \in Seq(Reading) /\ Len(seen) = position /\ DOMAIN seen = 1..position
  <2>1. Len(Append(readings, [seen |-> q, value |-> v])) = position /\ Append(readings, [seen |-> q, value |-> v]) \in Seq(Reading)
    BY <1>2, <1>3, <1>6, AppendProperties
  <2> QED
    BY <1>7, <2>1, LenProperties
<1>9. readings' = seen
  BY <1>1 DEF TakeRead, v
<1> HIDE DEF seen
<1>10. ReadList' = ReadList
  BY <1>1 DEF ReadList
<1>11. CASE position < Len(ReadList)
  <2>1. position' = position + 1 /\ UNCHANGED <<stage, proposal, reports, confirmed, verdict>>
    BY <1>1, <1>11 DEF TakeRead
  <2> QED
    BY <1>1, <1>2, <1>3, <1>8, <1>9, <1>10, <1>11, <2>1
<1>12. CASE ~(position < Len(ReadList))
  <2>1. position' = 1 /\ UNCHANGED <<reports, confirmed, verdict>>
    BY <1>1, <1>12 DEF TakeRead
  <2>2. proposal' = IF task.kind = "read" THEN <<>> ELSE ChangesFor(ReadList, seen)
    BY <1>1, <1>12 DEF TakeRead, seen, v
  <2>3. DOMAIN ReadList \subseteq DOMAIN seen
    BY <1>2, <1>3, <1>8, <1>12
  <2>4. proposal' \in Seq(Change)
    BY <1>3, <1>8, <2>2, <2>3, ChangesTyped, EmptySeq
  <2>5. stage' \in {"proposed", "threw", "closed"}
    BY <1>1, <1>12 DEF TakeRead
  <2> QED
    BY <1>1, <1>8, <1>9, <2>1, <2>4, <2>5
<1> QED
  BY <1>11, <1>12

\* ... a write, after which the plan goes on only when it did what it said, ...
LEMMA WriteTaken ==
  ASSUME WindowTypeOK, StageInv, stage = "writing", NEW req, NEW a, Take(req, a),
         WriteStatus(req, a) \in {"applied", "unverified", "failed", "refused"}
  PROVE  /\ reports' \in Seq(Statuses) /\ reports'[position] = WriteStatus(req, a)
         /\ \A i \in DOMAIN reports' : \/ i \in DOMAIN reports /\ reports'[i] = reports[i]
                                       \/ i = position
                                       \/ reports'[i] = "skipped"
         /\ stage' = "writing" => position' = position + 1 /\ position' \in DOMAIN proposal /\ Len(reports') = position
                                  /\ WriteStatus(req, a) = "applied"
         /\ stage' # "writing" => stage' \in {"closed", "written"} /\ Len(reports') = Len(proposal) /\ position' = 1
         /\ UNCHANGED <<readings, proposal, confirmed, verdict, task, windowRuns, confirmations, surface, looked>>
<1> DEFINE st == WriteStatus(req, a)
           on == Continues(st) /\ position < Len(proposal)
           one == Append(reports, st)
           rest == [i \in 1 .. Len(proposal) - position |-> "skipped"]
<1>1. TakeWrite(st) /\ UNCHANGED <<task, windowRuns, confirmations, surface, looked>>
  BY DEF Take, TakeRead, TakeReadBack
<1>2. position \in DOMAIN proposal /\ Len(reports) = position - 1 /\ reports \in Seq(Statuses) /\ proposal \in Seq(Change)
      /\ position \in Nat
  BY DEF WindowTypeOK, PageTypeOK, RunTypeOK, StageInv
<1>3. position \in 1..Len(proposal) /\ Len(proposal) \in Nat /\ DOMAIN proposal = 1..Len(proposal)
  BY <1>2, LenProperties
<1>4. st \in Statuses
  BY DEF Statuses
<1> HIDE DEF st
<1>5. /\ one \in Seq(Statuses) /\ Len(one) = position /\ one[position] = st /\ DOMAIN one = 1..position
      /\ \A i \in DOMAIN reports : one[i] = reports[i]
      /\ DOMAIN reports = 1..(position - 1)
  BY <1>2, <1>3, <1>4, AppendProperties, LenProperties
<1>6. rest \in Seq(Statuses) /\ Len(rest) = Len(proposal) - position /\ DOMAIN rest = 1..(Len(proposal) - position)
  <2>1. Len(proposal) - position \in Nat /\ rest \in [1..(Len(proposal) - position) -> Statuses]
    BY <1>3 DEF Statuses
  <2> QED
    BY <2>1, SeqDef, LenProperties
<1>7. \A i \in DOMAIN rest : rest[i] = "skipped"
  OBVIOUS
<1> HIDE DEF one, rest
<1>8. UNCHANGED <<readings, proposal, confirmed, verdict>> /\ position' = IF on THEN position + 1 ELSE 1
  BY <1>1 DEF TakeWrite
<1>9. CASE on
  <2>1. reports' = one \o <<>> /\ stage' = "writing"
    BY <1>1, <1>9 DEF TakeWrite, one
  <2>2. reports' = one
    BY <1>5, <2>1, ConcatEmptySeq
  <2>3. st = "applied"
    BY <1>9 DEF Continues
  <2> QED
    BY <1>1, <1>2, <1>3, <1>5, <1>8, <1>9, <2>1, <2>2, <2>3 DEF st
<1>10. CASE ~on
  <2>1. reports' = one \o rest /\ stage' \in {"closed", "written"}
    BY <1>1, <1>10 DEF TakeWrite, one, rest
  <2>2. /\ reports' \in Seq(Statuses) /\ Len(reports') = Len(proposal)
        /\ \A i \in 1..Len(proposal) : reports'[i] = IF i <= position THEN one[i] ELSE rest[i - position]
    <3>1. /\ one \o rest \in Seq(Statuses) /\ Len(one \o rest) = Len(one) + Len(rest)
          /\ \A i \in 1..(Len(one) + Len(rest)) : (one \o rest)[i] = IF i <= Len(one) THEN one[i] ELSE rest[i - Len(one)]
      BY <1>5, <1>6, ConcatProperties
    <3>2. Len(one) + Len(rest) = Len(proposal)
      BY <1>2, <1>3, <1>5, <1>6
    <3> QED
      BY <1>5, <2>1, <3>1, <3>2
  <2>3. DOMAIN reports' = 1..Len(proposal)
    BY <2>2, LenProperties
  <2>4. \A i \in 1..Len(proposal) : i > position => rest[i - position] = "skipped"
    BY <1>3, <1>6, <1>7
  <2>5. \A i \in 1..Len(proposal) : i < position => i \in DOMAIN reports /\ reports'[i] = reports[i]
    BY <1>3, <1>5, <2>2
  <2>6. reports'[position] = st
    BY <1>3, <1>5, <2>2
  <2>7. \A i \in DOMAIN reports' : (i \in DOMAIN reports /\ reports'[i] = reports[i]) \/ i = position \/ reports'[i] = "skipped"
    BY <1>3, <2>2, <2>3, <2>4, <2>5
  <2> QED
    BY <1>1, <1>8, <1>10, <2>1, <2>2, <2>6, <2>7 DEF st
<1> QED
  BY <1>9, <1>10

\* ... and a read-back, of which the last gives the verdict.
LEMMA BackTaken ==
  ASSUME WindowTypeOK, stage = "verifying", NEW req, NEW a, Take(req, a)
  PROVE  /\ stage' \in {"verifying", "closed"} /\ position' \in Nat \ {0}
         /\ verdict' = TRUE => verdict = TRUE \/ (stage' = "closed" /\ AppliedCount = Len(proposal))
         /\ UNCHANGED <<readings, proposal, reports, task, windowRuns, confirmations, surface, looked>>
<1>1. TakeReadBack(a) /\ UNCHANGED <<task, windowRuns, confirmations, surface, looked>>
  BY DEF Take, TakeRead, TakeWrite
<1>2. UNCHANGED <<readings, proposal, reports>>
  BY <1>1 DEF TakeReadBack
<1>3. CASE position < Len(proposal)
  <2>1. position' = position + 1 /\ stage' = stage /\ verdict' = verdict
    BY <1>1, <1>3 DEF TakeReadBack
  <2> QED
    BY <1>1, <1>2, <2>1 DEF WindowTypeOK, PageTypeOK, RunTypeOK
<1>4. CASE ~(position < Len(proposal))
  <2>1. position' = 1 /\ stage' = "closed" /\ (verdict' = TRUE => AppliedCount = Len(proposal))
    BY <1>1, <1>4 DEF TakeReadBack
  <2> QED
    BY <1>1, <1>2, <2>1
<1> QED
  BY <1>3, <1>4

-----------------------------------------------------------------------------
\* What an answer may be at each stage.
Answers(req, a) ==
  IF stage = "writing" THEN WriteStatus(req, a) \in {"applied", "unverified", "failed", "refused"} ELSE Tells(a)

\* A failure or a refusal may be the answer at every stage.
LEMMA BadAnswers == \A req, a : Bad(a) => Answers(req, a)
BY WriteStatusIs DEF Bad, Answers, Tells

\* The step of a run that goes on keeps its types.
LEMMA TakeTyped ==
  ASSUME WindowTypeOK, StageInv, Busy, NEW req, NEW a, Take(req, a), Answers(req, a)
  PROVE  RunTypeOK'
<1>1. stage # "idle" /\ task \in Tasks /\ windowRuns # 0
  BY DEF WindowTypeOK, RunTypeOK, Busy
<1>2. CASE stage = "reading"
  <2>1. Tells(a)
    BY <1>2 DEF Answers
  <2> QED
    BY <1>1, <1>2, <2>1, ReadTaken DEF WindowTypeOK, RunTypeOK, Stages
<1>3. CASE stage = "writing"
  <2>1. WriteStatus(req, a) \in {"applied", "unverified", "failed", "refused"}
    BY <1>3 DEF Answers
  <2> QED
    BY <1>1, <1>3, <2>1, WriteTaken DEF WindowTypeOK, RunTypeOK, Stages
<1>4. CASE stage = "verifying"
  BY <1>1, <1>4, BackTaken DEF WindowTypeOK, RunTypeOK, Stages
<1> QED
  BY <1>2, <1>3, <1>4 DEF Busy

\* A script that the page runs in time: what it answers, and what it does to the page.
LEMMA Evaluated ==
  ASSUME WindowTypeOK, StageInv, SiteInv, EvaluateScript
  PROVE  \E a :
           /\ Take(Request, a) /\ Answers(Request, a)
           /\ \/ /\ UNCHANGED <<window, made>>
                 /\ stage = "writing" => Bad(a)
              \/ /\ stage = "writing"
                 /\ \E after \in Seq(Apart) : window' = [window EXCEPT !.controls = after]
                 /\ \E w \in Taken : w.run = windowRuns /\ w.step = position /\ AsShown(w) /\ made' = Append(made, w)
<1>1. Busy /\ cleared
  BY DEF EvaluateScript
<1>2. CASE window.site = None /\ Take(Request, Failed) /\ UNCHANGED <<window, made>>
  BY <1>2, NoAnswers, BadAnswers
<1>3. CASE /\ window.site # None /\ Request.kind = "read"
           /\ Take(Request, ReadAnswer(window.controls, Request)) /\ UNCHANGED <<window, made>>
  <2>1. stage # "writing"
    BY <1>3, WritesAsk DEF Asks
  <2>2. Request.target.nth \in Nat \cup {None}
    BY <1>1, <2>1, ReadsAsk DEF Busy
  <2>3. Tells(ReadAnswer(window.controls, Request))
    <3>1. window.controls \in Seq(Apart)
      BY DEF WindowTypeOK, PageTypeOK
    <3> QED
      BY <2>2, <3>1, ReadsArePublic DEF Tells
  <2> QED
    BY <1>3, <2>1, <2>3 DEF Answers
<1>4. CASE /\ window.site # None /\ Request.kind # "read" /\ Declines(window.controls, Request) # None
           /\ Take(Request, Refused(Declines(window.controls, Request))) /\ UNCHANGED <<window, made>>
  BY <1>4, NoAnswers, BadAnswers
<1>5. CASE /\ window.site # None /\ Request.kind # "read" /\ Declines(window.controls, Request) = None
           /\ LET i == ResolveOne(window.controls, Request.target) IN
               \E after \in Landing(window.controls, Request) :
                 /\ window' = [window EXCEPT !.controls = after]
                 /\ made' = Append(made, Made(window.controls, Request, TRUE))
                 /\ Take(Request, Applied(window.controls[i], window.controls[i].value, after[i].value))
  <2> DEFINE i == ResolveOne(window.controls, Request.target)
             w == Made(window.controls, Request, TRUE)
  <2>1. stage = "writing"
    BY <1>1, <1>5, ReadsAsk DEF Busy
  <2>2. /\ Asks(Request, windowRuns, position) /\ windowRuns \in DOMAIN confirmations
        /\ position \in DOMAIN confirmations[windowRuns]
    BY <2>1, WritesAsk
  <2>3. TRUE /\ ~slipped => window.site = "allowed"
    BY <1>1 DEF SiteInv
  <2>4. /\ \A after \in Landing(window.controls, Request) : after \in Seq(Apart)
        /\ w \in Taken /\ w.run = windowRuns /\ w.step = position /\ AsShown(w)
    BY <1>5, <2>2, <2>3, LandsAsShown
  <2>5. PICK after \in Landing(window.controls, Request) :
          /\ window' = [window EXCEPT !.controls = after]
          /\ made' = Append(made, w)
          /\ Take(Request, Applied(window.controls[i], window.controls[i].value, after[i].value))
    BY <1>5
  <2> DEFINE a == Applied(window.controls[i], window.controls[i].value, after[i].value)
  <2>6. Answers(Request, a)
    BY <2>1, WriteStatusIs DEF Answers
  <2> HIDE DEF w, a
  <2> QED
    BY <2>1, <2>4, <2>5, <2>6 DEF a
<1> QED
  BY <1>2, <1>3, <1>4, <1>5 DEF EvaluateScript

\* A script that the page runs late does to the page what was confirmed for another time.
LEMMA Landed ==
  ASSUME WindowTypeOK, OverdueInv, LateScript
  PROVE  \E req \in overdue :
           /\ overdue' = overdue \ {req}
           /\ \/ UNCHANGED <<window, made>>
              \/ /\ \E after \in Seq(Apart) : window' = [window EXCEPT !.controls = after]
                 /\ \E w \in Taken : w.run = req.run /\ w.step = req.step /\ AsShown(w) /\ made' = Append(made, w)
<1>1. PICK req \in overdue :
        /\ overdue' = overdue \ {req}
        /\ IF Declines(window.controls, req) # None THEN UNCHANGED <<window, made>>
           ELSE \E after \in Landing(window.controls, req) :
                  /\ window' = [window EXCEPT !.controls = after]
                  /\ made' = Append(made, Made(window.controls, req, FALSE))
  BY DEF LateScript
<1>2. CASE Declines(window.controls, req) # None
  BY <1>1, <1>2
<1>3. CASE Declines(window.controls, req) = None
  <2>1. PICK n, s : n = req.run /\ s = req.step
    OBVIOUS
  <2>2. n \in DOMAIN confirmations /\ s \in DOMAIN confirmations[n] /\ Asks(req, n, s)
    BY <1>1, <2>1 DEF OverdueInv
  <2>3. /\ \A after \in Landing(window.controls, req) : after \in Seq(Apart)
        /\ LET w == Made(window.controls, req, FALSE) IN w \in Taken /\ w.run = n /\ w.step = s /\ AsShown(w)
    BY <1>3, <2>2, LandsAsShown
  <2> QED
    BY <1>1, <1>3, <2>1, <2>3
<1> QED
  BY <1>2, <1>3

-----------------------------------------------------------------------------
\* What a task starts with has its types.
LEMMA StartTyped ==
  ASSUME WindowTypeOK, NEW t \in Tasks, StartStep(t)
  PROVE  RunTypeOK' /\ stage' \in {"threw", "proposed", "reading"}
<1>1. /\ windowRuns' = windowRuns + 1 /\ task' = t /\ position' = 1 /\ readings' = <<>> /\ reports' = <<>>
      /\ confirmations' = Append(confirmations, <<>>)
  BY DEF StartStep
<1>2. windowRuns' \in Nat /\ windowRuns' # 0
  BY <1>1 DEF WindowTypeOK, RunTypeOK
<1>3. confirmations' \in Seq(Seq(Change)) /\ Len(confirmations') = windowRuns'
  <2>1. <<>> \in Seq(Change)
    BY EmptySeq
  <2> QED
    BY <1>1, <2>1, AppendProperties DEF WindowTypeOK, RunTypeOK
<1>4. readings' \in Seq(Reading) /\ reports' \in Seq(Statuses) /\ Len(readings') = 0
  BY <1>1, EmptySeq
<1>5. CASE t.kind = "press"
  <2>1. proposal' = <<[name |-> t.target[1].name, old |-> None, new |-> None]>> /\ stage' \in {"threw", "proposed"}
    BY <1>5 DEF StartStep
  <2>2. t.target[1] \in Wish
    BY <1>5, TasksBound, Elements
  <2>3. [name |-> t.target[1].name, old |-> None, new |-> None] \in Change
    BY <2>2, PublicIs DEF Wish, Change
  <2>4. proposal' \in Seq(Change)
    BY <2>1, <2>3
  <2> QED
    BY <1>1, <1>2, <1>3, <1>4, <2>1, <2>4 DEF RunTypeOK, Stages
<1>6. CASE t.kind # "press"
  <2>1. proposal' = <<>> /\ stage' = IF ToRead(t) = <<>> THEN "threw" ELSE "reading"
    BY <1>6 DEF StartStep
  <2>2. proposal' \in Seq(Change)
    BY <2>1, EmptySeq
  <2>3. ReadList' = ToRead(t)
    BY <1>1 DEF ReadList
  <2>4. ToRead(t) # <<>> => 1 \in DOMAIN ToRead(t)
    BY TasksBound, Shortened
  <2>5. stage' = "reading" => position' \in DOMAIN ReadList' /\ Len(readings') = position' - 1
    BY <1>1, <1>4, <2>1, <2>3, <2>4
  <2> QED
    BY <1>1, <1>2, <1>3, <1>4, <2>1, <2>2, <2>5 DEF RunTypeOK, Stages
<1> QED
  BY <1>5, <1>6

\* The types of the window's state hold throughout.
LEMMA WindowTypeStays ==
  ASSUME WindowTypeOK, SiteInv, StageInv, OverdueInv, [WindowNext]_windowVars
  PROVE  WindowTypeOK'
<1> DEFINE runVars_ == <<task, stage, position, readings, proposal, reports, windowRuns, confirmations>>
<1>0. ASSUME UNCHANGED runVars_ PROVE RunTypeOK'
  BY <1>0 DEF WindowTypeOK, RunTypeOK, ReadList
<1>1. ASSUME NEW t \in Tasks, StartStep(t) PROVE WindowTypeOK'
  <2>1. PageTypeOK'
    BY <1>1 DEF StartStep, WindowTypeOK, PageTypeOK
  <2> QED
    BY <1>1, <2>1, StartTyped DEF WindowTypeOK
<1>2. CASE ApproveChanges
  <2>1. PageTypeOK'
    BY <1>2 DEF ApproveChanges, WindowTypeOK, PageTypeOK
  <2>2. windowRuns \in DOMAIN confirmations /\ proposal \in Seq(Change) /\ confirmations \in Seq(Seq(Change))
    BY <1>2, LenProperties DEF ApproveChanges, WindowTypeOK, RunTypeOK
  <2>3. confirmations' \in Seq(Seq(Change)) /\ Len(confirmations') = Len(confirmations)
    BY <1>2, <2>2, ExceptSeq DEF ApproveChanges
  <2>4. stage' \in {"closed", "writing"} /\ position' = 1 /\ UNCHANGED <<task, readings, proposal, reports, windowRuns>>
    BY <1>2 DEF ApproveChanges
  <2>5. RunTypeOK'
    BY <1>2, <2>3, <2>4 DEF ApproveChanges, WindowTypeOK, RunTypeOK, Stages
  <2> QED
    BY <2>1, <2>5 DEF WindowTypeOK
<1>3. CASE DeclineChanges
  BY <1>3 DEF DeclineChanges, WindowTypeOK, PageTypeOK, RunTypeOK, Stages
<1>4. CASE VerifyChanges
  BY <1>4 DEF VerifyChanges, WindowTypeOK, PageTypeOK, RunTypeOK, Stages
<1>5. CASE CheckOrigin
  BY <1>0, <1>5 DEF CheckOrigin, WindowTypeOK, PageTypeOK
<1>6. CASE NotIssued
  <2>1. PageTypeOK'
    BY <1>6 DEF NotIssued, WindowTypeOK, PageTypeOK
  <2>2. RunTypeOK'
    BY <1>6, NoAnswers, BadAnswers, TakeTyped DEF NotIssued
  <2> QED
    BY <2>1, <2>2 DEF WindowTypeOK
<1>7. CASE EvaluateScript
  <2>1. PICK a :
          /\ Take(Request, a) /\ Answers(Request, a)
          /\ \/ UNCHANGED <<window, made>>
             \/ /\ \E after \in Seq(Apart) : window' = [window EXCEPT !.controls = after]
                /\ \E w \in Taken : made' = Append(made, w)
    BY <1>7, Evaluated
  <2>2. RunTypeOK'
    BY <1>7, <2>1, TakeTyped DEF EvaluateScript
  <2>3. made' \in Seq(Taken) /\ window' \in [site : Sites, controls : Seq(Apart)]
    <3>1. made \in Seq(Taken) /\ window \in [site : Sites, controls : Seq(Apart)]
      BY DEF WindowTypeOK, PageTypeOK
    <3>2. \A w \in Taken : Append(made, w) \in Seq(Taken)
      BY <3>1, AppendProperties
    <3>3. \A after \in Seq(Apart) : [window EXCEPT !.controls = after] \in [site : Sites, controls : Seq(Apart)]
      BY <3>1
    <3> QED
      BY <2>1, <3>1, <3>2, <3>3
  <2>4. cleared' \in BOOLEAN /\ slipped' \in BOOLEAN
    BY <1>7 DEF EvaluateScript, WindowTypeOK, PageTypeOK
  <2> QED
    BY <2>2, <2>3, <2>4 DEF WindowTypeOK, PageTypeOK
<1>8. CASE EvaluateTimesOut
  <2>1. PageTypeOK'
    BY <1>8 DEF EvaluateTimesOut, WindowTypeOK, PageTypeOK
  <2>2. RunTypeOK'
    BY <1>8, NoAnswers, BadAnswers, TakeTyped DEF EvaluateTimesOut
  <2> QED
    BY <2>1, <2>2 DEF WindowTypeOK
<1>9. CASE LateScript
  <2>1. \/ UNCHANGED <<window, made>>
        \/ /\ \E after \in Seq(Apart) : window' = [window EXCEPT !.controls = after]
           /\ \E w \in Taken : made' = Append(made, w)
    BY <1>9, Landed
  <2>2. made' \in Seq(Taken) /\ window' \in [site : Sites, controls : Seq(Apart)]
    <3>1. made \in Seq(Taken) /\ window \in [site : Sites, controls : Seq(Apart)]
      BY DEF WindowTypeOK, PageTypeOK
    <3>2. \A w \in Taken : Append(made, w) \in Seq(Taken)
      BY <3>1, AppendProperties
    <3>3. \A after \in Seq(Apart) : [window EXCEPT !.controls = after] \in [site : Sites, controls : Seq(Apart)]
      BY <3>1
    <3> QED
      BY <2>1, <3>1, <3>2, <3>3
  <2>3. UNCHANGED runVars_ /\ UNCHANGED <<cleared, slipped>>
    BY <1>9 DEF LateScript
  <2> QED
    BY <1>0, <2>2, <2>3 DEF WindowTypeOK, PageTypeOK
<1>10. CASE DiscoverSurface
  BY <1>0, <1>10 DEF DiscoverSurface, WindowTypeOK, PageTypeOK
<1>11. CASE PageMoves
  <2>1. UNCHANGED runVars_ /\ UNCHANGED <<cleared, made>>
    BY <1>11 DEF PageMoves
  <2>2. window \in [site : Sites, controls : Seq(Apart)] /\ window.controls \in Seq(Apart)
    BY DEF WindowTypeOK, PageTypeOK
  <2>3. window' \in [site : Sites, controls : Seq(Apart)] /\ slipped' \in BOOLEAN
    <3>1. ASSUME NEW i \in DOMAIN window.controls, NEW v \in Typed, ~window.controls[i].secure,
                 window' = [window EXCEPT !.controls[i].value = v]
          PROVE  window' \in [site : Sites, controls : Seq(Apart)]
      <4>1. window.controls[i] \in Apart /\ v \in Public
        BY <2>2, Elements, PublicIs
      <4>2. [window.controls[i] EXCEPT !.value = v] \in Apart
        BY <3>1, <4>1 DEF Apart, Control, Public
      <4>3. [window.controls EXCEPT ![i] = [window.controls[i] EXCEPT !.value = v]] \in Seq(Apart)
        BY <2>2, <4>2, ExceptSeq
      <4> QED
        BY <2>2, <3>1, <4>3
    <3>2. ASSUME NEW i \in DOMAIN window.controls, window' = [window EXCEPT !.controls[i].shown = ~@]
          PROVE  window' \in [site : Sites, controls : Seq(Apart)]
      <4>1. window.controls[i] \in Apart
        BY <2>2, Elements
      <4>2. [window.controls[i] EXCEPT !.shown = ~@] \in Apart
        BY <4>1 DEF Apart, Control
      <4>3. [window.controls EXCEPT ![i] = [window.controls[i] EXCEPT !.shown = ~@]] \in Seq(Apart)
        BY <2>2, <4>2, ExceptSeq
      <4> QED
        BY <2>2, <3>2, <4>3
    <3>3. ASSUME window' \in [site : {None, "allowed", "elsewhere"}, controls : WindowPages]
          PROVE  window' \in [site : Sites, controls : Seq(Apart)]
      BY <3>3, PagesApart DEF Sites
    <3>4. \/ \E i \in DOMAIN window.controls, v \in Typed :
               ~window.controls[i].secure /\ window' = [window EXCEPT !.controls[i].value = v]
          \/ \E i \in DOMAIN window.controls : window' = [window EXCEPT !.controls[i].shown = ~@]
          \/ window' \in [site : {None, "allowed", "elsewhere"}, controls : WindowPages]
          \/ window' = window
      BY <1>11 DEF PageMoves
    <3>5. slipped' = slipped \/ slipped' = (slipped \/ cleared)
      BY <1>11 DEF PageMoves
    <3>6. slipped' \in BOOLEAN
      BY <3>5 DEF WindowTypeOK, PageTypeOK
    <3> QED
      BY <2>2, <3>1, <3>2, <3>3, <3>4, <3>6
  <2> QED
    BY <1>0, <2>1, <2>3 DEF WindowTypeOK, PageTypeOK
<1>12. CASE UNCHANGED windowVars
  BY <1>0, <1>12 DEF windowVars, WindowTypeOK, PageTypeOK
<1> QED
  BY <1>1, <1>2, <1>3, <1>4, <1>5, <1>6, <1>7, <1>8, <1>9, <1>10, <1>11, <1>12 DEF WindowNext

-----------------------------------------------------------------------------
\* Only the address check lets a script through, and only a move of the window comes between.
LEMMA SiteStays ==
  ASSUME WindowTypeOK, SiteInv, StageInv, OverdueInv, [WindowNext]_windowVars
  PROVE  SiteInv'
<1> DEFINE kept == UNCHANGED <<cleared, slipped>> /\ window'.site = window.site
<1>0. ASSUME kept PROVE SiteInv'
  BY <1>0 DEF SiteInv
<1>1. ASSUME NEW t \in Tasks, StartStep(t) PROVE SiteInv'
  BY <1>1 DEF StartStep, SiteInv
<1>2. CASE ApproveChanges \/ DeclineChanges \/ VerifyChanges
  BY <1>0, <1>2 DEF ApproveChanges, DeclineChanges, VerifyChanges
<1>3. CASE CheckOrigin
  BY <1>3 DEF CheckOrigin, SiteInv
<1>4. CASE NotIssued
  BY <1>0, <1>4 DEF NotIssued
<1>5. CASE EvaluateScript \/ EvaluateTimesOut
  BY <1>5 DEF EvaluateScript, EvaluateTimesOut, SiteInv
<1>6. CASE LateScript
  <2>1. window \in [site : Sites, controls : Seq(Apart)]
    BY DEF WindowTypeOK, PageTypeOK
  <2>2. window' = window \/ \E after \in Seq(Apart) : window' = [window EXCEPT !.controls = after]
    BY <1>6, Landed
  <2>3. window'.site = window.site
    BY <2>1, <2>2
  <2> QED
    BY <1>0, <1>6, <2>3 DEF LateScript
<1>7. CASE DiscoverSurface
  BY <1>0, <1>7 DEF DiscoverSurface
<1>8. CASE PageMoves
  <2>1. window \in [site : Sites, controls : Seq(Apart)]
    BY DEF WindowTypeOK, PageTypeOK
  <2>2. \/ kept
        \/ cleared' = cleared /\ slipped' = (slipped \/ cleared)
    BY <1>8, <2>1 DEF PageMoves
  <2>3. CASE cleared' = cleared /\ slipped' = (slipped \/ cleared)
    BY <2>3 DEF SiteInv
  <2> QED
    BY <1>0, <2>2, <2>3
<1>9. CASE UNCHANGED windowVars
  BY <1>0, <1>9 DEF windowVars
<1> QED
  BY <1>1, <1>2, <1>3, <1>4, <1>5, <1>6, <1>7, <1>8, <1>9 DEF WindowNext

-----------------------------------------------------------------------------
\* The writes and what was confirmed, when neither is new.
LEMMA SameMade ==
  ASSUME UNCHANGED made
  PROVE  /\ \A n \in Nat : TakenIn(n)' = TakenIn(n) /\ (FirstSteps(n) => FirstSteps(n)')
         /\ \A n, s \in Nat : NextIs(n, s) => NextIs(n, s)'
BY DEF TakenIn, FirstSteps, NextIs

\* The next write of a run: its run goes one step on, the others stay where they are.
LEMMA OneMore ==
  ASSUME NEW w, NEW new \in Nat, w.run \in Nat, w.step \in Nat,
         \A k \in DOMAIN made : k \in Nat /\ k < new /\ made[k].step \in Nat /\ made'[k] = made[k],
         DOMAIN made' = DOMAIN made \cup {new}, made'[new] = w,
         NextIs(w.run, w.step), \A n \in Nat : FirstSteps(n)
  PROVE  /\ TakenIn(w.run)' = TakenIn(w.run) \cup {new}
         /\ \A n \in Nat : n # w.run => TakenIn(n)' = TakenIn(n) /\ \A s \in Nat : NextIs(n, s) => NextIs(n, s)'
         /\ NextIs(w.run, w.step + 1)'
         /\ \A n \in Nat : FirstSteps(n)'
<1>1. /\ DOMAIN made' = DOMAIN made \cup {new} /\ made'[new] = w /\ \A k \in DOMAIN made : made'[k] = made[k]
      /\ new \notin DOMAIN made
  OBVIOUS
<1>3. \A k \in DOMAIN made : k < new /\ k \in Nat
  OBVIOUS
<1>4. w.run \in Nat /\ w.step \in Nat /\ \A k \in DOMAIN made : made[k].step \in Nat
  OBVIOUS
<1>5. TakenIn(w.run)' = TakenIn(w.run) \cup {new}
  BY <1>1 DEF TakenIn
<1>6. \A n \in Nat : n # w.run => TakenIn(n)' = TakenIn(n)
  BY <1>1 DEF TakenIn
<1>t. \A n : TakenIn(n) \subseteq DOMAIN made
  BY DEF TakenIn
<1>7. \A n, s \in Nat : n # w.run /\ NextIs(n, s) => NextIs(n, s)'
  <2> SUFFICES ASSUME NEW n \in Nat, NEW s \in Nat, n # w.run, NextIs(n, s) PROVE NextIs(n, s)'
    OBVIOUS
  <2>1. \A l \in TakenIn(n)' : l \in TakenIn(n) /\ made'[l] = made[l]
    BY <1>1, <1>6, <1>t
  <2> QED
    BY <1>6, <1>1, <1>t, <2>1 DEF NextIs
<1>8. NextIs(w.run, w.step + 1)'
  <2>1. \A l \in TakenIn(w.run) : made[l].step < w.step /\ made'[l] = made[l] /\ made[l].step \in Nat
    BY <1>1, <1>4, <1>t DEF NextIs
  <2>2. \A l \in TakenIn(w.run)' : made'[l].step < w.step + 1
    <3> SUFFICES ASSUME NEW l \in TakenIn(w.run)' PROVE made'[l].step < w.step + 1
      OBVIOUS
    <3>1. CASE l = new
      BY <1>1, <1>4, <3>1
    <3>2. CASE l \in TakenIn(w.run)
      BY <1>4, <2>1, <3>2
    <3> QED
      BY <1>5, <3>1, <3>2
  <2>3. ASSUME NEW x \in 1 .. (w.step + 1) - 1 PROVE \E l \in TakenIn(w.run)' : made'[l].step = x
    <3>1. CASE x = w.step
      BY <1>1, <1>5, <3>1
    <3>2. CASE x # w.step
      <4>1. x \in 1 .. w.step - 1
        BY <1>4, <3>2
      <4>2. PICK l \in TakenIn(w.run) : made[l].step = x
        BY <4>1 DEF NextIs
      <4> QED
        BY <1>5, <2>1, <4>2
    <3> QED
      BY <3>1, <3>2
  <2> QED
    BY <2>2, <2>3 DEF NextIs
<1>9. ASSUME NEW n \in Nat, n # w.run PROVE FirstSteps(n)'
  <2>1. \A l \in TakenIn(n)' : l \in TakenIn(n) /\ made'[l] = made[l]
    BY <1>1, <1>6, <1>9, <1>t
  <2>2. TakenIn(n)' = TakenIn(n)
    BY <1>6, <1>9
  <2>3. FirstSteps(n)
    OBVIOUS
  <2> SUFFICES ASSUME NEW k \in TakenIn(n)'
               PROVE  /\ \A l \in TakenIn(n)' : made'[l].step = made'[k].step => l = k
                      /\ \A l \in TakenIn(n)' : made'[l].step < made'[k].step => l < k
                      /\ \A s \in 1 .. made'[k].step - 1 : \E l \in TakenIn(n)' : made'[l].step = s
    BY DEF FirstSteps
  <2>4. /\ \A l \in TakenIn(n) : made[l].step = made[k].step => l = k
        /\ \A l \in TakenIn(n) : made[l].step < made[k].step => l < k
        /\ \A s \in 1 .. made[k].step - 1 : \E l \in TakenIn(n) : made[l].step = s
    BY <2>2, <2>3 DEF FirstSteps
  <2> QED
    BY <2>1, <2>2, <2>4
<1>10. FirstSteps(w.run)'
  <2> SUFFICES ASSUME NEW k \in TakenIn(w.run)'
               PROVE  /\ \A l \in TakenIn(w.run)' : made'[l].step = made'[k].step => l = k
                      /\ \A l \in TakenIn(w.run)' : made'[l].step < made'[k].step => l < k
                      /\ \A s \in 1 .. made'[k].step - 1 : \E l \in TakenIn(w.run)' : made'[l].step = s
    BY DEF FirstSteps
  <2>1. FirstSteps(w.run)
    BY <1>4
  <2>2. \A l \in TakenIn(w.run) : made'[l] = made[l] /\ made[l].step < w.step /\ made[l].step \in Nat /\ l < new /\ l \in Nat
    BY <1>1, <1>3, <1>4, <1>t DEF NextIs
  <2>3. CASE k = new
    <3>1. \A s \in 1 .. w.step - 1 : \E l \in TakenIn(w.run) : made[l].step = s
      BY DEF NextIs
    <3>2. \A s \in 1 .. w.step - 1 : \E l \in TakenIn(w.run)' : made'[l].step = s
      BY <1>5, <2>2, <3>1
    <3>3. \A l \in TakenIn(w.run)' : l = new \/ l \in TakenIn(w.run)
      BY <1>5
    <3>4. \A l \in TakenIn(w.run)' : made'[l].step = w.step => l = k
      <4> SUFFICES ASSUME NEW l \in TakenIn(w.run), made'[l].step = w.step PROVE FALSE
        BY <2>3, <3>3
      <4> QED
        BY <1>4, <2>2
    <3>5. \A l \in TakenIn(w.run)' : made'[l].step < w.step => l < k
      BY <1>1, <1>4, <2>2, <2>3, <3>3
    <3> QED
      BY <1>1, <2>3, <3>2, <3>4, <3>5
  <2>4. CASE k \in TakenIn(w.run)
    <3>1. /\ \A l \in TakenIn(w.run) : made[l].step = made[k].step => l = k
          /\ \A l \in TakenIn(w.run) : made[l].step < made[k].step => l < k
          /\ \A s \in 1 .. made[k].step - 1 : \E l \in TakenIn(w.run) : made[l].step = s
      BY <2>1, <2>4 DEF FirstSteps
    <3>2. made'[k] = made[k] /\ made[k].step < w.step /\ made[k].step \in Nat
      BY <2>2, <2>4
    <3>3. \A l \in TakenIn(w.run)' : (l = new /\ made'[l] = w) \/ (l \in TakenIn(w.run) /\ made'[l] = made[l])
      BY <1>1, <1>5, <2>2
    <3>4. ASSUME NEW l \in TakenIn(w.run)' PROVE made'[l].step = made'[k].step => l = k
      <4>1. CASE l = new
        BY <1>1, <1>4, <3>2, <4>1
      <4>2. CASE l \in TakenIn(w.run)
        BY <2>2, <3>1, <3>2, <4>2
      <4> QED BY <3>3, <4>1, <4>2
    <3>5. ASSUME NEW l \in TakenIn(w.run)' PROVE made'[l].step < made'[k].step => l < k
      <4>1. CASE l = new
        BY <1>1, <1>4, <3>2, <4>1
      <4>2. CASE l \in TakenIn(w.run)
        BY <2>2, <3>1, <3>2, <4>2
      <4> QED BY <3>3, <4>1, <4>2
    <3>6. \A s \in 1 .. made'[k].step - 1 : \E l \in TakenIn(w.run)' : made'[l].step = s
      BY <1>5, <2>2, <3>1, <3>2
    <3> QED
      BY <3>4, <3>5, <3>6
  <2> QED
    BY <1>5, <2>3, <2>4
<1> QED
  BY <1>5, <1>6, <1>7, <1>8, <1>9, <1>10

\* One write more, of the next step of its run, leaves what was made of every run its first steps.
LEMMA MoreMade ==
  ASSUME made \in Seq(Taken), NEW w \in Taken, NextIs(w.run, w.step), made' = Append(made, w), \A n \in Nat : FirstSteps(n)
  PROVE  \E new \in Nat :
           /\ DOMAIN made' = DOMAIN made \cup {new} /\ made'[new] = w
           /\ \A k \in DOMAIN made : made'[k] = made[k]
           /\ TakenIn(w.run)' = TakenIn(w.run) \cup {new}
           /\ \A n \in Nat : n # w.run => TakenIn(n)' = TakenIn(n) /\ \A s \in Nat : NextIs(n, s) => NextIs(n, s)'
           /\ NextIs(w.run, w.step + 1)'
           /\ \A n \in Nat : FirstSteps(n)'
<1> DEFINE new == Len(made) + 1
<1>1. DOMAIN made' = DOMAIN made \cup {new} /\ made'[new] = w /\ \A k \in DOMAIN made : made'[k] = made[k]
  BY Appended
<1>2. Len(made) \in Nat /\ DOMAIN made = 1..Len(made)
  BY LenProperties
<1>3. new \in Nat /\ \A k \in DOMAIN made : k < new /\ k \in Nat
  BY <1>2
<1>4. w.run \in Nat /\ w.step \in Nat /\ \A k \in DOMAIN made : made[k].step \in Nat
  <2>1. \A k \in DOMAIN made : made[k] \in Taken
    BY Elements
  <2> QED
    BY <2>1 DEF Taken
<1> HIDE DEF new
<1> QED
  BY <1>1, <1>3, <1>4, OneMore

-----------------------------------------------------------------------------
\* What was made stays as it was shown while what was confirmed for it stays, ...
LEMMA MadeKept ==
  ASSUME MadeInv, UNCHANGED made,
         \A k \in DOMAIN made : /\ made[k].run \in DOMAIN confirmations'
                                /\ confirmations'[made[k].run] = confirmations[made[k].run]
  PROVE  MadeInv'
<1>1. \A n \in Nat : FirstSteps(n)'
  BY SameMade DEF MadeInv
<1>2. ASSUME NEW k \in DOMAIN made' PROVE AsShown(made[k])'
  <2>1. k \in DOMAIN made /\ made'[k] = made[k]
    OBVIOUS
  <2>2. AsShown(made[k]) /\ confirmations'[made[k].run] = confirmations[made[k].run]
    BY <2>1 DEF MadeInv
  <2> QED
    BY <2>1, <2>2 DEF AsShown
<1> QED
  BY <1>1, <1>2 DEF MadeInv

\* ... and a write joins it that is as it was shown, too.
LEMMA MadeGrown ==
  ASSUME MadeInv, UNCHANGED confirmations, NEW w, NEW new,
         w.run \in DOMAIN confirmations, w.step \in DOMAIN confirmations[w.run], AsShown(w),
         DOMAIN made' = DOMAIN made \cup {new}, made'[new] = w, \A k \in DOMAIN made : made'[k] = made[k],
         \A n \in Nat : FirstSteps(n)'
  PROVE  MadeInv'
<1>1. ASSUME NEW k \in DOMAIN made'
      PROVE  /\ made'[k].run \in DOMAIN confirmations /\ made'[k].step \in DOMAIN confirmations[made'[k].run]
             /\ AsShown(made[k])'
  <2>1. PICK v : v = made'[k]
    OBVIOUS
  <2>2. v.run \in DOMAIN confirmations /\ v.step \in DOMAIN confirmations[v.run] /\ AsShown(v)
    BY <2>1 DEF MadeInv
  <2>3. AsShown(made[k])'
    BY <2>1, <2>2 DEF AsShown
  <2> QED
    BY <2>1, <2>2, <2>3
<1> QED
  BY <1>1 DEF MadeInv

\* A script that ran out of time stays the next step of its run.
LEMMA OverdueKept ==
  ASSUME OverdueInv, overdue' \subseteq overdue,
         \A req \in overdue' :
           /\ req.run \in DOMAIN confirmations' /\ confirmations'[req.run] = confirmations[req.run]
           /\ NextIs(req.run, req.step)'
           /\ req.run = windowRuns' => stage' \notin {"reading", "proposed", "writing"}
  PROVE  OverdueInv'
<1> SUFFICES ASSUME NEW req \in overdue'
             PROVE  /\ req.step \in DOMAIN confirmations'[req.run] /\ Asks(req, req.run, req.step)'
                    /\ \A other \in overdue' : other.run = req.run => other = req
  BY DEF OverdueInv
<1>1. /\ req.step \in DOMAIN confirmations[req.run] /\ Asks(req, req.run, req.step)
      /\ \A other \in overdue : other.run = req.run => other = req
  BY DEF OverdueInv
<1>2. Asks(req, req.run, req.step)'
  BY <1>1 DEF Asks
<1> QED
  BY <1>1, <1>2

\* The runs there are.
LEMMA Runs ==
  ASSUME WindowTypeOK
  PROVE  /\ DOMAIN confirmations = 1..windowRuns /\ windowRuns \in Nat
         /\ \A n \in DOMAIN confirmations : \A s \in DOMAIN confirmations[n] : n \in Nat /\ s \in Nat
<1>1. \A n \in DOMAIN confirmations : confirmations[n] \in Seq(Change)
  BY Elements DEF WindowTypeOK, RunTypeOK
<1>2. DOMAIN confirmations = 1..windowRuns /\ windowRuns \in Nat
  BY LenProperties DEF WindowTypeOK, RunTypeOK
<1>3. \A n \in DOMAIN confirmations : DOMAIN confirmations[n] = 1..Len(confirmations[n])
  BY <1>1, LenProperties
<1> QED
  BY <1>2, <1>3

WorkInv == MadeInv /\ OverdueInv /\ StageInv /\ ReportsInv

\* A new run has confirmed and made nothing, and leaves the others alone.
LEMMA StartKeeps ==
  ASSUME WindowTypeOK, WorkInv, NEW t \in Tasks, StartStep(t)
  PROVE  WorkInv'
<1>1. /\ UNCHANGED <<made, overdue>> /\ windowRuns' = windowRuns + 1 /\ reports' = <<>> /\ verdict' = None
      /\ confirmations' = Append(confirmations, <<>>) /\ stage' \in {"threw", "proposed", "reading"}
  BY StartTyped DEF StartStep
<1>2. DOMAIN confirmations = 1..windowRuns /\ windowRuns \in Nat
  BY Runs
<1>3. \A n \in DOMAIN confirmations : n \in DOMAIN confirmations' /\ confirmations'[n] = confirmations[n] /\ n # windowRuns'
  <2>1. <<>> \in Seq(Change) /\ confirmations \in Seq(Seq(Change))
    BY EmptySeq DEF WindowTypeOK, RunTypeOK
  <2> QED
    BY <1>1, <1>2, <2>1, Appended
<1>4. \A k \in DOMAIN made : made[k].run \in DOMAIN confirmations
  BY DEF WorkInv, MadeInv
<1>5. MadeInv'
  BY <1>1, <1>3, <1>4, MadeKept DEF WorkInv
<1>6. OverdueInv'
  <2>1. \A req \in overdue : req.run \in DOMAIN confirmations /\ NextIs(req.run, req.step) /\ req.run \in Nat /\ req.step \in Nat
    BY Runs DEF WorkInv, OverdueInv
  <2> QED
    BY <1>1, <1>3, <2>1, SameMade, OverdueKept DEF WorkInv
<1>7. TakenIn(windowRuns)' = {}
  BY <1>1, <1>3, <1>4 DEF TakenIn
<1>8. StageInv'
  <2>1. stage' \notin {"writing", "written", "verifying"}
    BY <1>1
  <2>2. TakenIn(windowRuns)' = {} /\ reports' = <<>>
    BY <1>1, <1>7
  <2> QED
    BY <2>1, <2>2 DEF StageInv
<1>9. ReportsInv'
  <2>1. verdict' # TRUE
    BY <1>1, NoneAssumption
  <2>2. DOMAIN reports' = {}
    BY <1>1
  <2> QED
    BY <2>1, <2>2 DEF ReportsInv
<1> QED
  BY <1>5, <1>6, <1>8, <1>9 DEF WorkInv

\* What is approved is what was proposed, and nothing of it was made yet.
LEMMA ApproveKeeps ==
  ASSUME WindowTypeOK, WorkInv, ApproveChanges
  PROVE  WorkInv'
<1>1. /\ UNCHANGED <<made, overdue, windowRuns, reports, verdict, proposal>> /\ position' = 1 /\ stage = "proposed"
      /\ confirmations' = [confirmations EXCEPT ![windowRuns] = proposal]
      /\ stage' = IF proposal = <<>> THEN "closed" ELSE "writing"
  BY DEF ApproveChanges
<1>2. DOMAIN confirmations = 1..windowRuns /\ windowRuns \in Nat /\ windowRuns \in DOMAIN confirmations
  BY <1>1, Runs DEF WindowTypeOK, RunTypeOK
<1>3. /\ DOMAIN confirmations' = DOMAIN confirmations /\ confirmations'[windowRuns] = proposal
      /\ \A n \in DOMAIN confirmations : n # windowRuns => confirmations'[n] = confirmations[n]
  BY <1>1, <1>2
<1>4. TakenIn(windowRuns) = {} /\ reports = <<>>
  BY <1>1 DEF WorkInv, StageInv
<1>5. \A k \in DOMAIN made : made[k].run \in DOMAIN confirmations /\ made[k].run # windowRuns
  BY <1>4 DEF WorkInv, MadeInv, TakenIn
<1>6. MadeInv'
  BY <1>1, <1>3, <1>5, MadeKept DEF WorkInv
<1>7. OverdueInv'
  <2>1. \A req \in overdue : /\ req.run \in DOMAIN confirmations /\ NextIs(req.run, req.step) /\ req.run \in Nat
                             /\ req.step \in Nat /\ req.run # windowRuns
    BY <1>1, Runs DEF WorkInv, OverdueInv
  <2> QED
    BY <1>1, <1>3, <2>1, SameMade, OverdueKept DEF WorkInv
<1>8. TakenIn(windowRuns)' = {}
  BY <1>1, <1>4 DEF TakenIn
<1>9. proposal # <<>> => 1 \in DOMAIN proposal
  BY Shortened DEF WindowTypeOK, RunTypeOK
<1>10. StageInv'
  <2>1. NextIs(windowRuns, position)'
    BY <1>1, <1>8 DEF NextIs
  <2>2. Len(reports') = 0
    BY <1>1, <1>4, EmptySeq
  <2> QED
    <3>1. CASE proposal = <<>>
      BY <1>1, <3>1 DEF StageInv
    <3>2. CASE proposal # <<>>
      <4>1. stage' = "writing" /\ position' \in DOMAIN proposal' /\ Len(reports') = position' - 1
        BY <1>1, <1>9, <2>2, <3>2
      <4>2. confirmations'[windowRuns'] = proposal'
        BY <1>1, <1>3
      <4> QED
        BY <2>1, <4>1, <4>2 DEF StageInv
    <3> QED
      BY <3>1, <3>2
<1>11. ReportsInv'
  <2>1. verdict # TRUE
    BY <1>1 DEF WorkInv, ReportsInv
  <2>2. DOMAIN reports' = {} /\ verdict' = verdict
    BY <1>1, <1>4
  <2> QED
    BY <2>1, <2>2 DEF ReportsInv
<1> QED
  BY <1>6, <1>7, <1>10, <1>11 DEF WorkInv

\* What neither makes nor confirms anything, nor reports, keeps it all.
LEMMA QuietKeeps ==
  ASSUME WindowTypeOK, WorkInv,
         UNCHANGED <<made, windowRuns, reports, verdict, proposal, confirmations, position>>, overdue' \subseteq overdue,
         \/ stage' = stage
         \/ stage = "proposed" /\ stage' = "closed"
         \/ stage = "written" /\ stage' = "verifying"
  PROVE  WorkInv'
<1>1. \A req \in overdue : req.run \in DOMAIN confirmations /\ NextIs(req.run, req.step) /\ req.run \in Nat /\ req.step \in Nat
  BY Runs DEF WorkInv, OverdueInv
<1>2. OverdueInv'
  BY <1>1, SameMade, OverdueKept DEF WorkInv, OverdueInv
<1>3. MadeInv'
  BY MadeKept DEF WorkInv, MadeInv
<1>4. windowRuns \in Nat /\ position \in Nat
  BY DEF WindowTypeOK, RunTypeOK
<1>5. TakenIn(windowRuns)' = TakenIn(windowRuns) /\ (NextIs(windowRuns, position) => NextIs(windowRuns, position)')
  BY <1>4 DEF TakenIn, NextIs
<1>6. StageInv'
  BY <1>5 DEF WorkInv, StageInv
<1>7. ReportsInv'
  BY <1>5 DEF WorkInv, ReportsInv
<1> QED
  BY <1>2, <1>3, <1>6, <1>7 DEF WorkInv

\* When as many steps were applied as there are, each was.
LEMMA AllApplied ==
  ASSUME reports \in Seq(Statuses), AppliedCount = Len(reports)
  PROVE  \A i \in DOMAIN reports : reports[i] = "applied"
<1> DEFINE applied == {i \in DOMAIN reports : reports[i] = "applied"}
<1>1. Len(reports) \in Nat /\ DOMAIN reports = 1..Len(reports)
  BY LenProperties
<1>2. IsFiniteSet(DOMAIN reports) /\ Cardinality(DOMAIN reports) = Len(reports)
  <2> PICK n \in Nat : n = Len(reports)
    BY <1>1
  <2>1. 1 \in Int /\ n \in Int
    OBVIOUS
  <2>2. IsFiniteSet(1..n) /\ Cardinality(1..n) = IF 1 > n THEN 0 ELSE n - 1 + 1
    BY <2>1, FS_Interval, Zenon
  <2>3. Cardinality(1..n) = n
    BY <2>2
  <2> QED
    BY <1>1, <2>2, <2>3
<1>3. applied \subseteq DOMAIN reports /\ Cardinality(applied) = Len(reports)
  BY DEF AppliedCount
<1> HIDE DEF applied
<1>4. applied = DOMAIN reports
  BY <1>2, <1>3, FS_Subset
<1> QED
  BY <1>4 DEF applied

\* A step of the run that changes nothing on the page keeps it all; a write that was given up is still the next one.
LEMMA TookKeeps ==
  ASSUME WindowTypeOK, WorkInv, Busy, NEW a, Take(Request, a), Answers(Request, a), stage = "writing" => Bad(a),
         UNCHANGED made, overdue' = overdue \/ (stage = "writing" /\ overdue' = overdue \cup {Request})
  PROVE  WorkInv'
<1>1. /\ \A req \in overdue : /\ req.run \in DOMAIN confirmations /\ NextIs(req.run, req.step)
                              /\ req.run \in Nat /\ req.step \in Nat
      /\ windowRuns \in Nat /\ verdict # TRUE
  BY Runs DEF WorkInv, OverdueInv, ReportsInv, Busy
<1>2. TakenIn(windowRuns) = TakenIn(windowRuns)' \/ windowRuns' # windowRuns
  BY DEF TakenIn
<1>3. CASE stage = "reading"
  <2>1. Tells(a)
    BY <1>3 DEF Answers
  <2>2. /\ stage' \in {"reading", "proposed", "threw", "closed"}
        /\ UNCHANGED <<reports, verdict, windowRuns, confirmations, overdue, made>>
    BY <1>3, <2>1, ReadTaken
  <2>3. MadeInv'
    BY <2>2, MadeKept DEF WorkInv, MadeInv
  <2>4. \A req \in overdue : req.run # windowRuns
    BY <1>3 DEF WorkInv, OverdueInv
  <2>5. OverdueInv'
    BY <1>1, <2>2, <2>4, SameMade, OverdueKept DEF WorkInv
  <2>6. StageInv'
    BY <1>2, <1>3, <2>2 DEF WorkInv, StageInv
  <2>7. ReportsInv'
    BY <1>1, <1>2, <2>2 DEF WorkInv, ReportsInv
  <2> QED
    BY <2>3, <2>5, <2>6, <2>7 DEF WorkInv
<1>4. CASE stage = "writing"
  <2>1. WriteStatus(Request, a) \in {"failed", "refused"}
    BY <1>4, WriteStatusIs
  <2>2. /\ stage' \in {"closed", "written"} /\ Len(reports') = Len(proposal) /\ reports'[position] = WriteStatus(Request, a)
        /\ \A i \in DOMAIN reports' : \/ i \in DOMAIN reports /\ reports'[i] = reports[i]
                                      \/ i = position
                                      \/ reports'[i] = "skipped"
        /\ UNCHANGED <<verdict, windowRuns, confirmations, proposal>>
    BY <1>4, <2>1, WriteTaken DEF WorkInv
  <2>3. MadeInv'
    BY <2>2, MadeKept DEF WorkInv, MadeInv
  <2>4. \A req \in overdue : req.run # windowRuns
    BY <1>4 DEF WorkInv, OverdueInv
  <2>5. ASSUME overdue' = overdue PROVE OverdueInv'
    BY <1>1, <2>2, <2>4, <2>5, SameMade, OverdueKept DEF WorkInv
  <2>6. ASSUME overdue' = overdue \cup {Request} PROVE OverdueInv'
    <3>1. PICK q : q = Request
      OBVIOUS
    <3>2. /\ Asks(q, windowRuns, position) /\ windowRuns \in DOMAIN confirmations /\ position \in DOMAIN confirmations[windowRuns]
          /\ q.run = windowRuns /\ q.step = position
      BY <1>4, <3>1, WritesAsk DEF WorkInv, Asks
    <3>3. NextIs(q.run, q.step) /\ q.run \in Nat /\ q.step \in Nat
      BY <1>4, <3>2, Runs DEF WorkInv, StageInv
    <3>4. NextIs(q.run, q.step)' /\ Asks(q, q.run, q.step)'
      <4>1. Asks(q, q.run, q.step) /\ confirmations' = confirmations
        BY <2>2, <3>2
      <4> QED
        BY <3>3, <4>1, SameMade DEF Asks
    <3>5. \A req \in overdue :
            /\ req.run \in DOMAIN confirmations /\ req.step \in DOMAIN confirmations[req.run] /\ Asks(req, req.run, req.step)
            /\ NextIs(req.run, req.step)'
            /\ \A other \in overdue : other.run = req.run => other = req
      BY <1>1, SameMade DEF WorkInv, OverdueInv
    <3>6. \A req \in overdue : Asks(req, req.run, req.step)'
      BY <2>2, <3>5 DEF Asks
    <3> SUFFICES ASSUME NEW req \in overdue'
                 PROVE  /\ req.run \in DOMAIN confirmations' /\ req.step \in DOMAIN confirmations'[req.run]
                        /\ Asks(req, req.run, req.step)' /\ NextIs(req.run, req.step)'
                        /\ \A other \in overdue' : other.run = req.run => other = req
      BY <2>2 DEF OverdueInv
    <3>7. CASE req = q
      BY <2>2, <2>4, <2>6, <3>1, <3>2, <3>4, <3>7
    <3>8. CASE req \in overdue
      BY <2>2, <2>4, <2>6, <3>1, <3>2, <3>5, <3>6, <3>8
    <3> QED
      BY <2>6, <3>1, <3>7, <3>8
  <2>7. StageInv'
    BY <1>2, <1>4, <2>2 DEF WorkInv, StageInv
  <2>8. ReportsInv'
    BY <1>1, <1>2, <2>1, <2>2 DEF WorkInv, ReportsInv
  <2> QED
    BY <1>4, <2>3, <2>5, <2>6, <2>7, <2>8 DEF WorkInv
<1>5. CASE stage = "verifying"
  <2>1. /\ stage' \in {"verifying", "closed"} /\ (verdict' = TRUE => stage' = "closed" /\ AppliedCount = Len(proposal))
        /\ UNCHANGED <<proposal, reports, windowRuns, confirmations, overdue, made>>
    BY <1>1, <1>5, BackTaken
  <2>2. MadeInv'
    BY <2>1, MadeKept DEF WorkInv, MadeInv
  <2>3. OverdueInv'
    BY <1>1, <2>1, SameMade, OverdueKept DEF WorkInv
  <2>4. StageInv'
    BY <1>2, <1>5, <2>1 DEF WorkInv, StageInv
  <2>5. ASSUME verdict' = TRUE PROVE {made[k].step : k \in TakenIn(windowRuns)} = DOMAIN proposal
    <3>1. confirmations[windowRuns] = proposal /\ Len(reports) = Len(proposal)
      BY <1>5 DEF WorkInv, StageInv
    <3>2. reports \in Seq(Statuses) /\ proposal \in Seq(Change)
      BY DEF WindowTypeOK, RunTypeOK
    <3>3. DOMAIN reports = DOMAIN proposal
      BY <3>1, <3>2, LenProperties
    <3>4. \A i \in DOMAIN proposal : reports[i] = "applied"
      BY <2>1, <2>5, <3>1, <3>2, <3>3, AllApplied
    <3>5. \A i \in DOMAIN proposal : \E k \in TakenIn(windowRuns) : made[k].step = i
      BY <3>3, <3>4 DEF WorkInv, ReportsInv
    <3>6. \A k \in TakenIn(windowRuns) : made[k].step \in DOMAIN proposal
      BY <3>1 DEF WorkInv, MadeInv, TakenIn
    <3> QED
      BY <3>5, <3>6
  <2>6. ReportsInv'
    <3>1. confirmations[windowRuns] = proposal
      BY <1>5 DEF WorkInv, StageInv
    <3>2. {made[k].step : k \in TakenIn(windowRuns)}' = {made[k].step : k \in TakenIn(windowRuns)}
      BY <1>2, <2>1
    <3>3. \A i \in DOMAIN reports' :
            reports'[i] \in {"applied", "unverified"} => \E k \in TakenIn(windowRuns)' : made'[k].step = i
      BY <1>2, <2>1 DEF WorkInv, ReportsInv
    <3> QED
      BY <2>1, <2>5, <3>1, <3>2, <3>3 DEF ReportsInv
  <2> QED
    BY <2>2, <2>3, <2>4, <2>6 DEF WorkInv
<1> QED
  BY <1>3, <1>4, <1>5 DEF Busy

\* A write in time is the next step of its run, and is reported as what it was.
LEMMA WroteKeeps ==
  ASSUME WindowTypeOK, WorkInv, stage = "writing", NEW a, Take(Request, a), Answers(Request, a), UNCHANGED overdue,
         NEW w \in Taken, w.run = windowRuns, w.step = position, AsShown(w), made' = Append(made, w)
  PROVE  WorkInv'
<1>1. /\ reports'[position] = WriteStatus(Request, a)
      /\ \A i \in DOMAIN reports' : \/ i \in DOMAIN reports /\ reports'[i] = reports[i]
                                    \/ i = position
                                    \/ reports'[i] = "skipped"
      /\ stage' = "writing" => position' = position + 1 /\ position' \in DOMAIN proposal /\ Len(reports') = position
      /\ stage' # "writing" => stage' \in {"closed", "written"} /\ Len(reports') = Len(proposal)
      /\ UNCHANGED <<verdict, windowRuns, confirmations, proposal>>
  BY WriteTaken DEF Answers, WorkInv
<1>2. NextIs(w.run, w.step) /\ confirmations[windowRuns] = proposal /\ position \in DOMAIN proposal
  BY DEF WorkInv, StageInv
<1>3. windowRuns \in Nat /\ windowRuns \in DOMAIN confirmations /\ position \in Nat
  BY Runs DEF WindowTypeOK, RunTypeOK
<1>4. made \in Seq(Taken) /\ \A n \in Nat : FirstSteps(n)
  BY DEF WindowTypeOK, PageTypeOK, WorkInv, MadeInv
<1>5. PICK new \in Nat :
        /\ DOMAIN made' = DOMAIN made \cup {new} /\ made'[new] = w
        /\ \A k \in DOMAIN made : made'[k] = made[k]
        /\ TakenIn(w.run)' = TakenIn(w.run) \cup {new}
        /\ \A n \in Nat : n # w.run => TakenIn(n)' = TakenIn(n) /\ \A s \in Nat : NextIs(n, s) => NextIs(n, s)'
        /\ NextIs(w.run, w.step + 1)'
        /\ \A n \in Nat : FirstSteps(n)'
  BY <1>2, <1>4, MoreMade
<1>6. MadeInv'
  BY <1>1, <1>2, <1>3, <1>5, MadeGrown DEF WorkInv
<1>7. OverdueInv'
  <2>1. \A req \in overdue : /\ req.run \in DOMAIN confirmations /\ NextIs(req.run, req.step) /\ req.run \in Nat
                             /\ req.step \in Nat /\ req.run # windowRuns
    BY Runs DEF WorkInv, OverdueInv
  <2> QED
    BY <1>1, <1>5, <2>1, OverdueKept DEF WorkInv
<1>8. StageInv'
  <2>1. CASE stage' = "writing"
    <3>1. NextIs(windowRuns, position)'
      <4>1. windowRuns' = w.run /\ position' = w.step + 1
        BY <1>1, <2>1
      <4>2. NextIs(w.run, w.step + 1)'
        BY <1>5
      <4> PICK n, s : n = w.run /\ s = w.step + 1
        OBVIOUS
      <4>3. NextIs(n, s)' /\ windowRuns' = n /\ position' = s
        BY <4>1, <4>2
      <4> QED
        BY <4>3 DEF NextIs, TakenIn
    <3>2. position' \in DOMAIN proposal' /\ Len(reports') = position' - 1 /\ confirmations'[windowRuns'] = proposal'
      BY <1>1, <1>2, <1>3, <2>1
    <3> QED
      BY <2>1, <3>1, <3>2 DEF StageInv
  <2>2. CASE stage' # "writing"
    BY <1>1, <1>2, <2>2 DEF StageInv
  <2> QED
    BY <2>1, <2>2
<1>9. ReportsInv'
  <2>1. verdict' # TRUE
    BY <1>1 DEF WorkInv, ReportsInv
  <2>2. TakenIn(windowRuns)' = TakenIn(windowRuns) \cup {new}
    BY <1>1, <1>5 DEF TakenIn
  <2>3. ASSUME NEW i \in DOMAIN reports', reports'[i] \in {"applied", "unverified"}
        PROVE  \E k \in TakenIn(windowRuns)' : made'[k].step = i
    <3>1. CASE i = position
      BY <1>5, <2>2, <3>1
    <3>2. CASE i \in DOMAIN reports /\ reports'[i] = reports[i]
      <4>1. PICK k \in TakenIn(windowRuns) : made[k].step = i
        BY <2>3, <3>2 DEF WorkInv, ReportsInv
      <4>2. made'[k] = made[k]
        BY <1>5 DEF TakenIn
      <4> QED
        BY <2>2, <4>1, <4>2
    <3> QED
      BY <1>1, <2>3, <3>1, <3>2
  <2> QED
    BY <2>1, <2>3 DEF ReportsInv
<1> QED
  BY <1>6, <1>7, <1>8, <1>9 DEF WorkInv

\* A write that comes late is the next step of a run that went no further.
LEMMA LateKeeps ==
  ASSUME WindowTypeOK, WorkInv, NEW req \in overdue, overdue' = overdue \ {req},
         UNCHANGED <<stage, position, proposal, reports, verdict, windowRuns, confirmations>>,
         NEW w \in Taken, w.run = req.run, w.step = req.step, AsShown(w), made' = Append(made, w)
  PROVE  WorkInv'
<1>1. /\ w.run \in DOMAIN confirmations /\ w.step \in DOMAIN confirmations[w.run] /\ NextIs(w.run, w.step)
      /\ w.run = windowRuns => stage \notin {"reading", "proposed", "writing"}
  BY DEF WorkInv, OverdueInv
<1>2. windowRuns \in Nat /\ position \in Nat
  BY DEF WindowTypeOK, RunTypeOK
<1>3. made \in Seq(Taken) /\ \A n \in Nat : FirstSteps(n)
  BY DEF WindowTypeOK, PageTypeOK, WorkInv, MadeInv
<1>4. PICK new \in Nat :
        /\ DOMAIN made' = DOMAIN made \cup {new} /\ made'[new] = w
        /\ \A k \in DOMAIN made : made'[k] = made[k]
        /\ TakenIn(w.run)' = TakenIn(w.run) \cup {new}
        /\ \A n \in Nat : n # w.run => TakenIn(n)' = TakenIn(n) /\ \A s \in Nat : NextIs(n, s) => NextIs(n, s)'
        /\ NextIs(w.run, w.step + 1)'
        /\ \A n \in Nat : FirstSteps(n)'
  BY <1>1, <1>3, MoreMade
<1>5. MadeInv'
  BY <1>1, <1>4, MadeGrown DEF WorkInv
<1>6. OverdueInv'
  <2>1. \A other \in overdue' :
          /\ other.run \in DOMAIN confirmations /\ NextIs(other.run, other.step) /\ other.run \in Nat /\ other.step \in Nat
          /\ other.run # w.run /\ (other.run = windowRuns => stage \notin {"reading", "proposed", "writing"})
    BY Runs DEF WorkInv, OverdueInv
  <2> QED
    BY <1>4, <2>1, OverdueKept DEF WorkInv
<1>7. windowRuns # w.run => TakenIn(windowRuns)' = TakenIn(windowRuns) /\ (NextIs(windowRuns, position) => NextIs(windowRuns, position)')
  BY <1>2, <1>4 DEF TakenIn, NextIs
<1>8. TakenIn(windowRuns) \subseteq TakenIn(windowRuns)'
      /\ \A k \in TakenIn(windowRuns)' : k \in TakenIn(windowRuns) \/ (k = new /\ windowRuns = w.run)
  BY <1>4 DEF TakenIn
<1>9. StageInv'
  BY <1>1, <1>7 DEF WorkInv, StageInv
<1>10. \A k \in TakenIn(windowRuns) : made'[k] = made[k]
  BY <1>4 DEF TakenIn
<1>11. ReportsInv'
  <2>1. ASSUME NEW i \in DOMAIN reports', reports'[i] \in {"applied", "unverified"}
        PROVE  \E k \in TakenIn(windowRuns)' : made'[k].step = i
    <3>1. PICK k \in TakenIn(windowRuns) : made[k].step = i
      BY <2>1 DEF WorkInv, ReportsInv
    <3> QED
      BY <1>8, <1>10, <3>1
  <2>2. ASSUME verdict' = TRUE
        PROVE  /\ stage = "closed" /\ confirmations[windowRuns] = proposal
               /\ {made[k].step : k \in TakenIn(windowRuns)}' = DOMAIN proposal
    <3>1. /\ stage = "closed" /\ confirmations[windowRuns] = proposal
          /\ {made[k].step : k \in TakenIn(windowRuns)} = DOMAIN proposal
      BY <2>2 DEF WorkInv, ReportsInv
    <3>2. windowRuns = w.run => w.step \in DOMAIN proposal
      BY <1>1, <3>1
    <3>3. \A k \in TakenIn(windowRuns)' : made'[k].step \in DOMAIN proposal
      BY <1>4, <1>8, <1>10, <3>1, <3>2
    <3>4. \A i \in DOMAIN proposal : \E k \in TakenIn(windowRuns)' : made'[k].step = i
      BY <1>8, <1>10, <3>1
    <3>5. {made[k].step : k \in TakenIn(windowRuns)}' = {made'[k].step : k \in TakenIn(windowRuns)'}
      OBVIOUS
    <3>6. {made'[k].step : k \in TakenIn(windowRuns)'} = DOMAIN proposal
      <4> DEFINE T == TakenIn(windowRuns)' D == DOMAIN proposal
      <4> HIDE DEF T, D
      <4>1. \A k \in T : made'[k].step \in D
        BY <3>3 DEF T, D
      <4>2. \A i \in D : \E k \in T : made'[k].step = i
        BY <3>4 DEF T, D
      <4>3. {made'[k].step : k \in T} = D
        BY ONLY <4>1, <4>2
      <4> QED
        BY <4>3 DEF T, D
    <3> QED
      BY <3>1, <3>5, <3>6
  <2> QED
    BY <2>1, <2>2 DEF ReportsInv
<1> QED
  BY <1>5, <1>6, <1>9, <1>11 DEF WorkInv

-----------------------------------------------------------------------------
\* Where one position is asked for, InOrder gives that one.
LEMMA InOrderOne ==
  ASSUME NEW S, NEW s \in Seq(S), NEW i \in DOMAIN s
  PROVE  Len(InOrder(s, {i})) = 1 /\ InOrder(s, {i})[1] = i
<1> DEFINE o == InOrder(s, {i})
<1>1. /\ o \in Seq(DOMAIN s) /\ \A k \in DOMAIN o : o[k] = i
      /\ \E k \in DOMAIN o : o[k] = i
      /\ \A k, l \in DOMAIN o : k < l => o[k] < o[l]
  <2> PICK P : P = {i}
    OBVIOUS
  <2>1. o = InOrder(s, P)
    OBVIOUS
  <2>2. InOrder(s, P) \in Seq(DOMAIN s) /\ (\A k \in DOMAIN InOrder(s, P) : InOrder(s, P)[k] \in P)
    BY InOrderIs
  <2>3. \E k \in DOMAIN InOrder(s, P) : InOrder(s, P)[k] = i
    BY InOrderIs
  <2>4. \A k, l \in DOMAIN InOrder(s, P) : k < l => InOrder(s, P)[k] < InOrder(s, P)[l]
    BY InOrderIs
  <2> HIDE DEF o
  <2> QED BY <2>1, <2>2, <2>3, <2>4
<1> HIDE DEF o
<1>2. DOMAIN o = 1..Len(o) /\ Len(o) \in Nat
  BY <1>1, LenProperties
<1>3. i \in Nat
  BY LenProperties
<1>4. Len(o) # 0
  BY <1>1, <1>2
<1>5. ASSUME Len(o) # 1 PROVE FALSE
  <2>1. 1 \in DOMAIN o /\ 2 \in DOMAIN o
    BY <1>2, <1>4, <1>5
  <2>2. o[1] < o[2] /\ o[1] = i /\ o[2] = i
    BY <1>1, <2>1
  <2> QED
    BY <1>3, <2>2
<1>6. Len(o) = 1 /\ o[1] = i
  BY <1>1, <1>2, <1>5
<1> QED
  BY <1>6 DEF o

\* A listing is true of the page it was made from.
LEMMA ListingIsTrue ==
  ASSUME NEW boxes \in Seq(Control), NEW limit \in Nat,
         NEW shownRoles, shownRoles = {"textbox", "combobox", "cell"}
  PROVE  LET lines == ListControls(boxes, shownRoles)
             listing == ParseControls(Chosen(lines, 1 .. limit))
         IN /\ Len(lines) \in Nat
            /\ \A k \in DOMAIN listing :
                 LET e == listing[k]
                     i == ResolveOne(boxes, Target(e.role, e.name, None))
                 IN e.count = 1 => i # 0 /\ boxes[i].secure = e.secure /\ boxes[i].editable = e.editable
            /\ \A i \in DOMAIN boxes :
                 boxes[i].shown /\ boxes[i].role \in shownRoles /\ NameOf(boxes[i]) # None /\ Len(lines) <= limit
                   => \/ \E k \in DOMAIN listing : listing[k].role = boxes[i].role
                                                     /\ Folded[listing[k].name] = Folded[NameOf(boxes[i])]
                      \/ \E n \in SecretShaped : n \in DOMAIN Folded /\ Folded[n] = Folded[NameOf(boxes[i])]
<1> DEFINE same(i) == {j \in DOMAIN boxes : boxes[j].shown /\ boxes[j].role = boxes[i].role /\ NameOf(boxes[j]) # None
                                                 /\ Folded[NameOf(boxes[j])] = Folded[NameOf(boxes[i])]}
           firsts == {i \in DOMAIN boxes : boxes[i].shown /\ boxes[i].role \in shownRoles /\ NameOf(boxes[i]) # None
                                                /\ \A j \in same(i) : i <= j}
           order == InOrder(boxes, firsts)
           entry(i) == [role |-> boxes[i].role, name |-> NameOf(boxes[i]), count |-> Cardinality(same(i)),
                        secure |-> \E j \in same(i) : boxes[j].secure, editable |-> \A j \in same(i) : boxes[j].editable]
           lines == ListControls(boxes, shownRoles)
           cut == Chosen(lines, 1 .. limit)
           listing == ParseControls(cut)
<1>0. DOMAIN boxes = 1..Len(boxes) /\ Len(boxes) \in Nat /\ \A i \in DOMAIN boxes : boxes[i] \in Control
  BY LenProperties, Elements
<1>1. /\ order \in Seq(DOMAIN boxes) /\ \A k \in DOMAIN order : order[k] \in firsts
      /\ \A i \in firsts : \E k \in DOMAIN order : order[k] = i
  <2>1. firsts \subseteq DOMAIN boxes
    OBVIOUS
  <2> HIDE DEF firsts
  <2> QED BY <2>1, InOrderIs
<1>2. lines = [k \in DOMAIN order |-> entry(order[k])]
  BY Zenon DEF ListControls
<1> DEFINE Entries == {entry(i) : i \in firsts}
<1> HIDE DEF order
<1>3. lines \in Seq(Entries) /\ DOMAIN lines = DOMAIN order /\ \A k \in DOMAIN order : lines[k] = entry(order[k])
  <2> HIDE DEF entry, lines, firsts
  <2>1. \A k \in DOMAIN order : entry(order[k]) \in Entries
    BY <1>1
  <2> HIDE DEF Entries
  <2>2. lines \in [DOMAIN order -> Entries]
    BY <1>2, <2>1
  <2>3. \A k \in DOMAIN order : lines[k] = entry(order[k])
    BY <1>2
  <2> QED
    BY <1>1, <2>2, <2>3, SameLength
<1> HIDE DEF lines, Entries, entry
<1>4. /\ cut \in Seq(Entries)
      /\ Len(lines) <= limit => \A i \in DOMAIN lines : \E k \in DOMAIN cut : cut[k] = lines[i]
  <2>1. DOMAIN lines = 1..Len(lines) /\ Len(lines) \in Nat
    BY <1>3, LenProperties
  <2>2. Len(lines) <= limit => \A i \in DOMAIN lines : i \in 1..limit
    BY <2>1
  <2> PICK P : P = 1..limit
    OBVIOUS
  <2>3. cut = Chosen(lines, P)
    OBVIOUS
  <2> HIDE DEF cut
  <2>4. cut \in Seq(Entries) /\ \A i \in DOMAIN lines : i \in P => \E k \in DOMAIN cut : cut[k] = lines[i]
    BY <1>3, <2>3, ChosenFrom
  <2> QED
    BY <2>2, <2>4
<1> HIDE DEF cut
<1>5. /\ listing \in Seq(Entries)
      /\ \A i \in DOMAIN cut : cut[i].name \notin SecretShaped => \E k \in DOMAIN listing : listing[k] = cut[i]
  <2>1. PICK kept : kept = {k \in DOMAIN cut : cut[k].name \notin SecretShaped}
    OBVIOUS
  <2>2. listing = Chosen(cut, kept)
    BY <2>1 DEF ParseControls
  <2> HIDE DEF listing
  <2>3. listing \in Seq(Entries) /\ \A i \in DOMAIN cut : i \in kept => \E k \in DOMAIN listing : listing[k] = cut[i]
    BY <1>4, <2>2, ChosenFrom
  <2> QED
    BY <2>1, <2>3
<1> HIDE DEF listing
<1>6. ASSUME NEW k \in DOMAIN listing, listing[k].count = 1
      PROVE  LET i == ResolveOne(boxes, Target(listing[k].role, listing[k].name, None))
             IN i # 0 /\ boxes[i].secure = listing[k].secure /\ boxes[i].editable = listing[k].editable
  <2>1. listing[k] \in Entries
    BY <1>5, Elements
  <2>2. PICK i \in firsts : listing[k] = entry(i)
    BY <2>1 DEF Entries
  <2>3. /\ i \in DOMAIN boxes /\ i \in same(i) /\ same(i) \subseteq DOMAIN boxes
        /\ boxes[i].shown /\ NameOf(boxes[i]) # None
    OBVIOUS
  <2>4. same(i) = {i}
    <3>1. Cardinality(same(i)) = 1
      BY <1>6, <2>2 DEF entry
    <3>2. IsFiniteSet(same(i))
      <4>1. IsFiniteSet(DOMAIN boxes)
        <5> PICK m \in Nat : m = Len(boxes)
          BY <1>0
        <5>1. 1 \in Int /\ m \in Int
          OBVIOUS
        <5>2. IsFiniteSet(1..m)
          BY <5>1, FS_Interval, Zenon
        <5> QED
          BY <1>0, <5>2
      <4> HIDE DEF same
      <4> QED
        BY <2>3, <4>1, FS_Subset
    <3> HIDE DEF same
    <3>3. \E x : same(i) = {x}
      BY <3>1, <3>2, FS_Singleton
    <3> QED
      BY <2>3, <3>3
  <2> DEFINE target == Target(listing[k].role, listing[k].name, None)
  <2>5. target = [role |-> boxes[i].role, name |-> NameOf(boxes[i]), nth |-> None]
    BY <2>2 DEF entry, Target
  <2>6. FindAll(boxes, target) = InOrder(boxes, {i})
    <3> DEFINE visible == {j \in DOMAIN boxes : boxes[j].shown /\ boxes[j].role = target.role /\ NameOf(boxes[j]) # None}
               exact == {j \in visible : NameOf(boxes[j]) = target.name}
               loose == {j \in visible : Folded[NameOf(boxes[j])] = Folded[target.name]}
    <3>1. exact = {i}
      <4>1. i \in exact
        BY <2>3, <2>5
      <4>2. exact \subseteq same(i)
        BY <2>5
      <4> QED
        BY <2>4, <4>1, <4>2
    <3>2. FindAll(boxes, target) = InOrder(boxes, IF exact # {} THEN exact ELSE loose)
      BY DEF FindAll
    <3> HIDE DEF exact, loose
    <3> QED
      BY <3>1, <3>2
  <2>7. ResolveOne(boxes, target) = i
    <3>1. Len(InOrder(boxes, {i})) = 1 /\ InOrder(boxes, {i})[1] = i
      BY <2>3, InOrderOne
    <3>2. target.nth = None
      BY <2>5
    <3> HIDE DEF target
    <3>3. ~(target.nth # None /\ target.nth < Len(FindAll(boxes, target)))
      BY <3>2
    <3> QED
      BY <2>6, <3>1, <3>2, <3>3 DEF ResolveOne
  <2>8. boxes[i].secure \in BOOLEAN /\ boxes[i].editable \in BOOLEAN
    BY <1>0, <2>3 DEF Control
  <2>9. /\ listing[k].secure = (\E j \in same(i) : boxes[j].secure)
        /\ listing[k].editable = (\A j \in same(i) : boxes[j].editable)
    <3> HIDE DEF same
    <3> PICK a \in BOOLEAN, b \in BOOLEAN :
          a = (\E j \in same(i) : boxes[j].secure) /\ b = (\A j \in same(i) : boxes[j].editable)
      BY Zenon
    <3>1. entry(i) = [role |-> boxes[i].role, name |-> NameOf(boxes[i]), count |-> Cardinality(same(i)),
                      secure |-> a, editable |-> b]
      BY Zenon DEF entry
    <3>2. listing[k].secure = a /\ listing[k].editable = b
      BY <2>2, <3>1
    <3> QED BY <3>2, Zenon
  <2>10. (\E j \in same(i) : boxes[j].secure) <=> boxes[i].secure
    BY <2>4
  <2>11. (\A j \in same(i) : boxes[j].editable) <=> boxes[i].editable
    BY <2>4
  <2>12. boxes[i].secure = listing[k].secure /\ boxes[i].editable = listing[k].editable
    <3> HIDE DEF same
    <3> QED BY <2>8, <2>9, <2>10, <2>11
  <2>13. i # 0
    BY <1>0, <2>3
  <2> HIDE DEF target
  <2> QED
    BY <2>7, <2>12, <2>13 DEF target
<1>7. ASSUME NEW i \in DOMAIN boxes, boxes[i].shown, boxes[i].role \in shownRoles, NameOf(boxes[i]) # None,
             Len(lines) <= limit
      PROVE  \/ \E k \in DOMAIN listing : listing[k].role = boxes[i].role
                                            /\ Folded[listing[k].name] = Folded[NameOf(boxes[i])]
             \/ \E n \in SecretShaped : n \in DOMAIN Folded /\ Folded[n] = Folded[NameOf(boxes[i])]
  <2>1. i \in same(i) /\ same(i) \subseteq Nat
    BY <1>0, <1>7
  <2>2. PICK f \in same(i) : \A j \in same(i) : f <= j
    <3> HIDE DEF same
    <3> QED BY <2>1, LeastOf
  <2>3. f \in firsts
    BY <1>7, <2>2
  <2>4. PICK l \in DOMAIN lines : lines[l] = entry(f)
    <3> HIDE DEF firsts
    <3> QED BY <1>1, <1>3, <2>3
  <2>5. entry(f).role = boxes[i].role /\ entry(f).name = NameOf(boxes[f])
        /\ Folded[NameOf(boxes[f])] = Folded[NameOf(boxes[i])] /\ NameOf(boxes[f]) # None /\ f \in DOMAIN boxes
    BY <2>2 DEF entry
  <2>6. PICK c \in DOMAIN cut : cut[c] = entry(f)
    BY <1>4, <1>7, <2>4
  <2>7. CASE NameOf(boxes[f]) \in SecretShaped
    <3>1. NameOf(boxes[f]) \in DOMAIN Folded
      BY <1>0, <2>5, NamesTyped
    <3> QED
      BY <2>5, <2>7, <3>1
  <2>8. CASE NameOf(boxes[f]) \notin SecretShaped
    BY <1>5, <2>5, <2>6, <2>8
  <2> QED
    BY <2>7, <2>8
<1>8. Len(lines) \in Nat
  BY <1>3, LenProperties
<1> QED
  <2> HIDE DEF same, firsts
  <2> QED BY <1>6, <1>7, <1>8 DEF listing, cut, lines

-----------------------------------------------------------------------------
OwnWindowInv == WindowTypeOK /\ SiteInv /\ WorkInv /\ ListingIsHonest

\* The run of a step, what the page took of it and what ran out of time stay in keeping with each other.
LEMMA WorkStays ==
  ASSUME OwnWindowInv, [WindowNext]_windowVars
  PROVE  WorkInv'
<1>0. WindowTypeOK /\ WorkInv /\ SiteInv /\ StageInv /\ OverdueInv
  BY DEF OwnWindowInv, WorkInv
<1>1. ASSUME NEW t \in Tasks, StartStep(t) PROVE WorkInv'
  BY <1>0, <1>1, StartKeeps
<1>2. CASE ApproveChanges
  BY <1>0, <1>2, ApproveKeeps
<1>3. CASE DeclineChanges
  <2>1. /\ UNCHANGED <<made, overdue, windowRuns, reports, verdict, proposal, confirmations, position>>
        /\ stage = "proposed" /\ stage' = "closed"
    BY <1>3 DEF DeclineChanges
  <2> QED
    BY <1>0, <2>1, QuietKeeps
<1>4. CASE VerifyChanges
  <2>1. /\ UNCHANGED <<made, overdue, windowRuns, reports, verdict, proposal, confirmations, position>>
        /\ stage = "written" /\ stage' = "verifying"
    BY <1>4 DEF VerifyChanges
  <2> QED
    BY <1>0, <2>1, QuietKeeps
<1>5. CASE CheckOrigin \/ DiscoverSurface \/ PageMoves
  <2>1. UNCHANGED <<made, overdue, windowRuns, reports, verdict, proposal, confirmations, position, stage>>
    BY <1>5 DEF CheckOrigin, DiscoverSurface, PageMoves
  <2> QED
    BY <1>0, <2>1, QuietKeeps
<1>6. CASE NotIssued
  <2>1. Busy /\ Take(Request, Failed) /\ UNCHANGED <<overdue, made>>
    BY <1>6 DEF NotIssued
  <2>2. Bad(Failed) /\ Answers(Request, Failed)
    BY NoAnswers, BadAnswers
  <2> QED
    BY <1>0, <2>1, <2>2, TookKeeps
<1>7. CASE EvaluateScript
  <2>1. PICK a :
          /\ Take(Request, a) /\ Answers(Request, a)
          /\ \/ UNCHANGED made /\ (stage = "writing" => Bad(a))
             \/ /\ stage = "writing"
                /\ \E w \in Taken : w.run = windowRuns /\ w.step = position /\ AsShown(w) /\ made' = Append(made, w)
    BY <1>0, <1>7, Evaluated
  <2>2. Busy /\ UNCHANGED overdue
    BY <1>7 DEF EvaluateScript
  <2>3. CASE UNCHANGED made /\ (stage = "writing" => Bad(a))
    BY <1>0, <2>1, <2>2, <2>3, TookKeeps
  <2>4. ASSUME NEW w \in Taken, stage = "writing", w.run = windowRuns, w.step = position, AsShown(w), made' = Append(made, w)
        PROVE  WorkInv'
    BY <1>0, <2>1, <2>2, <2>4, WroteKeeps
  <2> QED
    BY <2>1, <2>3, <2>4
<1>8. CASE EvaluateTimesOut
  <2>1. /\ Busy /\ Take(Request, Failed) /\ UNCHANGED made
        /\ overdue' = IF Request.kind = "read" THEN overdue ELSE overdue \cup {Request}
    BY <1>8 DEF EvaluateTimesOut
  <2>2. Bad(Failed) /\ Answers(Request, Failed)
    BY NoAnswers, BadAnswers
  <2>3. stage # "writing" => Request.kind = "read"
    BY <1>0, <2>1, ReadsAsk DEF Busy
  <2> QED
    BY <1>0, <2>1, <2>2, <2>3, TookKeeps
<1>9. CASE LateScript
  <2>1. PICK req \in overdue :
          /\ overdue' = overdue \ {req}
          /\ \/ UNCHANGED made
             \/ \E w \in Taken : w.run = req.run /\ w.step = req.step /\ AsShown(w) /\ made' = Append(made, w)
    BY <1>0, <1>9, Landed
  <2>2. UNCHANGED <<stage, position, proposal, reports, verdict, windowRuns, confirmations>>
    BY <1>9 DEF LateScript
  <2>3. CASE UNCHANGED made
    BY <1>0, <2>1, <2>2, <2>3, QuietKeeps
  <2>4. ASSUME NEW w \in Taken, w.run = req.run, w.step = req.step, AsShown(w), made' = Append(made, w) PROVE WorkInv'
    BY <1>0, <2>1, <2>2, <2>4, LateKeeps
  <2> QED
    BY <2>1, <2>3, <2>4
<1>10. CASE UNCHANGED windowVars
  <2>1. UNCHANGED <<made, overdue, windowRuns, reports, verdict, proposal, confirmations, position, stage>>
    BY <1>10 DEF windowVars
  <2> QED
    BY <1>0, <2>1, QuietKeeps
<1> QED
  BY <1>1, <1>2, <1>3, <1>4, <1>5, <1>6, <1>7, <1>8, <1>9, <1>10 DEF WindowNext

\* The last listing stays true of the page it was made from.
LEMMA ListingStays ==
  ASSUME OwnWindowInv, [WindowNext]_windowVars
  PROVE  ListingIsHonest'
<1>1. CASE DiscoverSurface
  <2> DEFINE shownRoles == {"textbox", "combobox", "cell"}
             lines == ListControls(window.controls, shownRoles)
             listing == ParseControls(Chosen(lines, 1 .. SurfaceLimit))
  <2>1. window.controls \in Seq(Control)
    <3>1. Apart \subseteq Control /\ window.controls \in Seq(Apart)
      BY DEF Apart, OwnWindowInv, WindowTypeOK, PageTypeOK
    <3> QED
      BY <3>1, WiderSeq
  <2>2. /\ Len(lines) \in Nat
        /\ \A k \in DOMAIN listing :
             LET e == listing[k]
                 i == ResolveOne(window.controls, Target(e.role, e.name, None))
             IN e.count = 1 => i # 0 /\ window.controls[i].secure = e.secure /\ window.controls[i].editable = e.editable
        /\ \A i \in DOMAIN window.controls :
             /\ window.controls[i].shown /\ window.controls[i].role \in shownRoles /\ NameOf(window.controls[i]) # None
             /\ Len(lines) <= SurfaceLimit
             => \/ \E k \in DOMAIN listing : listing[k].role = window.controls[i].role
                                               /\ Folded[listing[k].name] = Folded[NameOf(window.controls[i])]
                \/ \E n \in SecretShaped : n \in DOMAIN Folded /\ Folded[n] = Folded[NameOf(window.controls[i])]
    BY <2>1, PagesAssumption, ListingIsTrue
  <2>3. looked' = window.controls /\ surface' = [listing |-> listing, truncated |-> Len(lines) > SurfaceLimit]
    BY <1>1 DEF DiscoverSurface
  <2> HIDE DEF listing, lines
  <2>4. Len(lines) > SurfaceLimit \/ Len(lines) <= SurfaceLimit
    BY <2>2, PagesAssumption
  <2>5. surface'.listing = listing /\ (~surface'.truncated => Len(lines) <= SurfaceLimit)
    <3>1. surface'.truncated = (Len(lines) > SurfaceLimit)
      BY <2>3, Zenon
    <3>2. surface'.listing = listing
      BY <2>3, Zenon
    <3> QED
      BY <2>4, <3>1, <3>2, Zenon
  <2> QED
    BY <2>2, <2>3, <2>5 DEF ListingIsHonest
<1>2. ASSUME UNCHANGED <<surface, looked>> PROVE ListingIsHonest'
  BY <1>2 DEF OwnWindowInv, ListingIsHonest
<1>3. ASSUME NEW t \in Tasks, StartStep(t) PROVE ListingIsHonest'
  BY <1>2, <1>3 DEF StartStep
<1>4. CASE ApproveChanges \/ DeclineChanges \/ VerifyChanges \/ CheckOrigin
  BY <1>2, <1>4 DEF ApproveChanges, DeclineChanges, VerifyChanges, CheckOrigin
<1>5. CASE NotIssued \/ EvaluateScript \/ EvaluateTimesOut
  BY <1>2, <1>5 DEF NotIssued, EvaluateScript, EvaluateTimesOut, Take
<1>6. CASE LateScript \/ PageMoves
  BY <1>2, <1>6 DEF LateScript, PageMoves
<1>7. CASE UNCHANGED windowVars
  BY <1>2, <1>7 DEF windowVars
<1> QED
  BY <1>1, <1>3, <1>4, <1>5, <1>6, <1>7 DEF WindowNext

\* All of it holds of every state of the window.
LEMMA WindowInvariant == WindowSpec => []OwnWindowInv
<1>1. WindowInit => OwnWindowInv
  <2> SUFFICES ASSUME WindowInit PROVE OwnWindowInv
    OBVIOUS
  <2>1. /\ window \in [site : {None, "allowed"}, controls : WindowPages] /\ stage = "idle" /\ position = 1 /\ cleared = FALSE
        /\ readings = <<>> /\ proposal = <<>> /\ reports = <<>> /\ verdict = None /\ surface = None /\ overdue = {}
        /\ windowRuns = 0 /\ confirmations = <<>> /\ made = <<>> /\ slipped = FALSE
    BY DEF WindowInit
  <2>2. PageTypeOK
    <3>1. window \in [site : Sites, controls : Seq(Apart)]
      BY <2>1, PagesApart DEF Sites
    <3>2. made \in Seq(Taken)
      BY <2>1, EmptySeq
    <3> QED
      BY <2>1, <3>1, <3>2 DEF PageTypeOK
  <2>3. RunTypeOK
    <3>1. /\ readings \in Seq(Reading) /\ proposal \in Seq(Change) /\ reports \in Seq(Statuses)
          /\ confirmations \in Seq(Seq(Change)) /\ Len(confirmations) = 0
      BY <2>1, EmptySeq
    <3> QED
      BY <2>1, <3>1 DEF RunTypeOK, Stages
  <2>4. DOMAIN made = {} /\ DOMAIN reports = {}
    BY <2>1
  <2>5. MadeInv
    BY <2>4 DEF MadeInv, FirstSteps, TakenIn
  <2>6. OverdueInv /\ StageInv
    BY <2>1, <2>4 DEF OverdueInv, StageInv
  <2>7. ReportsInv
    <3>1. verdict # TRUE
      BY <2>1, NoneAssumption
    <3> QED
      BY <2>4, <3>1 DEF ReportsInv
  <2> QED
    BY <2>1, <2>2, <2>3, <2>5, <2>6, <2>7 DEF OwnWindowInv, WindowTypeOK, WorkInv, SiteInv, ListingIsHonest
<1>2. OwnWindowInv /\ [WindowNext]_windowVars => OwnWindowInv'
  BY WindowTypeStays, SiteStays, WorkStays, ListingStays DEF OwnWindowInv, WorkInv
<1> QED
  BY <1>1, <1>2, PTL DEF WindowSpec

\* What an agent does in its own window is what was shown: for any pages, tasks, movements of the page and scripts
\* that run late.
THEOREM WindowStaysFaithful == WindowSpec => []WindowIsFaithful
<1>1. OwnWindowInv => WindowIsFaithful
  <2> SUFFICES ASSUME OwnWindowInv PROVE WindowIsFaithful
    OBVIOUS
  <2>1. ASSUME NEW k \in DOMAIN made
        PROVE  /\ AsShown(made[k])
               /\ \A l \in TakenIn(made[k].run) : made[l].step = made[k].step => l = k
               /\ \A l \in TakenIn(made[k].run) : made[l].step < made[k].step => l < k
               /\ \A s \in 1 .. made[k].step - 1 : \E l \in TakenIn(made[k].run) : made[l].step = s
    <3>1. AsShown(made[k]) /\ made[k].run \in Nat
      BY Runs DEF OwnWindowInv, WorkInv, MadeInv
    <3>2. k \in TakenIn(made[k].run) /\ FirstSteps(made[k].run)
      BY <3>1 DEF OwnWindowInv, WorkInv, MadeInv, TakenIn
    <3> QED
      BY <3>1, <3>2 DEF FirstSteps
  <2>2. FillsAreFaithful
    BY <2>1 DEF FillsAreFaithful, AsShown, OwnWindowInv, WorkInv, ReportsInv
  <2>3. CredentialsStayInThePage
    <3>1. ASSUME NEW i \in DOMAIN window.controls, NEW a \in DOMAIN readings, window.controls[i].secure
          PROVE  readings[a].value # window.controls[i].value
      <4>1. window.controls[i] \in Apart
        BY Elements DEF OwnWindowInv, WindowTypeOK, PageTypeOK
      <4>2. readings[a] \in Reading
        BY Elements DEF OwnWindowInv, WindowTypeOK, RunTypeOK
      <4> QED
        BY <3>1, <4>1, <4>2 DEF Apart, Reading, Public
    <3> QED
      BY <3>1 DEF CredentialsStayInThePage
  <2> QED
    BY <2>2, <2>3 DEF WindowIsFaithful, OwnWindowInv
<1> QED
  BY <1>1, WindowInvariant, PTL
=============================================================================
