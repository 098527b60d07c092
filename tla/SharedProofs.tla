----------------------------- MODULE SharedProofs -----------------------------
(* What the desktop keeps of its user, in every behaviour and for every value of the constants: the settings    *)
(* its windows share, the suggestions the user answered, what Teach Mode stored, what was taught, the traces of *)
(* what was done, the runs compiled from them, and the cards of the day. Each part states an invariant that     *)
(* every action keeps, typing first, and ends with the theorem it is for.                                      *)
EXTENDS MCShared, ActionTraces, Compilation, Proactivity, SequenceLemmas, FiniteSetTheorems

-----------------------------------------------------------------------------
(* The settings: every window that can catch up with the file is about to, or has. *)

Settings == [consented : BOOLEAN, paused : BOOLEAN, until : Nat \cup {None}, sites : SUBSET Sites,
             apps : SUBSET (BrowserApps \cup OtherApps), writable : SUBSET Origins, follows : BOOLEAN, rest : Extras]
OnFile == Settings \cup {None, Unreadable}
CommandKinds == {"load", "save", "resume"}
Command == [window : Callers, kind : CommandKinds, json : OnFile]
Reply == [kind : CommandKinds, ok : BOOLEAN, raw : OnFile]

SettingsTypeOK ==
  /\ settingsFile \in OnFile /\ copies \in [Windows -> Settings]
  /\ opened \in [Windows -> {"closed", "loading", "hydrated"}] /\ listens \in [Windows -> BOOLEAN]
  /\ commands \in Seq(Command) /\ replies \in [Callers -> Seq(Reply)] /\ news \in [Windows -> Nat]
  /\ clock \in Nat /\ loadedAt \in [Windows -> Nat] /\ astray \subseteq Windows

\* A window has a call of its own to come; a save was run that is not announced yet; an announcement is on
\* its way to the window; the last answer it will see is of a load that read the file as it is; or it has seen it.
Calls(w) == \E i \in DOMAIN commands : commands[i].window = w
IsSaved(r) == r.kind # "load" /\ r.ok
SaveRan == \E x \in Windows : \E i \in DOMAIN replies[x] : IsSaved(replies[x][i])
IsLatest(r) == r.kind = "load" /\ r.raw = settingsFile
Latest(w) == replies[w] # <<>> /\ IsLatest(replies[w][Len(replies[w])])
Holds(w) == opened[w] = "hydrated" /\ copies[w] = Parsed(settingsFile) /\ replies[w] = <<>>
CatchesUp(w) == Calls(w) \/ SaveRan \/ news[w] > 0 \/ Latest(w) \/ Holds(w)

ShareInv == \A w \in Windows : opened[w] = "closed" \/ w \in astray \/ CatchesUp(w)

\* A pause in a window's copy was not over when the window last read the file.
Unlapsed(s, at) == ~(s.paused /\ s.until # None /\ s.until <= at)
PauseInv == \A w \in Windows : loadedAt[w] <= clock /\ Unlapsed(copies[w], loadedAt[w])

\* A window that was never opened has called nothing and listens to nothing.
OpenInv ==
  \A w \in Windows : opened[w] = "closed" => ~Calls(w) /\ replies[w] = <<>> /\ news[w] = 0 /\ ~listens[w]

SettingsInv == SettingsTypeOK /\ ShareInv /\ PauseInv /\ OpenInv

-----------------------------------------------------------------------------
\* A command joins the others.
LEMMA Invoked ==
  ASSUME commands \in Seq(Command), NEW w \in Callers, NEW kind \in CommandKinds, NEW json \in OnFile,
         Invoke(w, kind, json)
  PROVE  /\ commands' \in Seq(Command) /\ Calls(w)'
         /\ \A x \in Callers : Calls(x) => Calls(x)'
         /\ \A x \in Callers : x # w /\ Calls(x)' => Calls(x)
<1>1. PICK c \in Command : c = [window |-> w, kind |-> kind, json |-> json]
  BY DEF Command
<1>2. commands' = Append(commands, c) /\ c.window = w
  BY <1>1 DEF Invoke
<1>3. /\ Append(commands, c) \in Seq(Command) /\ DOMAIN Append(commands, c) = DOMAIN commands \cup {Len(commands) + 1}
      /\ \A i \in DOMAIN commands : Append(commands, c)[i] = commands[i]
      /\ Append(commands, c)[Len(commands) + 1] = c
  BY Appended
<1> QED
  BY <1>2, <1>3 DEF Calls

\* The first command leaves; those of the other windows stay.
LEMMA CommandLeaves ==
  ASSUME commands \in Seq(Command), commands # <<>>, commands' = Tail(commands)
  PROVE  /\ Head(commands) \in Command /\ commands' \in Seq(Command)
         /\ \A x \in Callers : x # Head(commands).window /\ Calls(x) => Calls(x)'
         /\ \A x \in Callers : Calls(x)' \/ x = Head(commands).window => Calls(x)
<1>1. /\ Head(commands) = commands[1] /\ Len(commands) \in Nat /\ DOMAIN commands = 1..Len(commands)
      /\ Head(commands) \in Command /\ 1 \in DOMAIN commands
  BY Shortened, LenProperties
<1>2. /\ Tail(commands) \in Seq(Command) /\ Len(Tail(commands)) = Len(commands) - 1
      /\ \A i \in 1..Len(Tail(commands)) : Tail(commands)[i] = commands[i + 1]
  BY HeadTailProperties
<1>3. DOMAIN commands' = 1..(Len(commands) - 1)
  BY <1>2, LenProperties
<1>4. ASSUME NEW x \in Callers, x # Head(commands).window, Calls(x) PROVE Calls(x)'
  <2>1. PICK i \in DOMAIN commands : commands[i].window = x
    BY <1>4 DEF Calls
  <2>2. i # 1 /\ i - 1 \in 1..(Len(commands) - 1) /\ i - 1 + 1 = i
    BY <1>1, <1>4, <2>1
  <2>3. commands'[i - 1] = commands[i]
    BY <1>2, <2>2
  <2> QED
    BY <1>3, <2>1, <2>2, <2>3 DEF Calls
<1>5. ASSUME NEW x \in Callers, Calls(x)' PROVE Calls(x)
  <2>1. PICK i \in DOMAIN commands' : commands'[i].window = x
    BY <1>5 DEF Calls
  <2>2. i \in 1..(Len(commands) - 1) /\ i + 1 \in 1..Len(commands)
    BY <1>1, <1>3, <2>1
  <2>3. commands'[i] = commands[i + 1]
    BY <1>2, <2>2
  <2> QED
    BY <1>1, <2>1, <2>2, <2>3 DEF Calls
<1>6. ASSUME NEW x \in Callers, x = Head(commands).window PROVE Calls(x)
  BY <1>1, <1>6 DEF Calls
<1> QED
  BY <1>1, <1>2, <1>4, <1>5, <1>6

\* Whoever could catch up still can, when nothing but the commands changed.
LEMMA StillCatchesUp ==
  ASSUME NEW w \in Windows, UNCHANGED <<settingsFile, replies>>, news'[w] = news[w], copies'[w] = copies[w],
         opened'[w] = opened[w], Calls(w) => Calls(w)', CatchesUp(w)
  PROVE  CatchesUp(w)'
BY DEF CatchesUp, SaveRan, Latest, IsLatest, Holds

\* What the user changes.
LEMMA OnlyKeeps ==
  ASSUME SettingsInv, NEW v \in Windows, NEW next \in Settings, opened[v] # "closed", Only(v, next), Unlapsed(next, loadedAt[v])
  PROVE  SettingsInv'
<1>1. /\ copies' = [copies EXCEPT ![v] = next] /\ Invoke(v, "save", next)
      /\ UNCHANGED <<settingsFile, opened, listens, replies, news, clock, loadedAt, astray>>
  BY DEF Only, Update
<1>2. /\ commands' \in Seq(Command) /\ Calls(v)' /\ \A x \in Windows : Calls(x) => Calls(x)'
      /\ \A x \in Windows : x # v /\ Calls(x)' => Calls(x)
  BY <1>1, Invoked DEF SettingsInv, SettingsTypeOK, Callers, CommandKinds, OnFile
<1>3. SettingsTypeOK'
  BY <1>1, <1>2 DEF SettingsInv, SettingsTypeOK
<1>4. \A w \in Windows : w # v => copies'[w] = copies[w]
  BY <1>1 DEF SettingsInv, SettingsTypeOK
<1>5. ASSUME NEW w \in Windows PROVE opened'[w] = "closed" \/ w \in astray' \/ CatchesUp(w)'
  <2>1. CASE w = v
    BY <1>2, <2>1 DEF CatchesUp
  <2>2. CASE w # v
    BY <1>1, <1>2, <1>4, <2>2, StillCatchesUp DEF SettingsInv, ShareInv
  <2> QED
    BY <2>1, <2>2
<1>6. PauseInv'
  <2>1. copies'[v] = next
    BY <1>1 DEF SettingsInv, SettingsTypeOK
  <2> QED
    BY <1>1, <1>4, <2>1 DEF SettingsInv, PauseInv, Unlapsed
<1>7. OpenInv'
  BY <1>1, <1>2 DEF SettingsInv, OpenInv
<1> QED
  BY <1>3, <1>5, <1>6, <1>7 DEF SettingsInv, ShareInv

\* A reply joins those of its window.
LEMMA Replied ==
  ASSUME SettingsTypeOK, NEW v \in Callers, NEW r \in Reply, replies' = [replies EXCEPT ![v] = Append(@, r)]
  PROVE  /\ replies' \in [Callers -> Seq(Reply)]
         /\ DOMAIN replies'[v] = DOMAIN replies[v] \cup {Len(replies[v]) + 1}
         /\ DOMAIN replies[v] = 1..Len(replies[v]) /\ Len(replies[v]) \in Nat
         /\ \A i \in DOMAIN replies[v] : replies'[v][i] = replies[v][i]
         /\ replies'[v][Len(replies[v]) + 1] = r /\ Len(replies'[v]) = Len(replies[v]) + 1 /\ replies'[v] # <<>>
         /\ \A x \in Callers : x # v => replies'[x] = replies[x]
         /\ SaveRan => SaveRan'
<1>1. replies \in [Callers -> Seq(Reply)] /\ replies[v] \in Seq(Reply)
  BY DEF SettingsTypeOK
<1>2. replies'[v] = Append(replies[v], r) /\ \A x \in Callers : x # v => replies'[x] = replies[x]
  BY <1>1
<1>3. /\ Append(replies[v], r) \in Seq(Reply)
      /\ DOMAIN Append(replies[v], r) = DOMAIN replies[v] \cup {Len(replies[v]) + 1}
      /\ \A i \in DOMAIN replies[v] : Append(replies[v], r)[i] = replies[v][i]
      /\ Append(replies[v], r)[Len(replies[v]) + 1] = r
  BY <1>1, Appended
<1>4. replies' \in [Callers -> Seq(Reply)]
  BY <1>1, <1>3
<1>5. DOMAIN replies[v] = 1..Len(replies[v]) /\ Len(replies[v]) \in Nat
  BY <1>1, LenProperties
<1>6. SaveRan => SaveRan'
  BY <1>2, <1>3 DEF SaveRan, Callers
<1>7. Len(Append(replies[v], r)) = Len(replies[v]) + 1 /\ Append(replies[v], r) # <<>>
  BY <1>1, AppendProperties
<1> QED
  BY <1>2, <1>3, <1>4, <1>5, <1>6, <1>7

\* A window takes its first reply.
LEMMA ReplyTaken ==
  ASSUME SettingsTypeOK, NEW v \in Callers, replies[v] # <<>>, replies' = [replies EXCEPT ![v] = Tail(@)]
  PROVE  /\ replies' \in [Callers -> Seq(Reply)] /\ Head(replies[v]) \in Reply /\ Head(replies[v]) = replies[v][1]
         /\ 1 \in DOMAIN replies[v]
         /\ \A x \in Callers : x # v => replies'[x] = replies[x]
         /\ \A i \in DOMAIN replies'[v] : i \in Nat /\ i # 0 /\ i + 1 \in DOMAIN replies[v] /\ replies'[v][i] = replies[v][i + 1]
         /\ \A i \in DOMAIN replies[v] : i \in Nat /\ (i # 1 => i - 1 \in DOMAIN replies'[v] /\ replies'[v][i - 1] = replies[v][i])
         /\ SaveRan /\ ~IsSaved(Head(replies[v])) => SaveRan'
         /\ \/ replies'[v] = <<>> /\ replies[v][Len(replies[v])] = Head(replies[v])
            \/ replies'[v] # <<>> /\ replies'[v][Len(replies'[v])] = replies[v][Len(replies[v])]
<1>1. replies \in [Callers -> Seq(Reply)] /\ replies[v] \in Seq(Reply)
  BY DEF SettingsTypeOK
<1>2. replies'[v] = Tail(replies[v]) /\ \A x \in Callers : x # v => replies'[x] = replies[x]
  BY <1>1
<1>3. /\ Head(replies[v]) \in Reply /\ Head(replies[v]) = replies[v][1] /\ 1 \in DOMAIN replies[v]
      /\ Len(replies[v]) \in Nat /\ DOMAIN replies[v] = 1..Len(replies[v])
  BY <1>1, Shortened, LenProperties
<1>4. /\ Tail(replies[v]) \in Seq(Reply) /\ Len(Tail(replies[v])) = Len(replies[v]) - 1
      /\ \A i \in 1..Len(Tail(replies[v])) : Tail(replies[v])[i] = replies[v][i + 1]
  BY <1>1, HeadTailProperties
<1>5. DOMAIN Tail(replies[v]) = 1..(Len(replies[v]) - 1)
  BY <1>4, LenProperties
<1>6. replies' \in [Callers -> Seq(Reply)]
  BY <1>1, <1>4
<1>7. ASSUME NEW i \in DOMAIN replies'[v]
      PROVE  i \in Nat /\ i # 0 /\ i + 1 \in DOMAIN replies[v] /\ replies'[v][i] = replies[v][i + 1]
  <2>1. i \in 1..(Len(replies[v]) - 1)
    BY <1>2, <1>5
  <2>2. i \in Nat /\ i # 0 /\ i + 1 \in 1..Len(replies[v])
    BY <1>3, <2>1
  <2> QED
    BY <1>2, <1>3, <1>4, <2>1, <2>2
<1>8. ASSUME NEW i \in DOMAIN replies[v]
      PROVE  i \in Nat /\ (i # 1 => i - 1 \in DOMAIN replies'[v] /\ replies'[v][i - 1] = replies[v][i])
  <2>1. i \in Nat /\ 1 <= i /\ i <= Len(replies[v])
    BY <1>3
  <2>2. i # 1 => i - 1 \in 1..(Len(replies[v]) - 1) /\ i - 1 + 1 = i
    BY <1>3, <2>1
  <2> QED
    BY <1>2, <1>4, <1>5, <2>1, <2>2
<1>9. ASSUME SaveRan, ~IsSaved(Head(replies[v])) PROVE SaveRan'
  <2>1. PICK x \in Windows : \E i \in DOMAIN replies[x] : IsSaved(replies[x][i])
    BY <1>9 DEF SaveRan
  <2>2. PICK i \in DOMAIN replies[x] : IsSaved(replies[x][i])
    BY <2>1
  <2>3. CASE x # v
    BY <1>2, <2>2, <2>3 DEF SaveRan, Callers
  <2>4. CASE x = v
    <3>1. i # 1
      BY <1>3, <1>9, <2>2, <2>4
    <3>2. i - 1 \in DOMAIN replies'[v] /\ replies'[v][i - 1] = replies[v][i]
      BY <1>8, <2>4, <3>1
    <3> QED
      BY <2>2, <2>4, <3>2 DEF SaveRan, IsSaved
  <2> QED
    BY <2>3, <2>4
<1>10. \/ replies'[v] = <<>> /\ replies[v][Len(replies[v])] = Head(replies[v])
       \/ replies'[v] # <<>> /\ replies'[v][Len(replies'[v])] = replies[v][Len(replies[v])]
  BY <1>1, <1>2, LastStays
<1> QED
  BY <1>2, <1>3, <1>6, <1>7, <1>8, <1>9, <1>10

\* The commands: a load reads the file, a save writes it and is to be announced, and one that fails, or the save of
\* the bar, leads astray.
LEMMA CommandsKeep ==
  ASSUME SettingsInv, SettingsCommandRuns \/ SettingsCommandFails
  PROVE  SettingsInv'
<1>0. SettingsTypeOK /\ ShareInv /\ PauseInv /\ OpenInv
  BY DEF SettingsInv
<1>1. commands # <<>> /\ commands' = Tail(commands) /\ UNCHANGED <<copies, opened, listens, news, clock, loadedAt>>
  BY DEF SettingsCommandRuns, SettingsCommandFails
<1>a. Head(commands) \in Command
  BY <1>0, <1>1, CommandLeaves DEF SettingsTypeOK
<1>b. PICK c \in Command : c = Head(commands)
  BY <1>a
<1>c. PICK v \in Callers : v = c.window
  BY DEF Command
<1>2. /\ commands' \in Seq(Command) /\ \A x \in Callers : x # v /\ Calls(x) => Calls(x)'
      /\ Calls(v) /\ \A x \in Callers : Calls(x)' => Calls(x)
  BY <1>0, <1>1, <1>b, <1>c, CommandLeaves DEF SettingsTypeOK
<1>3. c.kind \in CommandKinds /\ c.json \in OnFile
  BY DEF Command
<1>4. PauseInv'
  BY <1>0, <1>1 DEF PauseInv
<1>d. \A w \in Windows : w \in Callers /\ w # "bar"
  BY DEF Callers, Windows
<1>5. CASE SettingsCommandRuns
  <2>1. /\ settingsFile' = IF c.kind = "load" THEN settingsFile ELSE c.json
        /\ replies' = [replies EXCEPT ![v] = Append(@, [kind |-> c.kind, ok |-> TRUE, raw |-> settingsFile])]
        /\ astray' = IF c.kind = "load" THEN astray \ {v} ELSE IF v = "bar" THEN Windows ELSE astray
    BY <1>5, <1>b, <1>c DEF SettingsCommandRuns
  <2>2. PICK r \in Reply : r = [kind |-> c.kind, ok |-> TRUE, raw |-> settingsFile]
    BY <1>0, <1>3 DEF Reply, SettingsTypeOK
  <2>3. r.kind = c.kind /\ r.ok /\ r.raw = settingsFile /\ replies' = [replies EXCEPT ![v] = Append(@, r)]
    BY <2>1, <2>2
  <2>4. /\ replies' \in [Callers -> Seq(Reply)]
        /\ DOMAIN replies'[v] = DOMAIN replies[v] \cup {Len(replies[v]) + 1}
        /\ DOMAIN replies[v] = 1..Len(replies[v]) /\ Len(replies[v]) \in Nat
        /\ replies'[v][Len(replies[v]) + 1] = r /\ Len(replies'[v]) = Len(replies[v]) + 1 /\ replies'[v] # <<>>
        /\ \A x \in Callers : x # v => replies'[x] = replies[x]
        /\ SaveRan => SaveRan'
    BY <1>0, <1>3, <2>3, Replied
  <2>5. SettingsTypeOK'
    <3>1. settingsFile' \in OnFile /\ astray' \subseteq Windows
      BY <1>0, <1>3, <2>1 DEF SettingsTypeOK
    <3> QED
      BY <1>0, <1>1, <1>2, <2>4, <3>1 DEF SettingsTypeOK
  <2>6. c.kind # "load" /\ v # "bar" => SaveRan'
    <3>1. v # "bar" => v \in Windows
      BY DEF Callers
    <3> QED
      BY <2>3, <2>4, <3>1 DEF SaveRan, IsSaved
  <2>7. c.kind = "load" => Latest(v)'
    BY <2>1, <2>3, <2>4 DEF Latest, IsLatest
  <2>8. ASSUME NEW w \in Windows, w # v, c.kind = "load", CatchesUp(w) PROVE CatchesUp(w)'
    <3>1. replies'[w] = replies[w] /\ settingsFile' = settingsFile
      BY <1>d, <2>1, <2>4, <2>8
    <3> QED
      BY <1>1, <1>2, <1>d, <2>4, <2>8, <3>1 DEF CatchesUp, Latest, IsLatest, Holds
  <2>9. ASSUME NEW w \in Windows PROVE opened'[w] = "closed" \/ w \in astray' \/ CatchesUp(w)'
    <3>1. CASE c.kind # "load"
      BY <2>1, <2>6, <3>1 DEF CatchesUp
    <3>2. CASE c.kind = "load" /\ w = v
      BY <2>7, <3>2 DEF CatchesUp
    <3>3. CASE c.kind = "load" /\ w # v
      BY <1>0, <1>1, <2>1, <2>8, <3>3 DEF ShareInv
    <3> QED
      BY <3>1, <3>2, <3>3
  <2>10. OpenInv'
    BY <1>0, <1>1, <1>2, <1>d, <2>4 DEF OpenInv
  <2> QED
    BY <1>4, <2>5, <2>9, <2>10 DEF SettingsInv, ShareInv
<1>6. CASE SettingsCommandFails
  <2>1. /\ settingsFile' = settingsFile /\ astray' = astray \cup ({v} \cap Windows)
        /\ replies' = [replies EXCEPT ![v] = Append(@, [kind |-> c.kind, ok |-> FALSE, raw |-> None])]
    BY <1>6, <1>b, <1>c DEF SettingsCommandFails
  <2>2. PICK r \in Reply : r = [kind |-> c.kind, ok |-> FALSE, raw |-> None]
    BY <1>3 DEF Reply, OnFile
  <2>3. replies' = [replies EXCEPT ![v] = Append(@, r)]
    BY <2>1, <2>2
  <2>4. replies' \in [Callers -> Seq(Reply)] /\ (\A x \in Callers : x # v => replies'[x] = replies[x]) /\ (SaveRan => SaveRan')
    BY <1>0, <1>3, <2>3, Replied
  <2>5. SettingsTypeOK'
    BY <1>0, <1>1, <1>2, <1>3, <2>1, <2>4 DEF SettingsTypeOK
  <2>6. ASSUME NEW w \in Windows, w # v, CatchesUp(w) PROVE CatchesUp(w)'
    <3>1. replies'[w] = replies[w]
      BY <1>d, <2>4, <2>6
    <3> QED
      BY <1>1, <1>2, <1>d, <2>1, <2>4, <2>6, <3>1 DEF CatchesUp, Latest, IsLatest, Holds
  <2>7. ShareInv'
    BY <1>0, <1>1, <2>1, <2>6 DEF ShareInv
  <2>8. OpenInv'
    BY <1>0, <1>1, <1>2, <1>d, <2>4 DEF OpenInv
  <2> QED
    BY <1>4, <2>5, <2>7, <2>8 DEF SettingsInv
<1> QED
  BY <1>5, <1>6

\* Windows that open, windows that hear an announcement, and their listeners.
LEMMA WindowsKeep ==
  ASSUME SettingsInv, NEW v \in Windows, OpenWindow(v) \/ Listen(v) \/ PetRelistens \/ SettingsChanged(v) \/ Minute
  PROVE  SettingsInv'
<1>0. SettingsTypeOK /\ ShareInv /\ PauseInv /\ OpenInv
  BY DEF SettingsInv
<1>1. UNCHANGED <<settingsFile, copies, replies, loadedAt, astray>>
  BY DEF OpenWindow, Listen, PetRelistens, SettingsChanged, Minute
<1>2. CASE OpenWindow(v) \/ SettingsChanged(v)
  <2>1. Invoke(v, "load", None) /\ UNCHANGED <<listens, clock>>
    BY <1>2 DEF OpenWindow, SettingsChanged
  <2>2. /\ commands' \in Seq(Command) /\ Calls(v)' /\ \A x \in Windows : Calls(x) => Calls(x)'
        /\ \A x \in Windows : x # v /\ Calls(x)' => Calls(x)
    BY <1>0, <2>1, Invoked DEF SettingsTypeOK, Callers, CommandKinds, OnFile
  <2>3. /\ opened' \in [Windows -> {"closed", "loading", "hydrated"}] /\ news' \in [Windows -> Nat]
        /\ \A w \in Windows : w # v => opened'[w] = opened[w] /\ news'[w] = news[w]
    <3>1. CASE OpenWindow(v)
      BY <1>0, <3>1 DEF OpenWindow, SettingsTypeOK
    <3>2. CASE SettingsChanged(v)
      <4>1. news[v] \in Nat /\ news[v] > 0
        BY <1>0, <3>2 DEF SettingsChanged, SettingsTypeOK
      <4>2. news[v] - 1 \in Nat
        BY <4>1
      <4> QED
        BY <1>0, <3>2, <4>2 DEF SettingsChanged, SettingsTypeOK
    <3> QED
      BY <1>2, <3>1, <3>2
  <2>4. SettingsTypeOK'
    BY <1>0, <1>1, <2>1, <2>2, <2>3 DEF SettingsTypeOK
  <2>5. ASSUME NEW w \in Windows PROVE opened'[w] = "closed" \/ w \in astray' \/ CatchesUp(w)'
    <3>1. CASE w = v
      BY <2>2, <3>1 DEF CatchesUp
    <3>2. CASE w # v
      BY <1>0, <1>1, <2>2, <2>3, <3>2, StillCatchesUp DEF ShareInv
    <3> QED
      BY <3>1, <3>2
  <2>6. PauseInv'
    BY <1>0, <1>1, <2>1 DEF PauseInv
  <2>7. opened'[v] # "closed"
    BY <1>0, <1>2 DEF OpenWindow, SettingsChanged, OpenInv, SettingsTypeOK
  <2>8. OpenInv'
    BY <1>0, <1>1, <2>1, <2>2, <2>3, <2>7 DEF OpenInv
  <2> QED
    BY <2>4, <2>5, <2>6, <2>8 DEF SettingsInv, ShareInv
<1>3. CASE Listen(v) \/ PetRelistens \/ Minute
  <2>1. UNCHANGED <<opened, commands, news>>
    BY <1>3 DEF Listen, PetRelistens, Minute
  <2>2. listens' \in [Windows -> BOOLEAN]
    BY <1>0, <1>3 DEF Listen, PetRelistens, Minute, SettingsTypeOK, Windows
  <2>3. clock' \in Nat /\ clock <= clock'
    BY <1>0, <1>3 DEF Listen, PetRelistens, Minute, SettingsTypeOK
  <2>4. SettingsTypeOK'
    BY <1>0, <1>1, <2>1, <2>2, <2>3 DEF SettingsTypeOK
  <2>5. ShareInv'
    BY <1>0, <1>1, <2>1 DEF ShareInv, CatchesUp, Calls, SaveRan, Latest, IsLatest, Holds
  <2>6. PauseInv'
    <3>1. \A w \in Windows : loadedAt[w] \in Nat /\ loadedAt[w] <= clock
      BY <1>0 DEF SettingsTypeOK, PauseInv
    <3>2. \A w \in Windows : loadedAt[w] <= clock'
      BY <1>0, <2>3, <3>1 DEF SettingsTypeOK
    <3> QED
      BY <1>0, <1>1, <3>2 DEF PauseInv
  <2>7. OpenInv'
    <3>1. \A w \in Windows : listens'[w] => listens[w] \/ opened[w] # "closed"
      BY <1>0, <1>3 DEF Listen, PetRelistens, Minute, SettingsTypeOK, Windows
    <3> QED
      BY <1>0, <1>1, <2>1, <3>1 DEF OpenInv, Calls
  <2> QED
    BY <2>4, <2>5, <2>6, <2>7 DEF SettingsInv
<1> QED
  BY <1>2, <1>3

\* What is read of a file: its settings, or the defaults when it holds none.
LEMMA DefaultsAreSettings == DefaultSettings \in Settings /\ ~DefaultSettings.consented /\ DefaultSettings.until = None
<1>1. (CHOOSE x \in Extras : TRUE) \in Extras
  BY SettingsAssumption
<1> QED
  BY <1>1 DEF DefaultSettings, Settings

\* A lapsed pause ends; nothing else of the settings changes.
LEMMA ResumedIs ==
  ASSUME NEW s \in Settings
  PROVE  Resumed(s) \in Settings /\ \A at \in Nat : Unlapsed(Resumed(s), at)
BY DEF Resumed, Settings, Unlapsed

\* A load that was answered: the window holds what it read, or asks for the pause it found over to be saved.
LEMMA LoadKeeps ==
  ASSUME SettingsInv, NEW v \in Windows, LoadAnswered(v)
  PROVE  SettingsInv'
<1>0. SettingsTypeOK /\ ShareInv /\ PauseInv /\ OpenInv
  BY DEF SettingsInv
<1>1. /\ replies[v] # <<>> /\ Head(replies[v]).kind = "load"
      /\ replies' = [replies EXCEPT ![v] = Tail(@)]
      /\ opened' = [opened EXCEPT ![v] = "hydrated"] /\ loadedAt' = [loadedAt EXCEPT ![v] = clock]
      /\ UNCHANGED <<settingsFile, listens, news, clock, mishaps, astray>>
  BY DEF LoadAnswered
<1>2. /\ replies' \in [Callers -> Seq(Reply)] /\ Head(replies[v]) \in Reply /\ Head(replies[v]) = replies[v][1]
      /\ 1 \in DOMAIN replies[v]
      /\ \A x \in Callers : x # v => replies'[x] = replies[x]
      /\ SaveRan /\ ~IsSaved(Head(replies[v])) => SaveRan'
      /\ \/ replies'[v] = <<>> /\ replies[v][Len(replies[v])] = Head(replies[v])
         \/ replies'[v] # <<>> /\ replies'[v][Len(replies'[v])] = replies[v][Len(replies[v])]
  BY <1>0, <1>1, ReplyTaken DEF Callers
<1>3. PICK r \in Reply : r = Head(replies[v])
  BY <1>2
<1>4. r.kind = "load" /\ r.raw \in OnFile /\ r = replies[v][1] /\ (SaveRan => SaveRan')
  BY <1>1, <1>2, <1>3 DEF Reply, IsSaved
<1>5. PICK now \in Nat : now = clock
  BY <1>0 DEF SettingsTypeOK
\* What the window holds then.
<1>6. \E next \in Settings :
        /\ copies' = [copies EXCEPT ![v] = next] /\ Unlapsed(next, now)
        /\ \/ next = Parsed(r.raw) /\ UNCHANGED commands
           \/ Invoke(v, "resume", next)
  <2>1. CASE r.raw \in {None, Unreadable}
    <3>1. copies' = [copies EXCEPT ![v] = DefaultSettings] /\ UNCHANGED commands
      BY <1>3, <2>1 DEF LoadAnswered
    <3>2. Unlapsed(DefaultSettings, now) /\ Parsed(r.raw) = DefaultSettings
      BY <2>1, DefaultsAreSettings DEF Unlapsed, Parsed
    <3> QED
      BY <3>1, <3>2, DefaultsAreSettings
  <2>2. CASE r.raw \notin {None, Unreadable} /\ Lapsed(r.raw)
    <3>1. copies' = [copies EXCEPT ![v] = Resumed(r.raw)] /\ Invoke(v, "resume", Resumed(r.raw))
      BY <1>3, <2>2 DEF LoadAnswered, ExpirePauseIfDue, Update
    <3>2. Resumed(r.raw) \in Settings /\ Unlapsed(Resumed(r.raw), now)
      BY <1>4, <2>2, ResumedIs DEF OnFile
    <3> QED
      BY <3>1, <3>2
  <2>3. CASE r.raw \notin {None, Unreadable} /\ ~Lapsed(r.raw)
    <3>1. copies' = [copies EXCEPT ![v] = r.raw] /\ UNCHANGED commands
      BY <1>3, <2>3 DEF LoadAnswered, ExpirePauseIfDue
    <3>2. Unlapsed(r.raw, now) /\ Parsed(r.raw) = r.raw
      <4>1. r.raw \in Settings /\ (r.raw.until # None => r.raw.until \in Nat)
        BY <1>4, <2>3 DEF OnFile, Settings
      <4> QED
        BY <1>5, <2>3, <4>1 DEF Lapsed, Unlapsed, Parsed
    <3> QED
      BY <1>4, <2>3, <3>1, <3>2 DEF OnFile
  <2> QED
    BY <2>1, <2>2, <2>3
<1>7. PICK next \in Settings :
        /\ copies' = [copies EXCEPT ![v] = next] /\ Unlapsed(next, now)
        /\ \/ next = Parsed(r.raw) /\ UNCHANGED commands
           \/ Invoke(v, "resume", next)
  BY <1>6
<1>8. /\ commands' \in Seq(Command) /\ \A x \in Windows : Calls(x) => Calls(x)'
      /\ \A x \in Windows : x # v /\ Calls(x)' => Calls(x)
  <2>1. CASE UNCHANGED commands
    BY <1>0, <2>1 DEF SettingsTypeOK, Calls
  <2>2. CASE Invoke(v, "resume", next)
    BY <1>0, <2>2, Invoked DEF SettingsTypeOK, Callers, CommandKinds, OnFile
  <2> QED
    BY <1>7, <2>1, <2>2
<1>9. SettingsTypeOK'
  BY <1>0, <1>1, <1>2, <1>7, <1>8 DEF SettingsTypeOK
<1>10. PauseInv'
  <2>1. copies'[v] = next /\ loadedAt'[v] = now /\ clock' = now /\ now <= now
    BY <1>0, <1>1, <1>5, <1>7 DEF SettingsTypeOK
  <2>2. \A w \in Windows : w # v => copies'[w] = copies[w] /\ loadedAt'[w] = loadedAt[w]
    BY <1>0, <1>1, <1>7 DEF SettingsTypeOK
  <2> QED
    BY <1>0, <1>5, <1>7, <2>1, <2>2 DEF PauseInv
<1>11. ASSUME NEW w \in Windows, w # v, CatchesUp(w) PROVE CatchesUp(w)'
  <2>1. replies'[w] = replies[w] /\ opened'[w] = opened[w] /\ copies'[w] = copies[w] /\ (Calls(w) => Calls(w)')
    BY <1>0, <1>1, <1>2, <1>7, <1>8, <1>11 DEF SettingsTypeOK, Callers
  <2> QED
    BY <1>1, <1>4, <1>11, <2>1 DEF CatchesUp, Latest, IsLatest, Holds
<1>12. ASSUME CatchesUp(v) PROVE CatchesUp(v)'
  <2>1. CASE Calls(v) \/ SaveRan \/ news[v] > 0
    BY <1>1, <1>4, <1>8, <2>1 DEF CatchesUp
  <2>2. CASE Holds(v)
    BY <1>1, <2>2 DEF Holds
  <2>3. CASE Latest(v)
    <3>1. CASE replies'[v] # <<>>
      BY <1>1, <1>2, <2>3, <3>1 DEF CatchesUp, Latest, IsLatest
    <3>2. CASE replies'[v] = <<>>
      <4>1. r.raw = settingsFile
        BY <1>2, <1>3, <2>3, <3>2 DEF Latest, IsLatest
      <4>2. opened'[v] = "hydrated" /\ copies'[v] = next
        BY <1>0, <1>1, <1>7 DEF SettingsTypeOK
      <4>3. CASE next = Parsed(r.raw)
        BY <1>1, <3>2, <4>1, <4>2, <4>3 DEF CatchesUp, Holds
      <4>4. CASE Invoke(v, "resume", next)
        BY <1>0, <4>4, Invoked DEF CatchesUp, SettingsTypeOK, Callers, CommandKinds, OnFile
      <4> QED
        BY <1>7, <4>3, <4>4
    <3> QED
      BY <3>1, <3>2
  <2> QED
    BY <1>12, <2>1, <2>2, <2>3 DEF CatchesUp
<1>13. ASSUME NEW w \in Windows PROVE opened'[w] = "closed" \/ w \in astray' \/ CatchesUp(w)'
  <2>1. CASE w = v
    <3>1. opened[v] # "closed"
      BY <1>0, <1>1 DEF OpenInv
    <3> QED
      BY <1>0, <1>1, <1>12, <2>1, <3>1 DEF ShareInv
  <2>2. CASE w # v
    <3>1. opened'[w] = opened[w]
      BY <1>0, <1>1, <2>2 DEF SettingsTypeOK
    <3> QED
      BY <1>0, <1>1, <1>11, <2>2, <3>1 DEF ShareInv
  <2> QED
    BY <2>1, <2>2
<1>14. OpenInv'
  <2>1. opened'[v] = "hydrated" /\ \A w \in Windows : w # v => opened'[w] = opened[w]
    BY <1>0, <1>1 DEF SettingsTypeOK
  <2> QED
    BY <1>0, <1>1, <1>2, <1>8, <2>1 DEF OpenInv, Callers
<1> QED
  BY <1>9, <1>10, <1>13, <1>14 DEF SettingsInv, ShareInv

\* A save that was answered: every window that listens is told, and one that is open and does not is astray.
LEMMA SaveKeeps ==
  ASSUME SettingsInv, NEW v \in Windows, SaveAcknowledged(v)
  PROVE  SettingsInv'
<1>0. SettingsTypeOK /\ ShareInv /\ PauseInv /\ OpenInv
  BY DEF SettingsInv
<1>1. /\ replies[v] # <<>> /\ Head(replies[v]).kind # "load"
      /\ replies' = [replies EXCEPT ![v] = Tail(@)]
      /\ UNCHANGED <<settingsFile, opened, listens, commands, clock, loadedAt>>
  BY DEF SaveAcknowledged
\* The copy of a window whose resume failed is the defaults, and that window is astray.
<1>a. \/ copies' = copies
      \/ copies' = [copies EXCEPT ![v] = DefaultSettings] /\ ~Head(replies[v]).ok
  BY DEF SaveAcknowledged
<1>b. copies' \in [Windows -> Settings] /\ \A w \in Windows : copies'[w] = copies[w] \/ copies'[w] = DefaultSettings
  BY <1>0, <1>a, DefaultsAreSettings DEF SettingsTypeOK
<1>2. /\ replies' \in [Callers -> Seq(Reply)] /\ Head(replies[v]) \in Reply /\ Head(replies[v]) = replies[v][1]
      /\ 1 \in DOMAIN replies[v]
      /\ \A x \in Callers : x # v => replies'[x] = replies[x]
      /\ SaveRan /\ ~IsSaved(Head(replies[v])) => SaveRan'
      /\ \/ replies'[v] = <<>> /\ replies[v][Len(replies[v])] = Head(replies[v])
         \/ replies'[v] # <<>> /\ replies'[v][Len(replies'[v])] = replies[v][Len(replies[v])]
  BY <1>0, <1>1, ReplyTaken DEF Callers
<1>3. /\ news' \in [Windows -> Nat] /\ astray' \subseteq Windows /\ astray \subseteq astray'
      /\ \A w \in Windows : news[w] > 0 => news'[w] > 0
      /\ \A w \in Windows : opened[w] = "closed" => news'[w] = 0
  <2>1. CASE Head(replies[v]).ok
    <3>1. news' = Announced /\ astray' = astray \cup {x \in Windows : opened[x] # "closed" /\ ~listens[x]}
      BY <2>1 DEF SaveAcknowledged
    <3>2. \A w \in Windows : news'[w] = IF listens[w] THEN news[w] + 1 ELSE news[w]
      BY <3>1 DEF Announced
    <3>3. \A w \in Windows : news[w] \in Nat /\ news[w] + 1 \in Nat
      BY <1>0 DEF SettingsTypeOK
    <3>4. news' \in [Windows -> Nat]
      BY <3>1, <3>3 DEF Announced
    <3>5. \A w \in Windows : news[w] > 0 => news'[w] > 0
      BY <3>2, <3>3
    <3>6. \A w \in Windows : opened[w] = "closed" => news'[w] = 0
      BY <1>0, <3>2 DEF OpenInv
    <3> QED
      BY <1>0, <3>1, <3>4, <3>5, <3>6 DEF SettingsTypeOK
  <2>2. CASE ~Head(replies[v]).ok
    <3>1. UNCHANGED <<news, astray>>
      BY <2>2 DEF SaveAcknowledged
    <3> QED
      BY <1>0, <3>1 DEF SettingsTypeOK, OpenInv
  <2> QED
    BY <2>1, <2>2
<1>4. SettingsTypeOK'
  BY <1>0, <1>1, <1>2, <1>3, <1>b DEF SettingsTypeOK
<1>5. PauseInv' /\ OpenInv'
  <2>1. \A w \in Windows : Unlapsed(copies'[w], loadedAt[w])
    BY <1>0, <1>b, DefaultsAreSettings DEF PauseInv, Unlapsed
  <2> QED
    BY <1>0, <1>1, <1>2, <1>3, <2>1 DEF PauseInv, OpenInv, Calls, Callers
\* A load the window has yet to see is still there: what it took is a save.
<1>6. ASSUME NEW w \in Windows, Latest(w) PROVE Latest(w)'
  <2>1. CASE w # v
    BY <1>1, <1>2, <1>6, <2>1 DEF Latest, IsLatest, Callers
  <2>2. CASE w = v
    BY <1>1, <1>2, <1>6, <2>2 DEF Latest, IsLatest
  <2> QED
    BY <2>1, <2>2
\* A window that waits for no answer is another one.
<1>7. ASSUME NEW w \in Windows, Holds(w) PROVE Holds(w)'
  <2>1. w # v /\ replies'[w] = replies[w]
    BY <1>1, <1>2, <1>7 DEF Holds, Callers
  <2>2. copies'[w] = copies[w]
    BY <1>0, <1>a, <2>1 DEF SettingsTypeOK
  <2> QED
    BY <1>1, <1>7, <2>1, <2>2 DEF Holds
<1>8. ASSUME NEW w \in Windows PROVE opened'[w] = "closed" \/ w \in astray' \/ CatchesUp(w)'
  <2>1. CASE IsSaved(Head(replies[v]))
    <3>1. news' = Announced /\ astray' = astray \cup {x \in Windows : opened[x] # "closed" /\ ~listens[x]}
      BY <2>1 DEF SaveAcknowledged, IsSaved
    <3>2. news[w] \in Nat /\ news[w] + 1 > 0
      BY <1>0 DEF SettingsTypeOK
    <3>3. listens[w] => news'[w] > 0
      BY <3>1, <3>2 DEF Announced
    <3> QED
      BY <1>1, <3>1, <3>3 DEF CatchesUp
  <2>2. CASE ~IsSaved(Head(replies[v]))
    BY <1>0, <1>1, <1>2, <1>3, <1>6, <1>7, <2>2 DEF ShareInv, CatchesUp, Calls
  <2> QED
    BY <2>1, <2>2
<1> QED
  BY <1>4, <1>5, <1>8 DEF SettingsInv, ShareInv

\* The bar changes no copy: it only asks for the file, and for what it made of it to be written.
LEMMA BarKeeps ==
  ASSUME SettingsInv, BarDragged \/ BarAnswered
  PROVE  SettingsInv'
<1>0. SettingsTypeOK /\ ShareInv /\ PauseInv /\ OpenInv
  BY DEF SettingsInv
<1>1. UNCHANGED <<settingsFile, copies, opened, listens, news, clock, loadedAt, astray>>
  BY DEF BarDragged, BarAnswered
<1>2. "bar" \in Callers /\ \A w \in Windows : w \in Callers /\ w # "bar"
  BY DEF Callers, Windows
<1>a. ASSUME BarAnswered
      PROVE  replies' \in [Callers -> Seq(Reply)] /\ (\A w \in Windows : replies'[w] = replies[w]) /\ Head(replies["bar"]) \in Reply
  <2>1. replies["bar"] # <<>> /\ replies' = [replies EXCEPT !["bar"] = Tail(@)]
    BY <1>a DEF BarAnswered
  <2> QED
    BY <1>0, <1>2, <2>1, ReplyTaken
<1>b. ASSUME BarDragged PROVE replies' \in [Callers -> Seq(Reply)] /\ \A w \in Windows : replies'[w] = replies[w]
  BY <1>0, <1>b DEF BarDragged, SettingsTypeOK
<1>3. /\ replies' \in [Callers -> Seq(Reply)] /\ (\A w \in Windows : replies'[w] = replies[w])
      /\ BarAnswered => Head(replies["bar"]) \in Reply
  BY <1>a, <1>b
\* What it asks for, if anything.
<1>4. \/ UNCHANGED commands
      \/ \E kind \in CommandKinds, json \in OnFile : Invoke("bar", kind, json)
  <2>1. CASE BarDragged
    BY <2>1 DEF BarDragged, CommandKinds, OnFile
  <2>2. CASE BarAnswered /\ ~UNCHANGED commands
    <3>1. PICK r \in Reply : r = Head(replies["bar"])
      BY <1>3, <2>2
    <3>2. r.raw # Unreadable /\ Invoke("bar", "save", [Parsed(r.raw) EXCEPT !.follows = FALSE])
      BY <2>2, <3>1 DEF BarAnswered
    <3>3. PICK unpacked \in Settings : unpacked = Parsed(r.raw)
      BY <3>2, DefaultsAreSettings DEF Reply, OnFile, Parsed
    <3>4. [unpacked EXCEPT !.follows = FALSE] \in Settings
      BY DEF Settings
    <3> QED
      BY <3>2, <3>3, <3>4 DEF CommandKinds, OnFile
  <2> QED
    BY <2>1, <2>2
<1>5. commands' \in Seq(Command) /\ \A w \in Windows : Calls(w) <=> Calls(w)'
  <2>1. CASE UNCHANGED commands
    BY <1>0, <2>1 DEF SettingsTypeOK, Calls
  <2>2. ASSUME NEW kind \in CommandKinds, NEW json \in OnFile, Invoke("bar", kind, json)
        PROVE  commands' \in Seq(Command) /\ \A w \in Windows : Calls(w) <=> Calls(w)'
    BY <1>0, <1>2, <2>2, Invoked DEF SettingsTypeOK
  <2> QED
    BY <1>4, <2>1, <2>2
<1>6. SettingsTypeOK' /\ PauseInv' /\ OpenInv'
  BY <1>0, <1>1, <1>3, <1>5 DEF SettingsTypeOK, PauseInv, OpenInv
<1>7. ASSUME NEW w \in Windows, CatchesUp(w) PROVE CatchesUp(w)'
  BY <1>1, <1>3, <1>5, <1>7 DEF CatchesUp, SaveRan, Latest, IsLatest, Holds
<1> QED
  BY <1>0, <1>1, <1>6, <1>7 DEF SettingsInv, ShareInv

\* Whatever the user does in a window, it does to a copy no deadline of which has passed.
LEMMA ChangesKeep ==
  ASSUME SettingsInv,
         \/ \E w \in Windows : Resume(w) \/ \E n \in PauseLengths : PauseFor(w, n)
         \/ PauseLapses
         \/ \E s \in Sites : AddDomain(s) \/ RemoveDomain(s)
         \/ \E a \in OtherApps \cup BrowserApps : ToggleApp(a)
         \/ \E o \in Origins : AddActuationOrigin(o) \/ RemoveActuationOrigin(o)
         \/ \E x \in Extras : ChangeOther(x)
         \/ \E chosen \in SUBSET Sites, observe \in BOOLEAN : Finish(chosen, observe)
  PROVE  SettingsInv'
<1>0. SettingsTypeOK /\ PauseInv
  BY DEF SettingsInv
<1>1. "panel" \in Windows
  BY DEF Windows
<1>2. \A v \in Windows : copies[v] \in Settings /\ Unlapsed(copies[v], loadedAt[v]) /\ loadedAt[v] \in Nat /\ loadedAt[v] <= clock
  BY <1>0 DEF SettingsTypeOK, PauseInv
<1>3. ASSUME NEW w \in Windows, NEW n \in PauseLengths, PauseFor(w, n) PROVE SettingsInv'
  <2>1. PICK u \in Nat : u = clock + n
    BY <1>0, SettingsAssumption DEF SettingsTypeOK
  <2>2. loadedAt[w] < u
    BY <1>0, <1>2, <2>1, SettingsAssumption DEF SettingsTypeOK
  <2>3. PICK c \in Settings : c = copies[w]
    BY <1>2
  <2>4. [c EXCEPT !.paused = TRUE, !.until = u] \in Settings
    BY DEF Settings
  <2>5. [c EXCEPT !.paused = TRUE, !.until = u].until = u
    BY DEF Settings
  <2>6. Unlapsed([c EXCEPT !.paused = TRUE, !.until = u], loadedAt[w])
    BY <1>2, <2>2, <2>5 DEF Unlapsed
  <2>7. opened[w] # "closed" /\ Only(w, [c EXCEPT !.paused = TRUE, !.until = u])
    BY <1>3, <2>1, <2>3 DEF PauseFor, Reach, PanelReach
  <2> QED
    BY <2>4, <2>6, <2>7, OnlyKeeps
<1>4. CASE (\E w \in Windows : Resume(w)) \/ PauseLapses
  <2>1. PICK v \in Windows : opened[v] # "closed" /\ Only(v, Resumed(copies[v]))
    BY <1>1, <1>4 DEF Resume, PauseLapses, Reach, PanelReach
  <2> QED
    BY <1>2, <2>1, ResumedIs, OnlyKeeps
<1>5. CASE \/ \E s \in Sites : AddDomain(s) \/ RemoveDomain(s)
           \/ \E a \in OtherApps \cup BrowserApps : ToggleApp(a)
           \/ \E o \in Origins : AddActuationOrigin(o) \/ RemoveActuationOrigin(o)
           \/ \E x \in Extras : ChangeOther(x)
  <2>1. PICK c \in Settings : c = copies["panel"]
    BY <1>1, <1>2
  <2>2. \E next \in Settings : Only("panel", next) /\ next.paused = c.paused /\ next.until = c.until
    <3>1. ASSUME NEW s \in Sites, AddDomain(s) \/ RemoveDomain(s)
          PROVE  \E next \in Settings : Only("panel", next) /\ next.paused = c.paused /\ next.until = c.until
      <4>1. PICK d \in SUBSET Sites : Only("panel", [c EXCEPT !.sites = d])
        <5>1. c.sites \cup {s} \in SUBSET Sites /\ c.sites \ {s} \in SUBSET Sites
          BY DEF Settings
        <5> QED
          BY <2>1, <3>1, <5>1 DEF AddDomain, RemoveDomain
      <4>2. [c EXCEPT !.sites = d] \in Settings
        BY DEF Settings
      <4> QED
        BY <4>1, <4>2 DEF Settings
    <3>2. ASSUME NEW a \in OtherApps \cup BrowserApps, ToggleApp(a)
          PROVE  \E next \in Settings : Only("panel", next) /\ next.paused = c.paused /\ next.until = c.until
      <4>1. PICK d \in SUBSET (BrowserApps \cup OtherApps) : Only("panel", [c EXCEPT !.apps = d])
        <5>1. (IF a \in c.apps THEN c.apps \ {a} ELSE c.apps \cup {a}) \in SUBSET (BrowserApps \cup OtherApps)
          BY DEF Settings
        <5> QED
          BY <2>1, <3>2, <5>1 DEF ToggleApp
      <4>2. [c EXCEPT !.apps = d] \in Settings
        BY DEF Settings
      <4> QED
        BY <4>1, <4>2 DEF Settings
    <3>3. ASSUME NEW o \in Origins, AddActuationOrigin(o) \/ RemoveActuationOrigin(o)
          PROVE  \E next \in Settings : Only("panel", next) /\ next.paused = c.paused /\ next.until = c.until
      <4>1. PICK d \in SUBSET Origins : Only("panel", [c EXCEPT !.writable = d])
        <5>1. c.writable \cup {o} \in SUBSET Origins /\ c.writable \ {o} \in SUBSET Origins
          BY DEF Settings
        <5> QED
          BY <2>1, <3>3, <5>1 DEF AddActuationOrigin, RemoveActuationOrigin
      <4>2. [c EXCEPT !.writable = d] \in Settings
        BY DEF Settings
      <4> QED
        BY <4>1, <4>2 DEF Settings
    <3>4. ASSUME NEW x \in Extras, ChangeOther(x)
          PROVE  \E next \in Settings : Only("panel", next) /\ next.paused = c.paused /\ next.until = c.until
      <4>1. [c EXCEPT !.rest = x] \in Settings
        BY DEF Settings
      <4> QED
        BY <2>1, <3>4, <4>1 DEF ChangeOther, Settings
    <3> QED
      BY <1>5, <3>1, <3>2, <3>3, <3>4
  <2>3. PICK next \in Settings : Only("panel", next) /\ next.paused = c.paused /\ next.until = c.until
    BY <2>2
  <2>4. opened["panel"] # "closed"
    BY <1>5 DEF AddDomain, RemoveDomain, ToggleApp, AddActuationOrigin, RemoveActuationOrigin, ChangeOther, PanelReach
  <2>5. Unlapsed(next, loadedAt["panel"])
    BY <1>1, <1>2, <2>1, <2>3 DEF Unlapsed
  <2> QED
    BY <1>1, <2>3, <2>4, <2>5, OnlyKeeps
<1>6. ASSUME NEW chosen \in SUBSET Sites, NEW observe \in BOOLEAN, Finish(chosen, observe) PROVE SettingsInv'
  <2>1. PICK c \in Settings : c = copies["panel"]
    BY <1>1, <1>2
  <2>2. PICK d \in SUBSET (BrowserApps \cup OtherApps) : d = BundlesForDomains(chosen, c.apps)
    <3>1. c.apps \in SUBSET (BrowserApps \cup OtherApps)
      BY DEF Settings
    <3> QED
      BY <3>1 DEF BundlesForDomains
  <2>3. PICK b \in BOOLEAN : b = ~observe
    OBVIOUS
  <2>4. /\ [c EXCEPT !.consented = TRUE, !.paused = b, !.until = None, !.sites = chosen, !.apps = d] \in Settings
        /\ [c EXCEPT !.consented = TRUE, !.paused = b, !.until = None, !.sites = chosen, !.apps = d].until = None
    BY DEF Settings
  <2>5. /\ opened["panel"] # "closed"
        /\ Only("panel", [c EXCEPT !.consented = TRUE, !.paused = b, !.until = None, !.sites = chosen, !.apps = d])
    BY <1>6, <2>1, <2>2, <2>3 DEF Finish
  <2>6. Unlapsed([c EXCEPT !.consented = TRUE, !.paused = b, !.until = None, !.sites = chosen, !.apps = d], loadedAt["panel"])
    BY <2>4 DEF Unlapsed
  <2> QED
    BY <1>1, <2>4, <2>5, <2>6, OnlyKeeps
<1> QED
  BY <1>3, <1>4, <1>5, <1>6

\* Commands, saves, announcements and loads of any window keep it.
LEMMA SettingsInductive == SettingsInv /\ [SettingsNext]_settingsVars => SettingsInv'
<1> SUFFICES ASSUME SettingsInv, [SettingsNext]_settingsVars PROVE SettingsInv'
  OBVIOUS
<1>1. CASE UNCHANGED settingsVars
  BY <1>1 DEF settingsVars, SettingsInv, SettingsTypeOK, ShareInv, PauseInv, OpenInv, CatchesUp, Calls, SaveRan, Latest,
     IsLatest, Holds
<1>2. CASE SettingsNext
  <2>1. CASE \E w \in Windows : OpenWindow(w) \/ Listen(w) \/ SettingsChanged(w)
    BY <2>1, WindowsKeep
  <2>2. CASE PetRelistens \/ Minute
    <3>1. "pet" \in Windows
      BY DEF Windows
    <3> QED
      BY <2>2, <3>1, WindowsKeep
  <2>3. CASE SettingsCommandRuns \/ SettingsCommandFails \/ BarDragged \/ BarAnswered
    BY <2>3, CommandsKeep, BarKeeps
  <2>4. CASE \E w \in Windows : LoadAnswered(w) \/ SaveAcknowledged(w)
    BY <2>4, LoadKeeps, SaveKeeps
  <2>5. CASE \/ \E w \in Windows : Resume(w) \/ \E n \in PauseLengths : PauseFor(w, n)
             \/ PauseLapses
             \/ \E s \in Sites : AddDomain(s) \/ RemoveDomain(s)
             \/ \E a \in OtherApps \cup BrowserApps : ToggleApp(a)
             \/ \E o \in Origins : AddActuationOrigin(o) \/ RemoveActuationOrigin(o)
             \/ \E x \in Extras : ChangeOther(x)
             \/ \E chosen \in SUBSET Sites, observe \in BOOLEAN : Finish(chosen, observe)
    BY <2>5, ChangesKeep
  <2> QED
    BY <1>2, <2>1, <2>2, <2>3, <2>4, <2>5 DEF SettingsNext
<1> QED
  BY <1>1, <1>2

\* The windows start closed, with the defaults, and nothing is under way.
LEMMA SettingsStart == SettingsInit => SettingsInv
<1> SUFFICES ASSUME SettingsInit PROVE SettingsInv
  OBVIOUS
<1>1. PICK d \in Settings : d = DefaultSettings
  BY DefaultsAreSettings
<1>2. settingsFile \in OnFile
  <2>1. [d EXCEPT !.consented = TRUE, !.paused = FALSE] \in Settings
    BY DEF Settings
  <2> QED
    BY <1>1, <2>1 DEF SettingsInit, OnFile
<1>3. copies = [w \in Windows |-> d]
  BY <1>1 DEF SettingsInit
<1>4. commands \in Seq(Command) /\ replies \in [Callers -> Seq(Reply)]
  BY DEF SettingsInit
<1>5. SettingsTypeOK
  BY <1>2, <1>3, <1>4 DEF SettingsInit, SettingsTypeOK
<1>6. d.until = None
  BY <1>1, DefaultsAreSettings
<1>7. PauseInv
  BY <1>3, <1>6 DEF SettingsInit, PauseInv, Unlapsed
<1>8. ShareInv /\ OpenInv
  BY DEF SettingsInit, ShareInv, OpenInv, Calls, Callers
<1> QED
  BY <1>5, <1>7, <1>8 DEF SettingsInv

\* Once nothing is under way, a window that can catch up has.
LEMMA SettingsShared == SettingsInv => SettingsAreShared
<1> SUFFICES ASSUME SettingsInv, Quiet, NEW w \in Windows, opened[w] = "hydrated", w \notin astray
             PROVE  copies[w] = Parsed(settingsFile)
  BY DEF SettingsAreShared, SettingsInv, PauseInv, Unlapsed
<1>1. CatchesUp(w)
  BY DEF SettingsInv, ShareInv
<1>2. ~Calls(w) /\ ~SaveRan /\ ~Latest(w) /\ ~(news[w] > 0)
  BY DEF Quiet, Calls, SaveRan, Latest, Callers
<1> QED
  BY <1>1, <1>2 DEF CatchesUp, Holds

\* The copies of the windows follow the file, however their loads, saves and announcements interleave: once
\* nothing is under way, an open window holds what the file holds unless it went astray (a call of its own failed,
\* it missed an announcement, or the status bar wrote the file unannounced), and no pause that was over when it
\* last read the file (settings.ts, StatusBar.tsx, the listeners of App.tsx and PetApp.tsx).
THEOREM SettingsStayShared == SettingsSpec => []SettingsAreShared
BY SettingsStart, SettingsShared, SettingsInductive, PTL DEF SettingsSpec

-----------------------------------------------------------------------------
(* The suggestions: what the user said last is in the file. *)

EntryRec == [status : Statuses \cup {"new"}, era : Nat]
StoreState == [entries : [Patterns -> EntryRec], suppressed : SUBSET Patterns, surfaced : Nat]
Reading == [kind : {"screen", "act", "tick"}, read : StoreState]
Saving == [kind : {"act", "surface"}, next : StoreState] \cup [kind : {"decide"}, next : {None}]
Sayings == [count : Nat, last : [Patterns -> EntryRec], never : SUBSET {FamilyOf[p] : p \in Patterns}]

SuggestTypeOK ==
  /\ file \in StoreState /\ memory \in StoreState
  /\ refreshes \subseteq Reading /\ saves \subseteq Saving
  /\ said \in Sayings /\ era \in Nat /\ crossings \in Nat

\* As long as no action began beside another or beside a refresh, everything under way carries the file as it is,
\* and memory is the file, or will be once the action under way is over, or nothing is on show to act on.
Current ==
  /\ file.entries = said.last
  /\ \A r \in refreshes : r.read = file
  /\ \A a \in saves : a.kind \in {"act", "surface"} => a.next = file
  /\ \/ memory = file
     \/ \E a \in saves : a.kind \in {"act", "surface"}
     \/ shown.items = {} /\ shown.forming = {} /\ \A a \in saves : a.kind # "decide"

SuggestInv == SuggestTypeOK /\ (crossings = 0 => Current)

-----------------------------------------------------------------------------
\* What the user says of a pattern makes an entry of it, and leaves the others.
LEMMA ActedIs ==
  ASSUME SuggestTypeOK, NEW p \in Patterns, NEW s \in Statuses
  PROVE  /\ Entry(p, s) \in EntryRec /\ Acted(p, s) \in StoreState
         /\ Acted(p, s).entries = [memory.entries EXCEPT ![p] = Entry(p, s)]
<1>1. memory.entries \in [Patterns -> EntryRec] /\ memory.suppressed \in SUBSET Patterns /\ memory.surfaced \in Nat
  BY DEF SuggestTypeOK, StoreState
<1>2. Entry(p, s) \in EntryRec
  <2>1. memory.entries[p] \in EntryRec
    BY <1>1
  <2>2. [status |-> s, era |-> IF s \in WavedOff \cup {"snoozed"} THEN era ELSE 0] \in EntryRec
    BY DEF SuggestTypeOK, EntryRec
  <2> QED
    BY <2>1, <2>2 DEF Entry
<1>3. [memory.entries EXCEPT ![p] = Entry(p, s)] \in [Patterns -> EntryRec]
  BY <1>1, <1>2
<1>5. ASSUME NEW es \in [Patterns -> EntryRec], NEW su \in SUBSET Patterns
      PROVE  /\ [memory EXCEPT !.entries = es, !.suppressed = su] \in StoreState
             /\ [memory EXCEPT !.entries = es, !.suppressed = su].entries = es
  BY DEF SuggestTypeOK, StoreState
<1>6. (IF s = "never" THEN memory.suppressed \cup {p} ELSE memory.suppressed) \in SUBSET Patterns
  BY <1>1
<1>7. Acted(p, s) = [memory EXCEPT !.entries = [memory.entries EXCEPT ![p] = Entry(p, s)],
                                   !.suppressed = IF s = "never" THEN memory.suppressed \cup {p} ELSE memory.suppressed]
  BY DEF Acted
<1>8. PICK es \in [Patterns -> EntryRec], su \in SUBSET Patterns :
        /\ es = [memory.entries EXCEPT ![p] = Entry(p, s)]
        /\ su = IF s = "never" THEN memory.suppressed \cup {p} ELSE memory.suppressed
  BY <1>3, <1>6
<1>9. Acted(p, s) = [memory EXCEPT !.entries = es, !.suppressed = su]
  BY <1>7, <1>8
<1>10. Acted(p, s) \in StoreState /\ Acted(p, s).entries = es
  <2>1. /\ [memory EXCEPT !.entries = es, !.suppressed = su] \in StoreState
        /\ [memory EXCEPT !.entries = es, !.suppressed = su].entries = es
    BY <1>5
  <2> QED
    BY ONLY <1>9, <2>1
<1> QED
  BY <1>2, <1>8, <1>10

\* One more card has been surfaced.
LEMMA SurfacedIs ==
  ASSUME SuggestTypeOK
  PROVE  /\ [memory EXCEPT !.surfaced = memory.surfaced + 1] \in StoreState
         /\ [memory EXCEPT !.surfaced = memory.surfaced + 1].entries = memory.entries
BY DEF SuggestTypeOK, StoreState

\* Actions, refreshes, ticks and restarts keep it.
LEMMA SuggestInductive == SuggestInv /\ [SuggestNext]_suggestVars => SuggestInv'
<1> SUFFICES ASSUME SuggestInv, [SuggestNext]_suggestVars PROVE SuggestInv'
  OBVIOUS
<1>0. SuggestTypeOK /\ crossings \in Nat /\ (crossings = 0 => Current)
  BY DEF SuggestInv, SuggestTypeOK
<1>r. \A r \in refreshes : r \in Reading /\ r.read \in StoreState
  BY <1>0 DEF SuggestTypeOK, Reading
<1>a. /\ \A a \in saves : a \in Saving
      /\ \A a \in saves : a.kind \in {"act", "surface"} => a.next \in StoreState
      /\ \A a \in saves : a.kind \in {"act", "surface", "decide"}
  BY <1>0 DEF SuggestTypeOK, Saving
\* A refresh of any kind reads the file.
<1>b. ASSUME NEW kind \in {"screen", "act", "tick"}, BeginRefresh(kind)
      PROVE  /\ refreshes' \subseteq Reading
             /\ \A r \in refreshes' : r \in refreshes \/ r.read = file
  <2>1. [kind |-> kind, read |-> file] \in Reading
    BY <1>0 DEF SuggestTypeOK, Reading
  <2> QED
    BY <1>0, <1>b, <2>1 DEF BeginRefresh, SuggestTypeOK
<1>1. ASSUME Refresh \/ MotherTick PROVE SuggestInv'
  <2>1. /\ UNCHANGED <<file, memory, shown, saves, era, said, crossings>>
        /\ refreshes' \subseteq Reading /\ \A r \in refreshes' : r \in refreshes \/ r.read = file
    BY <1>1, <1>b DEF Refresh, MotherTick
  <2> QED
    BY <1>0, <2>1 DEF SuggestInv, SuggestTypeOK, Current
<1>2. ASSUME NEW r \in refreshes, NEW d \in SUBSET Families, EndRefresh(r, d) PROVE SuggestInv'
  <2>1. /\ memory' = r.read /\ refreshes' = refreshes \ {r} /\ UNCHANGED <<file, saves, era, said, crossings>>
    BY <1>2 DEF EndRefresh, MemoryAfterRefresh
  <2> QED
    BY <1>0, <1>r, <2>1 DEF SuggestInv, SuggestTypeOK, Current
<1>3. ASSUME NEW p \in Patterns, NEW s \in Statuses, Act(p, s) PROVE SuggestInv'
  <2>1. Entry(p, s) \in EntryRec /\ Acted(p, s) \in StoreState /\ Acted(p, s).entries = [memory.entries EXCEPT ![p] = Entry(p, s)]
    BY <1>0, ActedIs
  <2>2. /\ file' = Acted(p, s) /\ saves' = saves \cup {[kind |-> "act", next |-> Acted(p, s)]}
        /\ UNCHANGED <<memory, shown, refreshes, era>>
        /\ p \in shown.items \cup shown.forming
    BY <1>3 DEF Act
  <2>3. said' = [said EXCEPT !.count = said.count + 1, !.last[p] = Entry(p, s),
                             !.never = IF s = "never" THEN said.never \cup {FamilyOf[p]} ELSE said.never]
    BY <1>3 DEF Act
  <2>4. crossings' = IF Busy THEN crossings + 1 ELSE crossings
    BY <1>3 DEF Act, Crosses
  <2>5. said' \in Sayings /\ said'.last = [said.last EXCEPT ![p] = Entry(p, s)]
    <3>1. said \in Sayings
      BY <1>0 DEF SuggestTypeOK
    <3>2. [said.last EXCEPT ![p] = Entry(p, s)] \in [Patterns -> EntryRec]
      BY <2>1, <3>1 DEF Sayings
    <3>3. said.count + 1 \in Nat
      BY <3>1 DEF Sayings
    <3>4. (IF s = "never" THEN said.never \cup {FamilyOf[p]} ELSE said.never) \in SUBSET {FamilyOf[q] : q \in Patterns}
      BY <3>1 DEF Sayings
    <3> QED
      BY <2>3, <3>1, <3>2, <3>3, <3>4 DEF Sayings
  <2>6. [kind |-> "act", next |-> Acted(p, s)] \in Saving
    BY <2>1 DEF Saving
  <2>7. SuggestTypeOK'
    BY <1>0, <2>1, <2>2, <2>4, <2>5, <2>6 DEF SuggestTypeOK
  <2>8. ASSUME crossings' = 0 PROVE Current'
    <3>1. crossings = 0 /\ refreshes = {} /\ saves = {}
      BY <1>0, <2>4, <2>8 DEF Busy
    <3>2. memory = file /\ file.entries = said.last
      BY <1>0, <2>2, <3>1 DEF Current
    <3>3. file'.entries = said'.last
      BY <2>1, <2>2, <2>5, <3>2
    <3>4. refreshes' = {} /\ saves' = {[kind |-> "act", next |-> file']}
      BY <2>2, <3>1
    <3> QED
      BY <3>3, <3>4 DEF Current
  <2> QED
    BY <2>7, <2>8 DEF SuggestInv
<1>4. ASSUME NEW a \in saves, EndAct(a) PROVE SuggestInv'
  <2>1. /\ a.kind = "act" /\ memory' = a.next /\ saves' = saves \ {a} /\ UNCHANGED <<file, shown, era, said, crossings>>
        /\ refreshes' \subseteq Reading /\ \A r \in refreshes' : r \in refreshes \/ r.read = file
    BY <1>4, <1>b DEF EndAct
  <2> QED
    BY <1>0, <1>a, <2>1 DEF SuggestInv, SuggestTypeOK, Current
<1>5. ASSUME NEW a \in saves, TickDecides(a) PROVE SuggestInv'
  <2> DEFINE next == [memory EXCEPT !.surfaced = memory.surfaced + 1]
  <2>1. next \in StoreState /\ next.entries = memory.entries
    BY <1>0, SurfacedIs
  <2>2. a.kind = "decide" /\ UNCHANGED <<memory, shown, refreshes, era, said>>
    BY <1>5 DEF TickDecides
  <2>3. \/ /\ file' = next /\ saves' = (saves \ {a}) \cup {[kind |-> "surface", next |-> next]}
           /\ Crosses(refreshes # {} \/ saves # {a})
        \/ saves' = saves \ {a} /\ UNCHANGED <<file, crossings>>
    BY <1>5 DEF TickDecides
  <2> HIDE DEF next
  <2>4. CASE saves' = saves \ {a} /\ UNCHANGED <<file, crossings>>
    BY <1>0, <2>2, <2>4 DEF SuggestInv, SuggestTypeOK, Current
  <2>5. CASE /\ file' = next /\ saves' = (saves \ {a}) \cup {[kind |-> "surface", next |-> next]}
             /\ Crosses(refreshes # {} \/ saves # {a})
    <3>1. crossings' = IF refreshes # {} \/ saves # {a} THEN crossings + 1 ELSE crossings
      BY <2>5 DEF Crosses
    <3>2. [kind |-> "surface", next |-> next] \in Saving
      BY <2>1 DEF Saving
    <3>3. SuggestTypeOK'
      BY <1>0, <2>1, <2>2, <2>5, <3>1, <3>2 DEF SuggestTypeOK
    <3>4. ASSUME crossings' = 0 PROVE Current'
      <4>1. crossings = 0 /\ refreshes = {} /\ saves = {a}
        BY <1>0, <3>1, <3>4
      <4>2. memory = file /\ file.entries = said.last
        BY <1>0, <2>2, <4>1 DEF Current
      <4>3. refreshes' = {} /\ saves' = {[kind |-> "surface", next |-> file']} /\ file'.entries = said'.last
        BY <2>1, <2>2, <2>5, <4>1, <4>2
      <4> QED
        BY <4>3 DEF Current
    <3> QED
      BY <3>3, <3>4 DEF SuggestInv
  <2> QED
    BY <2>3, <2>4, <2>5
<1>6. ASSUME NEW a \in saves, TickSurfaced(a) PROVE SuggestInv'
  <2>1. a.kind = "surface" /\ memory' = a.next /\ saves' = saves \ {a} /\ UNCHANGED <<file, shown, refreshes, era, said, crossings>>
    BY <1>6 DEF TickSurfaced
  <2> QED
    BY <1>0, <1>a, <2>1 DEF SuggestInv, SuggestTypeOK, Current
<1>7. ASSUME TickFails PROVE SuggestInv'
  <2>1. refreshes' \subseteq refreshes /\ UNCHANGED <<file, memory, shown, saves, era, said, crossings>>
    BY <1>7 DEF TickFails
  <2> QED
    BY <1>0, <2>1 DEF SuggestInv, SuggestTypeOK, Current
<1>8. ASSUME NEW d \in SUBSET Families, TickRefreshed(d) PROVE SuggestInv'
  <2>1. PICK r \in refreshes :
          /\ memory' = r.read /\ refreshes' = refreshes \ {r} /\ saves' = saves \cup {[kind |-> "decide", next |-> None]}
          /\ UNCHANGED <<file, era, said, crossings>>
    BY <1>8 DEF TickRefreshed, MemoryAfterRefresh
  <2>2. [kind |-> "decide", next |-> None] \in Saving
    BY DEF Saving
  <2> QED
    BY <1>0, <1>r, <2>1, <2>2 DEF SuggestInv, SuggestTypeOK, Current
<1>9. ASSUME LearnMore PROVE SuggestInv'
  BY <1>0, <1>9 DEF LearnMore, SuggestInv, SuggestTypeOK, Current
<1>10. ASSUME CooldownPasses PROVE SuggestInv'
  BY <1>0, <1>10 DEF CooldownPasses, SuggestInv, SuggestTypeOK, Current
<1>11. ASSUME RestartPanel PROVE SuggestInv'
  <2>1. DefaultState \in StoreState
    BY DEF DefaultState, StoreState, NoEntry, EntryRec
  <2>2. /\ memory' = DefaultState /\ refreshes' = {} /\ saves' = {} /\ shown'.items = {} /\ shown'.forming = {}
        /\ UNCHANGED <<file, era, said, crossings>>
    BY <1>11 DEF RestartPanel, NothingShown
  <2> QED
    BY <1>0, <2>1, <2>2 DEF SuggestInv, SuggestTypeOK, Current
<1>12. ASSUME UNCHANGED suggestVars PROVE SuggestInv'
  BY <1>0, <1>12 DEF suggestVars, SuggestInv, SuggestTypeOK, Current
<1> QED
  BY <1>1, <1>2, <1>3, <1>4, <1>5, <1>6, <1>7, <1>8, <1>9, <1>10, <1>11, <1>12 DEF SuggestNext

\* In every behaviour of the suggestions in which no action begins beside another or beside a refresh, what the
\* user said last about each pattern is in the file, across refreshes, ticks and restarts (act and refresh of
\* recommendations.ts, motherTick of motherLoop.ts).
THEOREM DecisionsStayPersisted == SuggestSpec => []DecisionsArePersisted
<1>1. SuggestInit => SuggestInv
  <2> SUFFICES ASSUME SuggestInit PROVE SuggestInv
    OBVIOUS
  <2>1. DefaultState \in StoreState
    BY DEF DefaultState, StoreState, NoEntry, EntryRec
  <2>2. said \in Sayings
    BY DEF SuggestInit, Sayings, NoEntry, EntryRec
  <2>3. file.entries = said.last
    BY DEF SuggestInit, DefaultState
  <2> QED
    BY <2>1, <2>2, <2>3 DEF SuggestInit, SuggestInv, SuggestTypeOK, Current
<1>2. SuggestInv => DecisionsArePersisted
  BY DEF SuggestInv, Current, DecisionsArePersisted
<1> QED
  BY <1>1, <1>2, SuggestInductive, PTL DEF SuggestSpec

-----------------------------------------------------------------------------
(* Teach Mode: what is stored was kept. *)

Verdicts == {"unreviewed", "kept", "discarded"}
Shown == [verdict : Verdicts, frame : Nat]
PipeLine == [kind : {"ended", "started", "refused", "frame"}, id : Nat]

Captures == [id : Nat, flight : Nat, last : Screens \cup {None}]

TeachTypeOK ==
  /\ vision \in Nat \cup {None} /\ minted \in Nat
  /\ capture \in Captures /\ front \in Screens
  /\ lines \in Seq(Nat) /\ pipe \in Seq(PipeLine)
  /\ review \in [Readings -> Shown \cup {None}]
  /\ word \in [Readings -> {"kept", "discarded", None}]

\* What the panel says of a reading is what the user last said of it, if anything; of what was never read in the
\* user said nothing.
WordsInv ==
  \A r \in Readings :
    /\ review[r] = None => word[r] = None
    /\ review[r] # None => word[r] = IF review[r].verdict = "unreviewed" THEN None ELSE review[r].verdict

TeachInv == TeachTypeOK /\ WordsInv /\ SavedWereKept

-----------------------------------------------------------------------------
\* The steps of the observer and of the core leave what the user sees and said alone, and hand on frames.
LEMMA CaptureTyped ==
  ASSUME TeachTypeOK, UNCHANGED <<review, word>>,
         \/ StopTeach \/ TeachAnswered \/ SaveKept
         \/ \E granted \in BOOLEAN : ControlLine(granted)
         \/ TimeBoxElapses \/ CaptureTick \/ CaptureOnce \/ ScreenChanges \/ ReadTeachLine
         \/ InferenceFails \/ TeachSettingChanges
  PROVE  TeachTypeOK'
<1> USE DEF TeachTypeOK
<1>1. \A kind \in {"ended", "started", "refused", "frame"}, id \in Nat :
        <<[kind |-> kind, id |-> id]>> \in Seq(PipeLine) /\ [kind |-> kind, id |-> id] \in PipeLine
  BY DEF PipeLine
<1>2. \A id \in Nat : EndedLine(id) \in Seq(PipeLine)
  <2>1. <<>> \in Seq(PipeLine)
    BY EmptySeq
  <2>2. \A id \in Nat : EndedLine(id) = <<>> \/ EndedLine(id) = <<[kind |-> "ended", id |-> id]>>
    BY DEF EndedLine
  <2> QED
    BY <1>1, <2>1, <2>2
<1>3. capture.id \in Nat /\ capture.flight \in Nat
  BY DEF Captures
<1>c. /\ \A id \in Nat : [capture EXCEPT !.id = id] \in Captures /\ [capture EXCEPT !.id = id, !.last = None] \in Captures
      /\ \A flight \in Nat : [capture EXCEPT !.flight = flight] \in Captures
      /\ [capture EXCEPT !.flight = 0, !.last = front] \in Captures
  BY DEF Captures
<1>l. \A x \in Nat : Append(lines, x) \in Seq(Nat)
  BY AppendProperties
<1>p. \A x \in PipeLine : Append(pipe, x) \in Seq(PipeLine)
  BY AppendProperties
<1>4. ASSUME StopTeach PROVE TeachTypeOK'
  <2>1. lines' \in Seq(Nat)
    BY <1>4, <1>l DEF StopTeach
  <2> QED
    BY <1>4, <2>1 DEF StopTeach
<1>5. ASSUME TeachAnswered \/ SaveKept \/ InferenceFails \/ TeachSettingChanges PROVE TeachTypeOK'
  BY <1>5 DEF TeachAnswered, SaveKept, InferenceFails, TeachSettingChanges
<1>6. ASSUME StopInternal PROVE pipe' \in Seq(PipeLine) /\ capture' = [capture EXCEPT !.id = 0]
  BY <1>2, <1>3, <1>6, ConcatProperties DEF StopInternal
<1>7. ASSUME NEW granted \in BOOLEAN, ControlLine(granted) PROVE TeachTypeOK'
  <2>1. Head(lines) \in Nat /\ lines' \in Seq(Nat)
    BY <1>7 DEF ControlLine
  <2>2. UNCHANGED <<front, vision, minted>>
    BY <1>7 DEF ControlLine
  <2>3. pipe' \in Seq(PipeLine) /\ capture' \in Captures
    <3>1. CASE Head(lines) = 0
      <4>1. StopInternal
        BY <1>7, <3>1 DEF ControlLine
      <4>2. pipe' \in Seq(PipeLine) /\ capture' = [capture EXCEPT !.id = 0]
        BY <1>6, <4>1
      <4> QED
        BY <1>c, <4>2
    <3>2. CASE Head(lines) # 0
      <4>1. StartCapture(Head(lines), granted)
        BY <1>7, <3>2 DEF ControlLine
      <4>2. <<[kind |-> IF granted THEN "started" ELSE "refused", id |-> Head(lines)]>> \in Seq(PipeLine)
        BY <1>1, <2>1
      <4>3. pipe' \in Seq(PipeLine)
        BY <1>2, <1>3, <4>1, <4>2, ConcatProperties DEF StartCapture
      <4>4. capture' = [capture EXCEPT !.id = Head(lines), !.last = None] \/ capture' = [capture EXCEPT !.id = 0]
        BY <4>1 DEF StartCapture
      <4> QED
        BY <1>c, <2>1, <4>3, <4>4
    <3> QED
      BY <3>1, <3>2
  <2> QED
    BY <2>1, <2>2, <2>3
<1>8. ASSUME TimeBoxElapses PROVE TeachTypeOK'
  BY <1>6, <1>8, <1>c DEF TimeBoxElapses
<1>9. ASSUME CaptureTick PROVE TeachTypeOK'
  BY <1>3, <1>9, <1>c DEF CaptureTick
<1>10. ASSUME CaptureOnce PROVE TeachTypeOK'
  <2>1. UNCHANGED <<front, vision, minted, lines>>
    BY <1>10 DEF CaptureOnce
  <2>2. capture' = [capture EXCEPT !.flight = 0] \/ capture' = [capture EXCEPT !.flight = 0, !.last = front]
    BY <1>10 DEF CaptureOnce
  <2>3. pipe' = pipe \/ pipe' = Append(pipe, [kind |-> "frame", id |-> capture.flight])
    BY <1>10 DEF CaptureOnce
  <2>4. pipe' \in Seq(PipeLine)
    BY <1>1, <1>3, <1>p, <2>3
  <2> QED
    BY <1>c, <2>1, <2>2, <2>4
<1>11. ASSUME ScreenChanges PROVE TeachTypeOK'
  BY <1>11 DEF ScreenChanges
<1>12. ASSUME ReadTeachLine PROVE TeachTypeOK'
  <2>1. Head(pipe).id \in Nat /\ pipe' \in Seq(PipeLine)
    <3>1. pipe # <<>> /\ pipe' = Tail(pipe) /\ pipe \in Seq(PipeLine)
      BY <1>12 DEF ReadTeachLine
    <3>2. Head(pipe) \in PipeLine /\ Tail(pipe) \in Seq(PipeLine)
      BY <3>1, Shortened
    <3> QED
      BY <3>1, <3>2 DEF PipeLine
  <2>2. vision' = vision \/ vision' = Head(pipe).id
    BY <1>12 DEF ReadTeachLine
  <2>3. UNCHANGED <<front, minted, lines, capture>>
    BY <1>12 DEF ReadTeachLine
  <2> QED
    BY <2>1, <2>2, <2>3
<1> QED
  BY <1>4, <1>5, <1>7, <1>8, <1>9, <1>10, <1>11, <1>12

\* What the user says, the frames and the sessions that overlap, keep it.
LEMMA TeachInductive == TeachInv /\ [TeachNext]_teachVars => TeachInv'
<1> SUFFICES ASSUME TeachInv, [TeachNext]_teachVars PROVE TeachInv'
  OBVIOUS
<1> USE DEF TeachInv
<1>0. \A r \in Readings : review[r] \in Shown \cup {None} /\ (review[r] # None => review[r].verdict \in Verdicts)
  BY DEF TeachTypeOK, Shown
\* The steps that touch neither the review, nor the user's words, nor the store.
<1>1. ASSUME UNCHANGED <<review, word, saved>>, TeachTypeOK' PROVE TeachInv'
  BY <1>1 DEF WordsInv, SavedWereKept
\* The steps of the panel that change the review.
<1>2. ASSUME UNCHANGED <<front, pipe, vision, saved>>, UNCHANGED capture, minted' \in Nat, lines' \in Seq(Nat),
             review' \in [Readings -> Shown \cup {None}], word' \in [Readings -> {"kept", "discarded", None}],
             WordsInv'
      PROVE  TeachInv'
  BY <1>2 DEF TeachTypeOK, SavedWereKept
<1>3. ASSUME Forget PROVE /\ review' \in [Readings -> Shown \cup {None}] /\ WordsInv'
                          /\ word' \in [Readings -> {"kept", "discarded", None}]
  BY <1>3 DEF Forget, WordsInv
<1>4. ASSUME StartTeach PROVE TeachInv'
  <2>1. minted \in Nat /\ minted + 1 \in Nat /\ lines \in Seq(Nat)
    BY DEF TeachTypeOK
  <2>2. Append(lines, minted + 1) \in Seq(Nat)
    BY <2>1, AppendProperties
  <2>3. minted' \in Nat /\ lines' \in Seq(Nat)
    BY <1>4, <2>1, <2>2 DEF StartTeach, TeachModeStart
  <2> QED
    BY <1>2, <1>3, <1>4, <2>3 DEF StartTeach
<1>5. ASSUME ResetTeach PROVE TeachInv'
  BY <1>2, <1>3, <1>5 DEF ResetTeach, TeachTypeOK
<1>6. ASSUME NEW r \in Readings, NEW v \in {"kept", "discarded"}, SetVerdict(r, v) PROVE TeachInv'
  <2>1. review[r] \in Shown /\ [review[r] EXCEPT !.verdict = v] \in Shown /\ [review[r] EXCEPT !.verdict = v].verdict = v
    BY <1>0, <1>6 DEF SetVerdict, Shown, Verdicts
  <2>2. /\ review' = [review EXCEPT ![r] = [review[r] EXCEPT !.verdict = v]]
        /\ word' = [word EXCEPT ![r] = v]
    BY <1>6 DEF SetVerdict
  <2>3. [review[r] EXCEPT !.verdict = v] # None
    BY <2>1, TeachAssumption DEF Shown, Verdicts
  <2>4. /\ review' \in [Readings -> Shown \cup {None}] /\ word' \in [Readings -> {"kept", "discarded", None}]
    BY <2>1, <2>2 DEF TeachTypeOK
  <2>5. WordsInv'
    BY <2>1, <2>2, <2>3 DEF WordsInv, TeachTypeOK
  <2> QED
    BY <1>2, <1>6, <2>4, <2>5 DEF SetVerdict, TeachTypeOK
<1>7. ASSUME NEW v \in {"kept", "discarded"}, VerdictForTheRest(v) PROVE TeachInv'
  <2>1. ASSUME NEW r \in Readings, review[r] # None
        PROVE  [review[r] EXCEPT !.verdict = v] \in Shown /\ [review[r] EXCEPT !.verdict = v].verdict = v
    BY <1>0, <2>1 DEF Shown, Verdicts
  <2>2. \A r \in Readings : review[r] # None => [review[r] EXCEPT !.verdict = v] # None
    BY <2>1, TeachAssumption DEF Shown, Verdicts
  <2>3. /\ review' = [r \in Readings |->
              IF review[r] # None THEN
                IF review[r].verdict = "unreviewed" THEN [review[r] EXCEPT !.verdict = v] ELSE review[r]
              ELSE None]
        /\ word' = [r \in Readings |-> IF review[r] # None /\ word[r] = None THEN v ELSE word[r]]
    BY <1>7 DEF VerdictForTheRest
  <2>4. review' \in [Readings -> Shown \cup {None}]
    BY <1>0, <2>1, <2>3
  <2>5. word' \in [Readings -> {"kept", "discarded", None}]
    BY <2>3 DEF TeachTypeOK
  <2>6. ASSUME NEW r \in Readings
        PROVE  /\ review'[r] = None => word'[r] = None
               /\ review'[r] # None => word'[r] = IF review'[r].verdict = "unreviewed" THEN None ELSE review'[r].verdict
    <3>1. CASE review[r] = None
      BY <2>3, <3>1 DEF WordsInv
    <3>2. CASE review[r] # None /\ review[r].verdict = "unreviewed"
      <4>1. review'[r] = [review[r] EXCEPT !.verdict = v] /\ word'[r] = v
        BY <2>3, <3>2 DEF WordsInv
      <4> QED
        BY <2>1, <2>2, <3>2, <4>1
    <3>3. CASE review[r] # None /\ review[r].verdict # "unreviewed"
      <4>1. word[r] = review[r].verdict /\ word[r] # None
        BY <1>0, <3>3, TeachAssumption DEF WordsInv, Verdicts
      <4>2. review'[r] = review[r] /\ word'[r] = word[r]
        BY <2>3, <3>3, <4>1
      <4> QED
        BY <3>3, <4>1, <4>2
    <3> QED
      BY <3>1, <3>2, <3>3
  <2>7. WordsInv'
    BY <2>6 DEF WordsInv
  <2> QED
    BY <1>2, <1>7, <2>4, <2>5, <2>7 DEF VerdictForTheRest, TeachTypeOK
\* What is stored: the readings the panel says were kept.
<1>8. ASSUME SaveKept PROVE TeachInv'
  <2>1. TeachTypeOK' /\ UNCHANGED <<review, word>>
    BY <1>8, CaptureTyped DEF SaveKept, panelTeach
  <2>2. \A r \in Readings : review[r] # None /\ review[r].verdict = "kept" => word[r] = "kept"
    BY DEF WordsInv
  <2>3. SavedWereKept'
    BY <1>8, <2>2 DEF SaveKept, SavedWereKept
  <2> QED
    BY <2>1, <2>3 DEF WordsInv
\* A reading comes in: one that is there keeps its verdict.
<1>9. ASSUME NEW answer \in NothingUsable \cup {"actions"}, NEW seen \in SUBSET Readings, FrameRead(answer, seen) PROVE TeachInv'
  <2>1. vision \in Nat /\ [verdict |-> "unreviewed", frame |-> vision] \in Shown
    BY <1>9 DEF FrameRead, TeachTypeOK, Shown, Verdicts
  <2>2. ASSUME NEW r \in Readings
        PROVE  review'[r] = review[r] \/ (review[r] = None /\ review'[r] = [verdict |-> "unreviewed", frame |-> vision])
    BY <1>9 DEF FrameRead, ApplyObservation, ReadingsFrom, MergeReading
  <2>3. review' \in [Readings -> Shown \cup {None}]
    <3>1. review' = [r \in Readings |-> review'[r]]
      BY <1>9 DEF FrameRead, ApplyObservation, ReadingsFrom
    <3> QED
      BY <1>0, <2>1, <2>2, <3>1
  <2>4. /\ UNCHANGED <<word, front, pipe, saved, capture, minted, lines>> /\ vision' = None
    BY <1>9 DEF FrameRead
  <2>5. WordsInv'
    BY <2>2, <2>4 DEF WordsInv
  <2>6. TeachTypeOK'
    BY <2>3, <2>4 DEF TeachTypeOK
  <2> QED
    BY <2>4, <2>5, <2>6 DEF SavedWereKept
<1>10. ASSUME \/ StopTeach \/ TeachAnswered
              \/ \E granted \in BOOLEAN : ControlLine(granted)
              \/ TimeBoxElapses \/ CaptureTick \/ CaptureOnce \/ ScreenChanges \/ ReadTeachLine
              \/ InferenceFails \/ TeachSettingChanges
       PROVE  TeachInv'
  <2>1. UNCHANGED <<review, word, saved>>
    BY <1>10 DEF StopTeach, TeachAnswered, ControlLine, TimeBoxElapses, CaptureTick, CaptureOnce, ScreenChanges,
      ReadTeachLine, InferenceFails, TeachSettingChanges, panelTeach
  <2>2. TeachTypeOK'
    BY <1>10, <2>1, CaptureTyped
  <2> QED
    BY <1>1, <2>1, <2>2
<1>11. ASSUME UNCHANGED teachVars PROVE TeachInv'
  BY <1>11 DEF teachVars, TeachTypeOK, WordsInv, SavedWereKept
<1> QED
  BY <1>4, <1>5, <1>6, <1>7, <1>8, <1>9, <1>10, <1>11 DEF TeachNext

\* In every behaviour of Teach Mode, whatever frames and sessions overlap, every reading that was stored is one
\* the user had said is right, and had not taken back since (setVerdict, keepAll, saveKept of state/teach.ts).
THEOREM SavedStayKept == TeachSpec => []SavedWereKept
<1>1. TeachInit => TeachInv
  BY DEF TeachInit, TeachInv, TeachTypeOK, WordsInv, SavedWereKept, Screens, Captures
<1>2. TeachInv => SavedWereKept
  BY DEF TeachInv
<1> QED
  BY <1>1, <1>2, TeachInductive, PTL DEF TeachSpec

-----------------------------------------------------------------------------
(* What the user taught: a workflow is ready when the user completed it, and a file is not lost. *)

Modes == {"read", "propose_write", "write"}
TaughtStep == [browser : BOOLEAN, mode : Modes, target : BOOLEAN, value : StepValues, checked : BOOLEAN]
Question == {"origin", "workflow_definition", "target", "value", "success_condition", "field_mapping"} \X Nat
Workflow == [id : Nat, pattern : Observations, version : Nat, origin : BOOLEAN, steps : Seq(TaughtStep),
             provenance : {"observed", "user_configured"}, missing : SUBSET Question]

\* What is missing of a workflow is what it asks; one that was only observed does not know its site.
Candid(w) ==
  IF w.provenance = "observed" THEN <<"origin", 0>> \in w.missing ELSE w.missing = OpenQuestions(w)
CandidWorks == {w \in Workflow : Candid(w)}

\* A list has one workflow for a pattern.
OnePerPattern(works) == \A i, j \in DOMAIN works : works[i].pattern = works[j].pattern => i = j
Works == {works \in Seq(CandidWorks) : OnePerPattern(works)}

\* A step asks nothing exactly when it has what it needs.
LEMMA StepAsks ==
  ASSUME NEW steps \in Seq(TaughtStep), NEW i \in DOMAIN steps
  PROVE  /\ StepQuestions(steps, i) \subseteq Question
         /\ StepQuestions(steps, i) = {} <=>
              /\ steps[i].browser => steps[i].target
              /\ steps[i].mode # "read" => steps[i].value # None /\ steps[i].checked
              /\ \/ steps[i].value = None \/ steps[i].value = <<"given", 0>>
                 \/ \E j \in 1 .. i - 1 : steps[i].value = <<"output", j>>
<1> DEFINE s == steps[i]
           n == Len(steps)
           t == IF s.browser /\ ~s.target THEN {<<"target", i>>} ELSE {}
           v == IF s.mode # "read" /\ s.value = None THEN {<<"value", i>>} ELSE {}
           c == IF s.mode # "read" /\ ~s.checked THEN {<<"success_condition", i>>} ELSE {}
           f == IF \E j \in i .. n + 1 : s.value = <<"output", j>> THEN {<<"field_mapping", i>>} ELSE {}
<1>1. s \in TaughtStep /\ n \in Nat /\ i \in 1..n /\ i \in Nat /\ 1 <= i /\ i <= n
  BY Elements, LenProperties
<1>2. s.value \in StepValues
  BY <1>1 DEF TaughtStep
<1>3. StepQuestions(steps, i) = t \cup v \cup c \cup f
  BY Zenon DEF StepQuestions
<1>4. t \subseteq Question /\ v \subseteq Question /\ c \subseteq Question /\ f \subseteq Question
  BY <1>1 DEF Question
<1>5. (\E j \in i .. n + 1 : s.value = <<"output", j>>) <=>
        ~(s.value = None \/ s.value = <<"given", 0>> \/ \E j \in 1 .. i - 1 : s.value = <<"output", j>>)
  <2> DEFINE value == s.value
  <2>0. value \in StepValues
    BY <1>2
  <2> HIDE DEF value
  <2>1. \A j : <<"output", j>> # <<"given", 0>>
    OBVIOUS
  <2>2. \A j, k : <<"output", j>> = <<"output", k>> => j = k
    OBVIOUS
  <2>3. CASE value = None
    <3>1. \A j \in i .. n + 1 : value # <<"output", j>>
      <4>1. ASSUME NEW j \in i .. n + 1, value = <<"output", j>> PROVE FALSE
        <5>1. <<"output", j>> \in {"output"} \X Nat
          BY <1>1
        <5> QED
          BY <2>3, <4>1, <5>1, StepValuesAssumption
      <4> QED
        BY <4>1
    <3> QED
      BY <2>3, <3>1 DEF value
  <2>4. CASE value = <<"given", 0>>
    BY <2>1, <2>4 DEF value
  <2>5. ASSUME NEW k \in {1, 2}, value = <<"output", k>>
        PROVE  (\E j \in i .. n + 1 : value = <<"output", j>>) <=>
                 ~(value = None \/ value = <<"given", 0>> \/ \E j \in 1 .. i - 1 : value = <<"output", j>>)
    <3>0. <<"output", k>> \in {"output"} \X Nat
      OBVIOUS
    <3>1. value # None /\ value # <<"given", 0>>
      BY <2>5, <3>0, StepValuesAssumption
    <3>2. (\E j \in i .. n + 1 : value = <<"output", j>>) <=> k \in i .. n + 1
      BY <2>5, <2>2
    <3>3. (\E j \in 1 .. i - 1 : value = <<"output", j>>) <=> k \in 1 .. i - 1
      BY <2>5, <2>2
    <3>4. k \in i .. n + 1 <=> ~(k \in 1 .. i - 1)
      BY <1>1
    <3> QED
      BY <3>1, <3>2, <3>3, <3>4
  <2> QED
    BY <2>0, <2>3, <2>4, <2>5 DEF value, StepValues
<1>6. /\ t = {} <=> (s.browser => s.target)
      /\ v = {} <=> (s.mode # "read" => s.value # None)
      /\ c = {} <=> (s.mode # "read" => s.checked)
      /\ f = {} <=> ~(\E j \in i .. n + 1 : s.value = <<"output", j>>)
  OBVIOUS
<1>7. t \cup v \cup c \cup f = {} <=> t = {} /\ v = {} /\ c = {} /\ f = {}
  <2> HIDE DEF t, v, c, f
  <2> QED OBVIOUS
<1> HIDE DEF t, v, c, f
<1> QED
  BY <1>3, <1>4, <1>5, <1>6, <1>7

\* A workflow asks nothing exactly when it is complete.
LEMMA AsksNothingWhenComplete ==
  ASSUME NEW w \in Workflow
  PROVE  OpenQuestions(w) \subseteq Question /\ (OpenQuestions(w) = {} <=> Complete(w))
<1> DEFINE asked == {StepQuestions(w.steps, i) : i \in DOMAIN w.steps}
           o == IF w.origin THEN {} ELSE {<<"origin", 0>>}
           d == IF w.steps = <<>> THEN {<<"workflow_definition", 0>>} ELSE {}
           HasAll(i) == StepQuestions(w.steps, i) = {}
<1>1. OpenQuestions(w) = o \cup d \cup UNION asked
  BY Zenon DEF OpenQuestions
<1>2. w.steps \in Seq(TaughtStep)
  BY DEF Workflow
<1>3. /\ \A i \in DOMAIN w.steps : StepQuestions(w.steps, i) \subseteq Question
      /\ Complete(w) <=> w.origin /\ w.steps # <<>> /\ \A i \in DOMAIN w.steps : HasAll(i)
  BY <1>2, StepAsks DEF Complete
<1>4. UNION asked = {} <=> \A i \in DOMAIN w.steps : HasAll(i)
  OBVIOUS
<1>5. o \subseteq Question /\ d \subseteq Question /\ UNION asked \subseteq Question
  BY <1>3 DEF Question
<1>6. (o = {} <=> w.origin) /\ (d = {} <=> w.steps # <<>>)
  OBVIOUS
<1> HIDE DEF o, d, asked, HasAll
<1> QED
  BY <1>1, <1>3, <1>4, <1>5, <1>6

\* What a candid workflow says of being ready is true.
LEMMA CandidIsHonest ==
  ASSUME NEW w \in CandidWorks
  PROVE  /\ Ready(w) => Complete(w) /\ w.provenance = "user_configured"
         /\ w.provenance = "user_configured" /\ Complete(w) => Ready(w)
<1>1. w \in Workflow /\ Candid(w) /\ w.provenance \in {"observed", "user_configured"}
  BY DEF CandidWorks, Workflow
<1> QED
  BY <1>1, AsksNothingWhenComplete DEF Candid, Ready

\* A draft made from an observation is candid: it does not know its site.
LEMMA DraftIs ==
  ASSUME NEW sequence \in Observations, NEW id \in Nat
  PROVE  DraftFromCandidate(sequence, id) \in CandidWorks /\ DraftFromCandidate(sequence, id).pattern = sequence
<1> DEFINE Tokens == DOMAIN Chains
           ChainStep == [browser : BOOLEAN, mode : Modes]
           seen == Collapsed(sequence)
           at == {i \in DOMAIN seen : AutomationFor(seen[i]) = "automated"}
           work == Chosen(seen, at)
           Made(c) == [browser |-> c.browser, mode |-> c.mode, target |-> FALSE, value |-> None,
                       checked |-> c.mode # "read"]
           draft == DraftFromCandidate(sequence, id)
           steps == DraftSteps(sequence)
<1>1. sequence \in Seq(Tokens)
  BY ObservationsAssumption
<1>2. seen \in Seq(Tokens)
  BY <1>1, ChosenIs DEF Collapsed
<1> HIDE DEF seen
<1>3. work \in Seq(Tokens) /\ \A k \in DOMAIN work : AutomationFor(work[k]) = "automated"
  BY <1>2, ChosenIs
<1>4. steps = [i \in DOMAIN work |-> Made(Head(Chains[work[i]]))]
  BY Zenon DEF DraftSteps, seen
<1> HIDE DEF work
<1>5. Tokens = {"look", "edit", "paste", "switch", "drag"}
  BY DEF Chains
<1>6. ASSUME NEW t \in Tokens, AutomationFor(t) = "automated" PROVE Head(Chains[t]) \in ChainStep
  <2>1. Chains["switch"] = <<>> /\ Chains["drag"] = <<>>
    BY DEF Chains
  <2>2. AutomationFor("switch") # "automated"
    BY <2>1 DEF AutomationFor, ContextTokens
  <2>3. AutomationFor("drag") # "automated"
    BY <2>1 DEF AutomationFor, ContextTokens
  <2>4. /\ Head(Chains["look"]) = [browser |-> TRUE, mode |-> "read"]
        /\ Head(Chains["edit"]) = [browser |-> TRUE, mode |-> "propose_write"]
        /\ Head(Chains["paste"]) = [browser |-> FALSE, mode |-> "propose_write"]
    BY DEF Chains
  <2>5. t \in {"look", "edit", "paste"}
    BY <1>5, <1>6, <2>2, <2>3
  <2>6. /\ [browser |-> TRUE, mode |-> "read"] \in ChainStep
        /\ [browser |-> TRUE, mode |-> "propose_write"] \in ChainStep
        /\ [browser |-> FALSE, mode |-> "propose_write"] \in ChainStep
    BY DEF Modes
  <2> HIDE DEF ChainStep
  <2> QED
    BY <2>4, <2>5, <2>6, Zenon
<1>7. ASSUME NEW c \in ChainStep PROVE Made(c) \in TaughtStep
  BY DEF TaughtStep, StepValues, Modes
<1> HIDE DEF Made, ChainStep
<1>8. \A i \in DOMAIN work : Made(Head(Chains[work[i]])) \in TaughtStep
  <2>1. \A i \in DOMAIN work : work[i] \in Tokens
    BY <1>3, Elements
  <2> QED
    BY <1>3, <1>6, <1>7, <2>1
<1>9. steps \in Seq(TaughtStep) /\ \A i \in DOMAIN steps : i \in Nat
  <2>1. steps \in [DOMAIN work -> TaughtStep]
    BY <1>4, <1>8
  <2>2. steps \in Seq(TaughtStep)
    BY <1>3, <2>1, SameLength
  <2> QED
    BY <2>2, LenProperties
<1> DEFINE missing == {<<"origin", 0>>} \cup {<<"target", i>> : i \in DOMAIN steps}
                        \cup {<<"value", i>> : i \in {j \in DOMAIN steps : steps[j].mode # "read"}}
<1>10. missing \subseteq Question
  <2> HIDE DEF steps
  <2> QED BY <1>9 DEF Question
<1>11. draft = [id |-> id, pattern |-> sequence, version |-> 1, origin |-> FALSE, steps |-> steps,
                provenance |-> "observed", missing |-> missing]
  BY Zenon DEF DraftFromCandidate
<1>12. <<"origin", 0>> \in missing
  OBVIOUS
<1> HIDE DEF steps, missing, draft
<1>13. draft \in Workflow /\ draft.provenance = "observed" /\ draft.missing = missing /\ draft.pattern = sequence
  BY <1>9, <1>10, <1>11 DEF Workflow
<1> QED
  BY <1>12, <1>13 DEF CandidWorks, Candid, draft

\* An edited workflow is candid, whatever was edited.
LEMMA EditIs ==
  ASSUME NEW w \in CandidWorks, NEW edited \in Edits(w)
  PROVE  ApplyEdit(w, edited) \in CandidWorks /\ ApplyEdit(w, edited).pattern = w.pattern
<1>1. w \in Workflow /\ w.steps \in Seq(TaughtStep)
  BY DEF CandidWorks, Workflow
<1>2. edited \in Workflow /\ edited.pattern = w.pattern
  <2>1. ASSUME NEW o \in BOOLEAN, edited = [w EXCEPT !.origin = o]
        PROVE  edited \in Workflow /\ edited.pattern = w.pattern
    BY <1>1, <2>1 DEF Workflow
  <2>2. ASSUME NEW i \in DOMAIN w.steps, NEW s \in TaughtStep, edited = WithStep(w, i, s)
        PROVE  edited \in Workflow /\ edited.pattern = w.pattern
    <3>1. [w.steps EXCEPT ![i] = s] \in Seq(TaughtStep)
      BY <1>1
    <3>2. edited = [w EXCEPT !.steps = [w.steps EXCEPT ![i] = s]]
      BY <2>2 DEF WithStep
    <3> QED
      BY <1>1, <3>1, <3>2 DEF Workflow
  <2>3. ASSUME NEW i \in DOMAIN w.steps, edited = [w EXCEPT !.steps = RemoveAt(@, i)]
        PROVE  edited \in Workflow /\ edited.pattern = w.pattern
    <3>1. RemoveAt(w.steps, i) \in Seq(TaughtStep)
      BY <1>1, Removed, Zenon
    <3> QED
      BY <1>1, <2>3, <3>1 DEF Workflow
  <2>4. ASSUME NEW i \in DOMAIN w.steps
        PROVE  /\ \A t \in BOOLEAN : [w.steps[i] EXCEPT !.target = t] \in TaughtStep
               /\ \A v \in StepValues : [w.steps[i] EXCEPT !.value = v] \in TaughtStep
               /\ \A c \in BOOLEAN : [w.steps[i] EXCEPT !.checked = c] \in TaughtStep
    <3>1. w.steps[i] \in TaughtStep
      BY <1>1, Elements
    <3> QED
      BY <3>1 DEF TaughtStep
  <2>5. CASE edited \in {[w EXCEPT !.origin = o] : o \in BOOLEAN}
    BY <2>1, <2>5
  <2>6. ASSUME NEW i \in DOMAIN w.steps,
               edited \in {WithStep(w, i, [w.steps[i] EXCEPT !.target = t]) : t \in BOOLEAN}
                          \cup {WithStep(w, i, [w.steps[i] EXCEPT !.value = v]) : v \in StepValues}
                          \cup {WithStep(w, i, [w.steps[i] EXCEPT !.checked = c]) : c \in BOOLEAN}
                          \cup {[w EXCEPT !.steps = RemoveAt(@, i)]}
        PROVE  edited \in Workflow /\ edited.pattern = w.pattern
    BY <2>2, <2>3, <2>4, <2>6
  <2>7. \/ edited \in {[w EXCEPT !.origin = o] : o \in BOOLEAN}
        \/ \E i \in DOMAIN w.steps :
             edited \in {WithStep(w, i, [w.steps[i] EXCEPT !.target = t]) : t \in BOOLEAN}
                        \cup {WithStep(w, i, [w.steps[i] EXCEPT !.value = v]) : v \in StepValues}
                        \cup {WithStep(w, i, [w.steps[i] EXCEPT !.checked = c]) : c \in BOOLEAN}
                        \cup {[w EXCEPT !.steps = RemoveAt(@, i)]}
    BY Zenon DEF Edits
  <2> QED
    BY <2>5, <2>6, <2>7
<1> DEFINE new == ApplyEdit(w, edited)
<1>3. OpenQuestions(edited) \subseteq Question /\ w.version + 1 \in Nat
  BY <1>1, <1>2, AsksNothingWhenComplete DEF Workflow
<1>4. new = [edited EXCEPT !.version = w.version + 1, !.provenance = "user_configured", !.missing = OpenQuestions(edited)]
  BY DEF ApplyEdit
<1> HIDE DEF new
<1>5. /\ new \in Workflow /\ new.pattern = edited.pattern /\ new.origin = edited.origin /\ new.steps = edited.steps
      /\ new.provenance = "user_configured" /\ new.missing = OpenQuestions(edited)
  BY <1>2, <1>3, <1>4 DEF Workflow
<1>6. OpenQuestions(new) = OpenQuestions(edited)
  BY <1>5 DEF OpenQuestions
<1> QED
  BY <1>2, <1>5, <1>6 DEF CandidWorks, Candid, new

-----------------------------------------------------------------------------
\* The file, the store, and what is under way between them
Found == [kind : {"absent", "unreadable"}] \cup [kind : {"list", "partly"}, works : Works]
TaughtCommand == [kind : {"load"}] \cup [kind : {"save"}, works : Works]

LearnedTypeOK ==
  /\ shelf \in Found /\ workflows \in Works /\ taughtLoad \in [hydrated : BOOLEAN, failed : BOOLEAN]
  /\ invoked \in Seq(TaughtCommand) /\ answered \in Seq(Found)
  /\ nextId \in Nat /\ early \in BOOLEAN

\* While the file that could not be read has not been touched too early, every answer says so and nothing is saved.
LeftAlone ==
  foundAs = "unreadable" /\ ~early =>
    /\ shelf.kind = "unreadable" /\ \A i \in DOMAIN answered : answered[i].kind = "unreadable"
    /\ taughtLoad.hydrated => taughtLoad.failed
    /\ \A i \in DOMAIN invoked : invoked[i].kind = "load"

LearnedInv == LearnedTypeOK /\ LeftAlone

\* What a file or an answer holds, by its kind
LEMMA FoundIs ==
  ASSUME NEW f \in Found
  PROVE  f.kind \in {"absent", "unreadable", "list", "partly"} /\ (f.kind \in {"list", "partly"} => f.works \in Works)
BY DEF Found

\* The list grows by a draft for a pattern it does not have.
LEMMA ListGrows ==
  ASSUME NEW works \in Works, NEW w \in CandidWorks, \A i \in DOMAIN works : works[i].pattern # w.pattern
  PROVE  Append(works, w) \in Works
<1>1. works \in Seq(CandidWorks) /\ OnePerPattern(works)
  BY DEF Works
<1> DEFINE a == Append(works, w)
<1>2. /\ a \in Seq(CandidWorks) /\ DOMAIN a = DOMAIN works \cup {Len(works) + 1}
      /\ \A i \in DOMAIN works : a[i] = works[i]
      /\ a[Len(works) + 1] = w
  BY <1>1, Appended
<1> HIDE DEF a
<1>3. OnePerPattern(a)
  BY <1>1, <1>2 DEF OnePerPattern
<1> QED
  BY <1>2, <1>3 DEF Works, a

\* One workflow of the list is put in place of another for the same pattern.
LEMMA ListChanges ==
  ASSUME NEW works \in Works, NEW n \in DOMAIN works, NEW w \in CandidWorks, w.pattern = works[n].pattern
  PROVE  [works EXCEPT ![n] = w] \in Works
<1>1. works \in Seq(CandidWorks) /\ OnePerPattern(works)
  BY DEF Works
<1> DEFINE a == [works EXCEPT ![n] = w]
<1>2. a \in Seq(CandidWorks) /\ DOMAIN a = DOMAIN works /\ a[n] = w /\ \A i \in DOMAIN works : i # n => a[i] = works[i]
  BY <1>1
<1> HIDE DEF a
<1>3. \A i \in DOMAIN works : a[i].pattern = works[i].pattern
  BY <1>2
<1>4. OnePerPattern(a)
  BY <1>1, <1>2, <1>3 DEF OnePerPattern
<1> QED
  BY <1>2, <1>4 DEF Works, a

\* One workflow leaves the list.
LEMMA ListShrinks ==
  ASSUME NEW works \in Works, NEW n \in DOMAIN works
  PROVE  RemoveAt(works, n) \in Works
<1>1. works \in Seq(CandidWorks) /\ OnePerPattern(works) /\ n \in Nat
  BY LenProperties DEF Works
<1> DEFINE a == RemoveAt(works, n)
<1>2. a \in Seq(CandidWorks)
  BY <1>1, Removed
<1>3. \A m \in DOMAIN a :
        /\ m \in Nat
        /\ m < n => m \in DOMAIN works /\ a[m] = works[m]
        /\ ~(m < n) => m + 1 \in DOMAIN works /\ a[m] = works[m + 1]
  BY <1>1, RemovedInOrder
<1> HIDE DEF a
<1>4. ASSUME NEW i \in DOMAIN a, NEW j \in DOMAIN a, a[i].pattern = a[j].pattern PROVE i = j
  <2>1. CASE i < n /\ j < n
    BY <1>1, <1>3, <1>4, <2>1 DEF OnePerPattern
  <2>2. CASE i < n /\ ~(j < n)
    <3>1. i = j + 1
      BY <1>1, <1>3, <1>4, <2>2 DEF OnePerPattern
    <3> QED
      BY <1>1, <1>3, <2>2, <3>1
  <2>3. CASE ~(i < n) /\ j < n
    <3>1. i + 1 = j
      BY <1>1, <1>3, <1>4, <2>3 DEF OnePerPattern
    <3> QED
      BY <1>1, <1>3, <2>3, <3>1
  <2>4. CASE ~(i < n) /\ ~(j < n)
    <3>1. i + 1 = j + 1
      BY <1>1, <1>3, <1>4, <2>4 DEF OnePerPattern
    <3> QED
      BY <1>3, <3>1
  <2> QED
    BY <2>1, <2>2, <2>3, <2>4
<1> QED
  BY <1>2, <1>4 DEF Works, OnePerPattern, a

\* A change of the list keeps the invariant: it is saved unless the last load failed.
LEMMA SetKeeps ==
  ASSUME LearnedInv, NEW works \in Works, SetWorkflows(works), nextId' \in Nat, UNCHANGED <<shelf, taughtLoad, answered>>
  PROVE  LearnedInv'
<1> DEFINE save == [kind |-> "save", works |-> works]
<1>1. /\ workflows' = works /\ invoked' = (IF taughtLoad.failed THEN invoked ELSE Append(invoked, save))
      /\ early' = (early \/ ~taughtLoad.hydrated) /\ foundAs' = foundAs
  BY DEF SetWorkflows, Persist
<1>2. save \in TaughtCommand /\ invoked \in Seq(TaughtCommand) /\ taughtLoad \in [hydrated : BOOLEAN, failed : BOOLEAN]
      /\ early \in BOOLEAN
  BY DEF TaughtCommand, LearnedInv, LearnedTypeOK
<1> HIDE DEF save
<1>3. Append(invoked, save) \in Seq(TaughtCommand)
  BY <1>2, Appended
<1>4. invoked' \in Seq(TaughtCommand) /\ early' \in BOOLEAN
  BY <1>1, <1>2, <1>3
<1>5. LearnedTypeOK'
  BY <1>1, <1>4 DEF LearnedInv, LearnedTypeOK
<1>6. LeftAlone'
  <2> SUFFICES ASSUME foundAs' = "unreadable", ~early'
               PROVE  /\ shelf'.kind = "unreadable" /\ \A i \in DOMAIN answered' : answered'[i].kind = "unreadable"
                      /\ taughtLoad'.hydrated => taughtLoad'.failed
                      /\ \A i \in DOMAIN invoked' : invoked'[i].kind = "load"
    BY DEF LeftAlone
  <2>1. foundAs = "unreadable" /\ ~early /\ taughtLoad.hydrated
    BY <1>1
  <2>2. /\ shelf.kind = "unreadable" /\ \A i \in DOMAIN answered : answered[i].kind = "unreadable"
        /\ taughtLoad.hydrated => taughtLoad.failed
        /\ \A i \in DOMAIN invoked : invoked[i].kind = "load"
    BY <2>1 DEF LearnedInv, LeftAlone
  <2>3. invoked' = invoked
    BY <1>1, <2>1, <2>2
  <2> QED
    BY <2>2, <2>3
<1> QED
  BY <1>5, <1>6 DEF LearnedInv

\* Every step keeps the invariant.
LEMMA LearnedInductive == LearnedInv /\ [TaughtNext]_learnedVars => LearnedInv'
<1> SUFFICES ASSUME LearnedInv, [TaughtNext]_learnedVars PROVE LearnedInv'
  OBVIOUS
<1>t. /\ shelf \in Found /\ workflows \in Works /\ taughtLoad \in [hydrated : BOOLEAN, failed : BOOLEAN]
      /\ invoked \in Seq(TaughtCommand) /\ answered \in Seq(Found) /\ nextId \in Nat /\ early \in BOOLEAN
      /\ workflows \in Seq(CandidWorks)
  BY DEF LearnedInv, LearnedTypeOK, Works
<1>1. CASE Hydrate
  <2> DEFINE load == [kind |-> "load"]
  <2>1. load \in TaughtCommand /\ load.kind = "load"
    BY DEF TaughtCommand
  <2>2. invoked' = Append(invoked, load) /\ UNCHANGED <<shelf, workflows, taughtLoad, answered, nextId, early, foundAs>>
    BY <1>1 DEF Hydrate
  <2> HIDE DEF load
  <2>3. /\ Append(invoked, load) \in Seq(TaughtCommand)
        /\ DOMAIN Append(invoked, load) = DOMAIN invoked \cup {Len(invoked) + 1}
        /\ \A i \in DOMAIN invoked : Append(invoked, load)[i] = invoked[i]
        /\ Append(invoked, load)[Len(invoked) + 1] = load
    BY <1>t, <2>1, Appended
  <2>4. LearnedTypeOK'
    BY <1>t, <2>2, <2>3 DEF LearnedTypeOK
  <2>5. LeftAlone'
    BY <2>1, <2>2, <2>3 DEF LearnedInv, LeftAlone
  <2> QED
    BY <2>4, <2>5 DEF LearnedInv
<1>2. ASSUME NEW fails \in BOOLEAN, LoadRuns(fails) PROVE LearnedInv'
  <2> DEFINE answer == IF fails THEN [kind |-> "unreadable"] ELSE shelf
  <2>1. answer \in Found /\ (shelf.kind = "unreadable" => answer.kind = "unreadable")
    BY <1>t DEF Found
  <2>2. /\ invoked # <<>> /\ invoked' = Tail(invoked) /\ answered' = Append(answered, answer)
        /\ UNCHANGED <<shelf, workflows, taughtLoad, nextId, early, foundAs>>
    BY <1>2 DEF LoadRuns
  <2> HIDE DEF answer
  <2>3. /\ Append(answered, answer) \in Seq(Found)
        /\ DOMAIN Append(answered, answer) = DOMAIN answered \cup {Len(answered) + 1}
        /\ \A i \in DOMAIN answered : Append(answered, answer)[i] = answered[i]
        /\ Append(answered, answer)[Len(answered) + 1] = answer
    BY <1>t, <2>1, Appended
  <2>4. /\ Tail(invoked) \in Seq(TaughtCommand)
        /\ \A i \in DOMAIN Tail(invoked) : i + 1 \in DOMAIN invoked /\ Tail(invoked)[i] = invoked[i + 1]
    BY <1>t, <2>2, Shortened
  <2>5. LearnedTypeOK'
    BY <1>t, <2>2, <2>3, <2>4 DEF LearnedTypeOK
  <2>6. LeftAlone'
    BY <2>1, <2>2, <2>3, <2>4 DEF LearnedInv, LeftAlone
  <2> QED
    BY <2>5, <2>6 DEF LearnedInv
<1>3. CASE LoadSettles
  <2> DEFINE load == Head(answered)
  <2>1. /\ answered # <<>> /\ answered' = Tail(answered)
        /\ workflows' = (IF load.kind \in {"list", "partly"} THEN load.works ELSE <<>>)
        /\ taughtLoad' = [hydrated |-> TRUE, failed |-> load.kind = "unreadable"]
        /\ UNCHANGED <<shelf, invoked, nextId, early, foundAs>>
    BY <1>3 DEF LoadSettles
  <2>2. /\ load \in Found /\ load = answered[1] /\ 1 \in DOMAIN answered /\ Tail(answered) \in Seq(Found)
        /\ \A i \in DOMAIN Tail(answered) : i + 1 \in DOMAIN answered /\ Tail(answered)[i] = answered[i + 1]
    BY <1>t, <2>1, Shortened
  <2> HIDE DEF load
  <2>3. <<>> \in Works
    <3>1. <<>> \in Seq(CandidWorks) /\ DOMAIN <<>> = {}
      OBVIOUS
    <3> QED
      BY <3>1 DEF Works, OnePerPattern
  <2>4. workflows' \in Works
    BY <2>1, <2>2, <2>3, FoundIs
  <2>5. taughtLoad' \in [hydrated : BOOLEAN, failed : BOOLEAN] /\ (taughtLoad'.failed <=> load.kind = "unreadable")
    BY <2>1, Zenon
  <2>6. LearnedTypeOK'
    BY <1>t, <2>1, <2>2, <2>4, <2>5 DEF LearnedTypeOK
  <2>7. LeftAlone'
    BY <2>1, <2>2, <2>5 DEF LearnedInv, LeftAlone
  <2> QED
    BY <2>6, <2>7 DEF LearnedInv
<1>4. CASE SaveRuns
  <2> DEFINE save == Head(invoked)
  <2>1. /\ invoked # <<>> /\ save.kind = "save" /\ invoked' = Tail(invoked)
        /\ shelf' = [kind |-> "list", works |-> save.works]
        /\ UNCHANGED <<workflows, taughtLoad, answered, nextId, early, foundAs>>
    BY <1>4 DEF SaveRuns
  <2>2. /\ save \in TaughtCommand /\ save = invoked[1] /\ 1 \in DOMAIN invoked /\ Tail(invoked) \in Seq(TaughtCommand)
    BY <1>t, <2>1, Shortened
  <2> HIDE DEF save
  <2>3. save.works \in Works
    BY <2>1, <2>2 DEF TaughtCommand
  <2>4. shelf' \in Found
    BY <2>1, <2>3 DEF Found
  <2>5. LearnedTypeOK'
    BY <1>t, <2>1, <2>2, <2>4 DEF LearnedTypeOK
  <2>6. ~(foundAs = "unreadable" /\ ~early)
    BY <2>1, <2>2 DEF LearnedInv, LeftAlone
  <2>7. LeftAlone'
    BY <2>1, <2>6 DEF LeftAlone
  <2> QED
    BY <2>5, <2>7 DEF LearnedInv
<1>5. ASSUME NEW o \in Observations, StartFor(o) PROVE LearnedInv'
  <2> DEFINE draft == DraftFromCandidate(o, nextId)
  <2>1. /\ nextId' = nextId + 1 /\ ~\E i \in DOMAIN workflows : workflows[i].pattern = o
        /\ SetWorkflows(Append(workflows, draft)) /\ UNCHANGED <<shelf, taughtLoad, answered>>
    BY <1>5 DEF StartFor
  <2>2. draft \in CandidWorks /\ draft.pattern = o
    BY <1>t, DraftIs
  <2> HIDE DEF draft
  <2>3. Append(workflows, draft) \in Works
    BY <1>t, <2>1, <2>2, ListGrows
  <2> QED
    BY <1>t, <2>1, <2>3, SetKeeps
<1>6. ASSUME NEW i, UpdateWorkflow(i) PROVE LearnedInv'
  <2>1. /\ i \in DOMAIN workflows
        /\ \E edited \in Edits(workflows[i]) : SetWorkflows([workflows EXCEPT ![i] = ApplyEdit(workflows[i], edited)])
        /\ UNCHANGED <<shelf, taughtLoad, answered, nextId>>
    BY <1>6 DEF UpdateWorkflow
  <2>2. PICK edited \in Edits(workflows[i]) : SetWorkflows([workflows EXCEPT ![i] = ApplyEdit(workflows[i], edited)])
    BY <2>1
  <2>3. workflows[i] \in CandidWorks
    BY <1>t, <2>1, Elements
  <2>4. ApplyEdit(workflows[i], edited) \in CandidWorks /\ ApplyEdit(workflows[i], edited).pattern = workflows[i].pattern
    BY <2>3, EditIs
  <2>5. [workflows EXCEPT ![i] = ApplyEdit(workflows[i], edited)] \in Works
    BY <1>t, <2>1, <2>4, ListChanges
  <2> QED
    BY <1>t, <2>1, <2>2, <2>5, SetKeeps
<1>7. ASSUME NEW i, RemoveWorkflow(i) PROVE LearnedInv'
  <2>1. i \in DOMAIN workflows /\ SetWorkflows(RemoveAt(workflows, i)) /\ UNCHANGED <<shelf, taughtLoad, answered, nextId>>
    BY <1>7 DEF RemoveWorkflow
  <2>2. RemoveAt(workflows, i) \in Works
    BY <1>t, <2>1, ListShrinks
  <2> QED
    BY <1>t, <2>1, <2>2, SetKeeps
<1>8. CASE UNCHANGED learnedVars
  BY <1>8 DEF learnedVars, LearnedInv, LearnedTypeOK, LeftAlone
<1> QED
  BY <1>1, <1>2, <1>3, <1>4, <1>5, <1>6, <1>7, <1>8 DEF TaughtNext

\* What the invariant says of what is stored
LEMMA LearnedIsHonest == LearnedInv => TaughtIsHonest
<1> SUFFICES ASSUME LearnedInv PROVE TaughtIsHonest
  OBVIOUS
<1>1. workflows \in Works /\ shelf \in Found
  BY DEF LearnedInv, LearnedTypeOK
<1>2. \A works \in Works : Listed(works) \subseteq CandidWorks
  <2>1. ASSUME NEW works \in Works PROVE Listed(works) \subseteq CandidWorks
    <3>1. works \in Seq(CandidWorks)
      BY DEF Works
    <3>2. \A i \in DOMAIN works : works[i] \in CandidWorks
      BY <3>1, Elements
    <3> QED
      BY <3>2 DEF Listed
  <2> QED
    BY <2>1
<1>3. Stored \subseteq CandidWorks
  BY <1>1, <1>2, FoundIs DEF Stored
<1>4. \A w \in Stored : /\ Ready(w) => Complete(w) /\ w.provenance = "user_configured"
                        /\ (w.provenance = "user_configured" /\ Complete(w)) => Ready(w)
  BY <1>3, CandidIsHonest
<1>5. \A i, j \in DOMAIN workflows : workflows[i].pattern = workflows[j].pattern => i = j
  BY <1>1 DEF Works, OnePerPattern
<1> QED
  BY <1>4, <1>5 DEF TaughtIsHonest, LearnedInv, LeftAlone

\* What the file may be found to hold before the panel opens
LEMMA LearnedStart == LearnedInit => LearnedInv
<1> SUFFICES ASSUME LearnedInit PROVE LearnedInv
  OBVIOUS
<1>1. <<>> \in Works
  <2>1. <<>> \in Seq(CandidWorks) /\ DOMAIN <<>> = {}
    OBVIOUS
  <2> QED
    BY <2>1 DEF Works, OnePerPattern
<1>2. shelf \in Found /\ foundAs = shelf.kind
  BY <1>1 DEF LearnedInit, Found
<1>3. taughtLoad \in [hydrated : BOOLEAN, failed : BOOLEAN] /\ ~taughtLoad.hydrated
  BY DEF LearnedInit
<1>4. /\ workflows = <<>> /\ invoked = <<>> /\ answered = <<>> /\ nextId = 1 /\ early = FALSE
      /\ DOMAIN invoked = {} /\ DOMAIN answered = {}
  <2>1. DOMAIN <<>> = {}
    OBVIOUS
  <2> QED
    BY <2>1 DEF LearnedInit
<1>5. LearnedTypeOK
  <2>1. <<>> \in Seq(TaughtCommand) /\ <<>> \in Seq(Found) /\ 1 \in Nat /\ FALSE \in BOOLEAN
    OBVIOUS
  <2>2. workflows \in Works /\ invoked \in Seq(TaughtCommand) /\ answered \in Seq(Found)
    BY <1>1, <1>4, <2>1
  <2>3. nextId \in Nat /\ early \in BOOLEAN
    BY <1>4
  <2> QED
    BY <1>2, <1>3, <2>2, <2>3, Zenon DEF LearnedTypeOK
<1>6. LeftAlone
  <2>1. taughtLoad.hydrated => taughtLoad.failed
    BY <1>3
  <2>2. (\A i \in DOMAIN answered : answered[i].kind = "unreadable") /\ \A i \in DOMAIN invoked : invoked[i].kind = "load"
    BY <1>4
  <2> QED
    BY <1>2, <2>1, <2>2, Zenon DEF LeftAlone
<1> QED
  BY <1>5, <1>6 DEF LearnedInv

\* What the user taught is honest, whatever was observed and however it is edited, saved, loaded and thrown away: a
\* workflow is ready exactly when it is complete and the user made it so, a pattern has one workflow, and a file that
\* could not be read is not written over unless a workflow was touched before it was loaded (learnedWorkflows.ts).
THEOREM TaughtStaysHonest == TaughtSpec => []TaughtIsHonest
BY LearnedStart, LearnedInductive, LearnedIsHonest, PTL DEF TaughtSpec

\* The two files of the desktop together, as the windows that share them are checked: the settings and what was taught
\* stay honest in one behaviour, each whatever the other does.
THEOREM SharedFilesStayHonest == Spec => []SharedFilesAreHonest
<1>1. Init => SettingsInv /\ LearnedInv
  BY SettingsStart, LearnedStart DEF Init
<1>2. ASSUME [Next]_<<moving, settingsVars, learnedVars, suggestVars, teachVars>>
      PROVE  [SettingsNext]_settingsVars /\ [TaughtNext]_learnedVars
  <2>1. CASE UNCHANGED <<moving, settingsVars, learnedVars, suggestVars, teachVars>>
    BY <2>1
  <2>2. CASE Next
    <3>1. (SettingsNext /\ SettingsOnly) \/ (TaughtNext /\ LearnedOnly) \/ UNCHANGED <<settingsVars, learnedVars>>
      BY <2>2, Zenon DEF Next, SettingsNext, TaughtNext, SuggestOnly, TeachOnly
    <3> QED
      BY <3>1 DEF SettingsOnly, LearnedOnly
  <2> QED
    BY <1>2, <2>1, <2>2
<1>3. SettingsInv /\ LearnedInv => SharedFilesAreHonest
  BY SettingsShared, LearnedIsHonest DEF SharedFilesAreHonest
<1> QED
  BY <1>1, <1>2, <1>3, SettingsInductive, LearnedInductive, PTL DEF Spec

-----------------------------------------------------------------------------
(* The traces: a step is what was seen, and a value flows only where nothing came between. *)

Places == {"open", "secure", "bundle", "name"}
Item == [nr : Nat, place : Places, kind : Kinds, order : Nat]
TraceStep == [order : Nat, nr : Nat, place : Places, kind : Kinds, from : Nat]
Building == [max : Nat, lastRead : Nat, steps : Seq(TraceStep)]

\* A buffer: what it holds came one after the other, what was numbered was numbered in that order, and whatever was
\* in an open place was numbered.
InTurn(b) ==
  /\ \A m, k \in DOMAIN b : m < k => b[m].nr < b[k].nr
  /\ \A m, k \in DOMAIN b : m < k /\ b[m].order # 0 /\ b[k].order # 0 => b[m].order < b[k].order
  /\ \A m \in DOMAIN b : b[m].place = "open" => b[m].order # 0

\* Nothing in a buffer is in an app refused by its name alone.
Nameless(b) == \A k \in DOMAIN b : b[k].place # "name"

\* A read at place j of steps, and nothing but presses in open places since, up to place n of the buffer.
Carries(steps, b, j, n) ==
  /\ steps[j].kind = "read"
  /\ \A m \in DOMAIN b : m <= n /\ steps[j].nr < b[m].nr => b[m].place = "open" /\ b[m].kind = "press"

\* A step is the observation at some place of the buffer, which was in the open.
IsOf(step, o) == step.nr = o.nr /\ step.order = o.order /\ step.place = o.place /\ step.kind = o.kind
Drawn(step, b, n) == \E m \in DOMAIN b : m <= n /\ b[m].place = "open" /\ IsOf(step, b[m])

\* A value flows into a step from a read before it.
Flows(steps, b, i) ==
  steps[i].from # 0 =>
    \E j \in 1..(i - 1) :
      /\ steps[j].order = steps[i].from /\ steps[j].kind = "read"
      /\ \A k \in DOMAIN b : steps[j].nr < b[k].nr /\ b[k].nr < steps[i].nr => b[k].place = "open" /\ b[k].kind = "press"

\* What assembling the first n of a buffer has given
Assembled(acc, b, n) ==
  /\ acc \in Building
  /\ \A i \in DOMAIN acc.steps : Drawn(acc.steps[i], b, n)
  /\ \A i, j \in DOMAIN acc.steps : i < j => acc.steps[i].nr < acc.steps[j].nr
  /\ \A i \in DOMAIN acc.steps : Flows(acc.steps, b, i)
  /\ acc.lastRead # 0 => \E j \in DOMAIN acc.steps : acc.steps[j].order = acc.lastRead /\ Carries(acc.steps, b, j, n)

\* An observation that is refused ends the flow, and adds nothing.
LEMMA CutAssembled ==
  ASSUME NEW b \in Seq(Item), NEW acc, NEW n \in Nat, Assembled(acc, b, n)
  PROVE  Assembled(CutOut(acc), b, n + 1)
<1>1. acc \in Building
  BY DEF Assembled
<1>2. CutOut(acc) \in Building /\ CutOut(acc).steps = acc.steps /\ CutOut(acc).lastRead = 0
  BY <1>1 DEF CutOut, Building
<1>3. \A i \in DOMAIN acc.steps : Drawn(acc.steps[i], b, n + 1)
  <2>1. \A m \in DOMAIN b : m <= n => m <= n + 1
    BY LenProperties
  <2> QED
    BY <2>1 DEF Assembled, Drawn
<1> QED
  BY <1>2, <1>3 DEF Assembled

\* An observation in the open becomes a step, and a write takes what was read last.
LEMMA StepAssembled ==
  ASSUME NEW b \in Seq(Item), InTurn(b), NEW acc, NEW n \in Nat, n + 1 \in DOMAIN b, Assembled(acc, b, n),
         b[n + 1].place = "open"
  PROVE  Assembled(AddStep(acc, b[n + 1]), b, n + 1)
<1> DEFINE o == b[n + 1]
           next == AddStep(acc, o)
           new == [order |-> o.order, nr |-> o.nr, place |-> o.place, kind |-> o.kind,
                   from |-> IF o.kind = "write" THEN acc.lastRead ELSE 0]
           old == acc.steps
           last == Len(old) + 1
<1>1. acc \in Building /\ old \in Seq(TraceStep) /\ acc.lastRead \in Nat /\ acc.max \in Nat
  BY DEF Assembled, Building
<1>2. o \in Item /\ o.order # 0
  BY Elements DEF InTurn
<1>3. new \in TraceStep /\ o.order \in Nat /\ o.nr \in Nat /\ o.kind \in Kinds
  BY <1>1, <1>2 DEF Item, TraceStep
<1>4. /\ next.steps = Append(old, new)
      /\ next.lastRead = CASE o.kind = "read" -> o.order [] o.kind = "write" -> 0 [] OTHER -> acc.lastRead
      /\ next.max = IF o.order > acc.max THEN o.order ELSE acc.max
      /\ next = [max |-> next.max, lastRead |-> next.lastRead, steps |-> next.steps]
  BY <1>2 DEF AddStep
<1> DEFINE steps == next.steps
<1>5. /\ steps \in Seq(TraceStep) /\ DOMAIN steps = DOMAIN old \cup {last}
      /\ last \notin DOMAIN old /\ steps[last] = new
      /\ \A i \in DOMAIN old : steps[i] = old[i]
      /\ last \in Nat /\ DOMAIN old = 1..(last - 1) /\ last > 0
  <2>1. Len(old) \in Nat /\ DOMAIN old = 1..Len(old)
    BY <1>1, LenProperties
  <2>2. last - 1 = Len(old)
    BY <2>1
  <2> HIDE DEF next, new, old
  <2> QED
    BY <1>1, <1>3, <1>4, <2>1, <2>2, Appended
<1>6. next.lastRead \in Nat /\ next.max \in Nat
  BY <1>1, <1>3, <1>4 DEF Kinds
<1>7. next \in Building
  <2> HIDE DEF next
  <2> QED
    BY <1>4, <1>5, <1>6 DEF Building
<1>dom. n + 1 \in DOMAIN b /\ (\A m \in DOMAIN b : m \in Nat /\ (m < n + 1 \/ m = n + 1 \/ n + 1 < m) /\ (m <= n => m < n + 1)) /\ n <= n + 1
  BY LenProperties
<1>nat. /\ \A m \in DOMAIN b : b[m] \in Item
        /\ \A i \in DOMAIN steps : steps[i] \in TraceStep
  BY <1>5, Elements
<1> HIDE DEF next, new
<1>10. /\ \A i \in DOMAIN old : Drawn(old[i], b, n)
       /\ \A i, j \in DOMAIN old : i < j => old[i].nr < old[j].nr
       /\ \A i \in DOMAIN old : Flows(old, b, i)
       /\ acc.lastRead # 0 => \E j \in DOMAIN old : old[j].order = acc.lastRead /\ Carries(old, b, j, n)
  BY DEF Assembled
<1> HIDE DEF old
<1>n. /\ new.order = o.order /\ new.nr = o.nr /\ new.place = o.place /\ new.kind = o.kind
      /\ new.from = IF o.kind = "write" THEN acc.lastRead ELSE 0
  BY DEF new
<1>11. \A i \in DOMAIN steps : Drawn(steps[i], b, n + 1)
  <2>1. Drawn(new, b, n + 1)
    BY <1>n, <1>dom DEF Drawn, IsOf
  <2>2. ASSUME NEW i \in DOMAIN old PROVE Drawn(steps[i], b, n + 1)
    <3>1. \A m \in DOMAIN b : m <= n => m <= n + 1
      BY <1>dom
    <3> QED
      BY <1>5, <1>10, <3>1 DEF Drawn
  <2> QED
    BY <1>5, <2>1, <2>2
<1>before. \A i \in DOMAIN old : old[i].nr < o.nr
  <2>1. ASSUME NEW i \in DOMAIN old PROVE old[i].nr < o.nr
    <3>1. PICK m \in DOMAIN b : m <= n /\ old[i].nr = b[m].nr
      BY <1>10 DEF Drawn, IsOf
    <3>2. m < n + 1
      BY <1>dom, <3>1
    <3> QED
      BY <3>1, <3>2 DEF InTurn
  <2> QED
    BY <2>1
<1>12. \A i, j \in DOMAIN steps : i < j => steps[i].nr < steps[j].nr
  <2>1. ASSUME NEW i \in DOMAIN steps, NEW j \in DOMAIN steps, i < j PROVE steps[i].nr < steps[j].nr
    <3>1. i \in DOMAIN old
      BY <1>5, <2>1
    <3>2. CASE j = last
      BY <1>5, <1>before, <1>n, <3>1, <3>2
    <3>3. CASE j \in DOMAIN old
      BY <1>5, <1>10, <2>1, <3>1, <3>3
    <3> QED
      BY <1>5, <3>2, <3>3
  <2> QED
    BY <2>1
<1>13. \A i \in DOMAIN steps : Flows(steps, b, i)
  <2>1. ASSUME NEW i \in DOMAIN old PROVE Flows(steps, b, i)
    <3>1. \A j \in 1..(i - 1) : j \in DOMAIN old
      BY <1>5
    <3>2. Flows(old, b, i) /\ steps[i] = old[i]
      BY <1>5, <1>10
    <3>3. \A j \in 1..(i - 1) : steps[j] = old[j]
      BY <1>5, <3>1
    <3> QED
      BY <3>2, <3>3 DEF Flows
  <2>2. Flows(steps, b, last)
    <3> SUFFICES ASSUME new.from # 0
                 PROVE  \E j \in 1..(last - 1) :
                          /\ steps[j].order = new.from /\ steps[j].kind = "read"
                          /\ \A k \in DOMAIN b : steps[j].nr < b[k].nr /\ b[k].nr < new.nr =>
                               b[k].place = "open" /\ b[k].kind = "press"
      BY <1>5 DEF Flows
    <3>1. new.from = acc.lastRead
      BY <1>n
    <3>2. PICK j \in DOMAIN old : old[j].order = acc.lastRead /\ Carries(old, b, j, n)
      BY <1>10, <3>1
    <3>3. ASSUME NEW k \in DOMAIN b, old[j].nr < b[k].nr, b[k].nr < new.nr
          PROVE  b[k].place = "open" /\ b[k].kind = "press"
      <4>1. ~(n + 1 < k) /\ k # n + 1
        <5>1. b[n + 1].nr \in Nat /\ b[k].nr \in Nat
          BY <1>nat, <1>dom DEF Item
        <5>2. b[k].nr < b[n + 1].nr
          BY <1>n, <3>3
        <5> QED
          BY <1>dom, <5>1, <5>2 DEF InTurn
      <4>2. k <= n
        BY <1>dom, <4>1
      <4> QED
        BY <3>2, <3>3, <4>2 DEF Carries
    <3> QED
      BY <1>5, <3>1, <3>2, <3>3 DEF Carries
  <2> QED
    BY <1>5, <2>1, <2>2
<1>14. ASSUME next.lastRead # 0
       PROVE  \E j \in DOMAIN steps : steps[j].order = next.lastRead /\ Carries(steps, b, j, n + 1)
  <2>1. CASE o.kind = "read"
    <3>1. next.lastRead = new.order /\ new.kind = "read"
      BY <1>4, <1>n, <2>1
    <3>2. ASSUME NEW m \in DOMAIN b, m <= n + 1 PROVE ~(new.nr < b[m].nr)
      <4>1. m = n + 1 \/ m < n + 1
        BY <1>dom, <3>2
      <4>2. b[n + 1].nr \in Nat /\ b[m].nr \in Nat
        BY <1>nat, <1>dom DEF Item
      <4>3. m < n + 1 => b[m].nr < b[n + 1].nr
        BY <1>dom DEF InTurn
      <4> QED
        BY <1>n, <4>1, <4>2, <4>3
    <3> QED
      BY <1>5, <3>1, <3>2 DEF Carries
  <2>2. CASE o.kind = "press"
    <3>1. next.lastRead = acc.lastRead
      BY <1>4, <2>2
    <3>2. PICK j \in DOMAIN old : old[j].order = acc.lastRead /\ Carries(old, b, j, n)
      BY <1>10, <1>14, <3>1
    <3>3. ASSUME NEW m \in DOMAIN b, m <= n + 1, old[j].nr < b[m].nr
          PROVE  b[m].place = "open" /\ b[m].kind = "press"
      <4>1. m = n + 1 \/ m <= n
        BY <1>dom, <3>3
      <4> QED
        BY <2>2, <3>2, <3>3, <4>1 DEF Carries
    <3> QED
      BY <1>5, <3>1, <3>2, <3>3 DEF Carries
  <2>3. CASE o.kind = "write"
    BY <1>4, <1>14, <2>3
  <2> QED
    BY <1>3, <2>1, <2>2, <2>3 DEF Kinds
<1>15. Assembled(next, b, n + 1)
  BY <1>7, <1>11, <1>12, <1>13, <1>14 DEF Assembled
<1> QED
  BY <1>15 DEF next

-----------------------------------------------------------------------------
\* The function in Assemble, for the places left open by the gate of the moment.
Building0 == [max |-> 0, lastRead |-> 0, steps |-> <<>>]
Assembling(c, s, b, m) ==
  c = [n \in 0..m |-> IF n = 0 THEN Building0
                      ELSE IF DecideAgain(s, b[n].place) = "emit" THEN AddStep(c[n - 1], b[n]) ELSE CutOut(c[n - 1])]

\* The recursive function of Assemble is defined by its equation.
LEMMA AssemblingDefined ==
  ASSUME NEW s, NEW b, NEW m \in Nat
  PROVE  \E c : Assembling(c, s, b, m)
<1> DEFINE Fits(c, k) == Assembling(c, s, b, k)
           Defined == {k \in Nat : \E c : Fits(c, k)}
           Turn(a, n) == IF DecideAgain(s, b[n].place) = "emit" THEN AddStep(a, b[n]) ELSE CutOut(a)
<1>0. \A c, k : Fits(c, k) <=> c = [n \in 0..k |-> IF n = 0 THEN Building0 ELSE Turn(c[n - 1], n)]
  BY Zenon DEF Assembling
<1> HIDE DEF Fits, Turn
<1>1. 0 \in Defined
  <2> DEFINE c == [n \in 0..0 |-> Building0]
  <2>1. \A n \in 0..0 : n = 0
    OBVIOUS
  <2>2. c = [n \in 0..0 |-> IF n = 0 THEN Building0 ELSE Turn(c[n - 1], n)]
    BY <2>1, Zenon
  <2> HIDE DEF c
  <2> QED
    BY <1>0, <2>2
<1>2. ASSUME NEW k \in Nat, k \in Defined PROVE k + 1 \in Defined
  <2>1. PICK c : Fits(c, k)
    BY <1>2
  <2> DEFINE d == [n \in 0..(k + 1) |-> IF n = k + 1 THEN Turn(c[k], k + 1) ELSE c[n]]
             e == [n \in 0..(k + 1) |-> IF n = 0 THEN Building0 ELSE Turn(d[n - 1], n)]
  <2>c. c = [n \in 0..k |-> IF n = 0 THEN Building0 ELSE Turn(c[n - 1], n)]
    BY <1>0, <2>1
  <2>2. ASSUME NEW n \in 0..(k + 1) PROVE d[n] = e[n]
    <3>1. CASE n = k + 1
      <4>1. n # 0 /\ d[n] = Turn(c[k], k + 1) /\ d[n - 1] = c[k] /\ k \in 0..(k + 1) /\ k # k + 1 /\ n - 1 = k
        BY <3>1
      <4> QED
        BY <3>1, <4>1
    <3>2. CASE n = 0
      <4>1. n # k + 1 /\ d[n] = c[n] /\ n \in 0..k
        BY <3>2
      <4>2. c[n] = Building0
        BY <2>c, <3>2, <4>1
      <4> QED
        BY <3>2, <4>1, <4>2
    <3>3. CASE n # k + 1 /\ n # 0
      <4>1. d[n] = c[n] /\ d[n - 1] = c[n - 1] /\ n \in 0..k
        BY <3>3
      <4>2. c[n] = Turn(c[n - 1], n)
        BY <2>c, <3>3, <4>1
      <4> QED
        BY <3>3, <4>1, <4>2
    <3> QED
      BY <3>1, <3>2, <3>3
  <2>3. d = [n \in 0..(k + 1) |-> d[n]] /\ e = [n \in 0..(k + 1) |-> e[n]]
    OBVIOUS
  <2>4. d = e
    <3> HIDE DEF d, e
    <3> QED BY <2>2, <2>3
  <2>5. d = [n \in 0..(k + 1) |-> IF n = 0 THEN Building0 ELSE Turn(d[n - 1], n)]
    <3> HIDE DEF d
    <3> QED BY <2>4 DEF e
  <2> HIDE DEF d, e
  <2>6. Fits(d, k + 1)
    BY <1>0, <2>5
  <2> QED
    BY <2>6, k + 1 \in Nat
<1>3. Nat \subseteq Defined
  <2> HIDE DEF Defined
  <2> QED BY <1>1, <1>2, NatSetInduction
<1>4. m \in Defined
  BY <1>3
<1> QED
  BY <1>4 DEF Fits

\* Assembling gives a step for what is in the open and a hole for the rest, and no value flows over a hole.
LEMMA AssembleIs ==
  ASSUME NEW s \in Sources, NEW b \in Seq(Item), InTurn(b), Nameless(b)
  PROVE  \E acc : Assembled(acc, b, Len(b)) /\ acc.steps = Assemble(s, b)
<1> DEFINE all == CHOOSE c : Assembling(c, s, b, Len(b))
           Done == {n \in Nat : n <= Len(b) => Assembled(all[n], b, n)}
<1>0. Len(b) \in Nat /\ DOMAIN b = 1..Len(b)
  BY LenProperties
<1>1. Assembling(all, s, b, Len(b))
  BY <1>0, AssemblingDefined
<1>2. Assemble(s, b) = all[Len(b)].steps
  BY Zenon DEF Assemble, Assembling, Building0
<1> HIDE DEF all
<1>3. /\ all[0] = Building0
      /\ \A n \in 1..Len(b) : all[n] = IF DecideAgain(s, b[n].place) = "emit" THEN AddStep(all[n - 1], b[n]) ELSE CutOut(all[n - 1])
  <2>1. \A n \in 0..Len(b) : all[n] = IF n = 0 THEN Building0
                                      ELSE IF DecideAgain(s, b[n].place) = "emit" THEN AddStep(all[n - 1], b[n]) ELSE CutOut(all[n - 1])
    BY <1>1, Zenon DEF Assembling
  <2>2. 0 \in 0..Len(b) /\ \A n \in 1..Len(b) : n \in 0..Len(b) /\ n # 0
    BY <1>0
  <2> QED
    BY <2>1, <2>2, Zenon
<1>4. 0 \in Done
  <2>1. Assembled(Building0, b, 0)
    <3>1. Building0.steps = <<>> /\ Building0.lastRead = 0 /\ Building0 \in Building
      BY DEF Building0, Building
    <3>2. DOMAIN Building0.steps = {}
      BY <3>1
    <3> QED
      BY <3>1, <3>2 DEF Assembled
  <2> QED
    BY <1>3, <2>1
<1>5. ASSUME NEW n \in Nat, n \in Done PROVE n + 1 \in Done
  <2> SUFFICES ASSUME n + 1 <= Len(b) PROVE Assembled(all[n + 1], b, n + 1)
    OBVIOUS
  <2>1. n <= Len(b) /\ n + 1 \in 1..Len(b) /\ n + 1 - 1 = n
    BY <1>0
  <2>2. Assembled(all[n], b, n)
    BY <1>5, <2>1
  <2>3. CASE DecideAgain(s, b[n + 1].place) = "emit"
    <3>1. b[n + 1].place \in Places /\ b[n + 1].place # "name"
      <4>1. b[n + 1] \in Item
        BY <1>0, <2>1, Elements
      <4> QED
        BY <1>0, <2>1, <4>1 DEF Item, Nameless
    <3>2. b[n + 1].place = "open"
      <4>1. DecideAgain(s, "bundle") # "emit"
        BY DEF DecideAgain, Decide
      <4>2. DecideAgain(s, "secure") # "emit"
        BY DEF DecideAgain, Decide, ProtectedReason
      <4> QED
        BY <2>3, <3>1, <4>1, <4>2 DEF Places
    <3>3. all[n + 1] = AddStep(all[n], b[n + 1])
      BY <1>3, <2>1, <2>3
    <3> QED
      BY <1>0, <2>1, <2>2, <3>2, <3>3, StepAssembled
  <2>4. CASE DecideAgain(s, b[n + 1].place) # "emit"
    <3>1. all[n + 1] = CutOut(all[n])
      BY <1>3, <2>1, <2>4
    <3> QED
      BY <2>2, <3>1, CutAssembled
  <2> QED
    BY <2>3, <2>4
<1>6. Nat \subseteq Done
  <2> HIDE DEF Done
  <2> QED BY <1>4, <1>5, NatSetInduction
<1>7. Assembled(all[Len(b)], b, Len(b))
  BY <1>0, <1>6
<1> QED
  BY <1>2, <1>7

-----------------------------------------------------------------------------
\* The state of a recorder, of the stamps and of the traces sent.
Recorder == [id : Nat, steps : Nat, buffer : Seq(Item)]
StampType == [ref : Nat, order : Nat, nr : Nat]

TracesTypeOK ==
  /\ recorder \in [Sources -> Recorder] /\ onList \in BOOLEAN
  /\ nextTrace \in Nat \ {0} /\ observed \in Nat /\ stamped \subseteq StampType
  /\ \A t \in traces : t.id \in Nat /\ t.buffer \in Seq(Item)

\* What a recorder holds was seen so far and numbered by it, under an id of its own.
Within(b, seen, steps) == \A m \in DOMAIN b : b[m].nr <= seen /\ b[m].order <= steps
Kept(rec, seen) == InTurn(rec.buffer) /\ Within(rec.buffer, seen, rec.steps)

\* A stamp leads to the observation of the same interaction, wherever its number is found.
LeadsTo(e, b) == \A m \in DOMAIN b : b[m].order = e.order => b[m].nr = e.nr

StampFits(e, rec) == e.ref = rec.id => e.order <= rec.steps /\ LeadsTo(e, rec.buffer)

\* A trace was put together from a buffer by the gate of some moment.
PutTogether(t) ==
  /\ InTurn(t.buffer)
  /\ Nameless(t.buffer) => \E acc : Assembled(acc, t.buffer, Len(t.buffer)) /\ acc.steps = t.steps

TracesInv ==
  /\ TracesTypeOK
  /\ \A s \in Sources : Kept(recorder[s], observed) /\ recorder[s].id < nextTrace
  /\ \A s, r \in Sources : s # r /\ recorder[s].id # 0 => recorder[s].id # recorder[r].id
  /\ \A e \in stamped : e.ref # 0 /\ e.ref < nextTrace /\ e.order # 0
  /\ \A e \in stamped, s \in Sources : StampFits(e, recorder[s])
  /\ \A t \in traces : t.id < nextTrace /\ PutTogether(t)
  /\ \A t \in traces, s \in Sources : t.id # 0 => t.id # recorder[s].id
  /\ \A t \in traces, e \in stamped : e.ref = t.id => LeadsTo(e, t.buffer)

\* What Push does to a buffer
Joined(c, b, o) == c = Append(IF Len(b) >= BufferCap THEN Tail(b) ELSE b, o)

\* A buffer that takes one more observation, the oldest making room when it is full, stays in turn.
LEMMA Buffered ==
  ASSUME NEW b \in Seq(Item), InTurn(b), NEW seen \in Nat, NEW steps \in Nat,
         Within(b, seen, steps), NEW o \in Item, o.nr = seen + 1, o.order \in {0, steps + 1}, o.place = "open" => o.order # 0,
         NEW c, Joined(c, b, o)
  PROVE  /\ c \in Seq(Item) /\ InTurn(c)
         /\ \A m \in DOMAIN c : c[m] = o \/ \E k \in DOMAIN b : c[m] = b[k]
<1> DEFINE left == IF Len(b) >= BufferCap THEN Tail(b) ELSE b
<1>0. c = Append(left, o)
  BY Zenon DEF Joined
<1>1. /\ left \in Seq(Item) /\ InTurn(left)
      /\ \A m \in DOMAIN left : \E k \in DOMAIN b : left[m] = b[k]
  <2>1. CASE Len(b) >= BufferCap
    <3>1. left = Tail(b) /\ b # <<>>
      BY <2>1, BufferAssumption
    <3>2. /\ Tail(b) \in Seq(Item)
          /\ \A i \in DOMAIN Tail(b) : i + 1 \in DOMAIN b /\ Tail(b)[i] = b[i + 1]
      BY <3>1, Shortened
    <3>3. \A i, j \in DOMAIN Tail(b) : i < j => i + 1 < j + 1
      BY <3>2, LenProperties
    <3>4. InTurn(Tail(b))
      BY <3>2, <3>3 DEF InTurn
    <3> HIDE DEF left
    <3> QED
      BY <3>1, <3>2, <3>4
  <2>2. CASE ~(Len(b) >= BufferCap)
    BY <2>2
  <2> QED
    BY <2>1, <2>2
<1> HIDE DEF left
<1>2. /\ c \in Seq(Item) /\ DOMAIN c = DOMAIN left \cup {Len(left) + 1} /\ Len(left) + 1 \notin DOMAIN left
      /\ \A i \in DOMAIN left : c[i] = left[i]
      /\ c[Len(left) + 1] = o
  <2>1. o \in Item
    OBVIOUS
  <2>2. LET a == Append(left, o) IN
        /\ a \in Seq(Item) /\ DOMAIN a = DOMAIN left \cup {Len(left) + 1} /\ Len(left) + 1 \notin DOMAIN left
        /\ \A i \in DOMAIN left : a[i] = left[i]
        /\ a[Len(left) + 1] = o
    BY ONLY <1>1, <2>1, Appended
  <2> QED
    BY <1>0, <2>2, Zenon
<1>3. \A i \in DOMAIN left : i \in Nat /\ i < Len(left) + 1 /\ Len(left) \in Nat
  BY <1>1, LenProperties
<1>4. \A i \in DOMAIN left : left[i] \in Item /\ left[i].nr <= seen /\ left[i].order <= steps
  BY <1>1, Elements DEF Within
<1>5. \A m \in DOMAIN c : c[m] = o \/ \E k \in DOMAIN b : c[m] = b[k]
  BY <1>1, <1>2
<1>6. o.nr \in Nat /\ o.order \in Nat /\ \A i \in DOMAIN left : left[i].nr \in Nat /\ left[i].order \in Nat
  BY <1>4 DEF Item
<1>7. ASSUME NEW i \in DOMAIN left
      PROVE  left[i].nr < o.nr /\ (o.order # 0 => left[i].order < o.order)
  BY <1>4, <1>6
<1>8. ASSUME NEW m \in DOMAIN c, NEW k \in DOMAIN c, m < k
      PROVE  /\ c[m].nr < c[k].nr
             /\ c[m].order # 0 /\ c[k].order # 0 => c[m].order < c[k].order
  <2>1. m \in DOMAIN left
    BY <1>2, <1>3, <1>8
  <2>2. CASE k \in DOMAIN left
    BY <1>1, <1>2, <1>8, <2>1, <2>2 DEF InTurn
  <2>3. CASE k = Len(left) + 1
    BY <1>2, <1>7, <2>1, <2>3
  <2> QED
    BY <1>2, <2>2, <2>3
<1>9. ASSUME NEW m \in DOMAIN c, c[m].place = "open" PROVE c[m].order # 0
  BY <1>1, <1>2, <1>9 DEF InTurn
<1>10. InTurn(c)
  BY <1>8, <1>9 DEF InTurn
<1> QED
  BY <1>2, <1>5, <1>10

\* One observation joins the recorder of a source, or a fresh one: its buffer stays in turn, its id is its own or the
\* next, and every stamp still fits, the one of this observation among them.
LEMMA Pushed ==
  ASSUME TracesInv, NEW s \in Sources, NEW base \in {recorder[s], Fresh},
         NEW o \in Item, o.nr = observed + 1, o.order \in {0, 1}, o.place = "open" => o.order # 0
  PROVE  LET rec == Push(base, o) IN
         /\ rec \in Recorder /\ Kept(rec, observed + 1)
         /\ rec.id # 0 /\ (rec.id = nextTrace \/ (rec.id = recorder[s].id /\ rec.id < nextTrace))
         /\ Stamp(rec, o) \in StampType
         /\ o.order # 0 => Stamp(rec, o).order # 0
         /\ o.order # 0 => Stamp(rec, o).order <= rec.steps /\ LeadsTo(Stamp(rec, o), rec.buffer)
         /\ \A e \in stamped : StampFits(e, rec)
<1> DEFINE rec == Push(base, o)
           new == Numbered(base, o)
<1>1. base \in Recorder /\ Kept(base, observed) /\ base.id < nextTrace /\ (base.id # 0 => base = recorder[s])
  <2>1. CASE base = recorder[s]
    BY <2>1 DEF TracesInv, TracesTypeOK
  <2>2. CASE base = Fresh
    <3>1. Fresh.buffer = <<>> /\ Fresh.id = 0 /\ Fresh.steps = 0 /\ DOMAIN Fresh.buffer = {} /\ Fresh \in Recorder
      BY DEF Fresh, Recorder
    <3> QED
      BY <2>2, <3>1 DEF TracesInv, TracesTypeOK, Kept, InTurn, Within
  <2> QED
    BY <2>1, <2>2
<1>2. /\ base.id \in Nat /\ base.steps \in Nat /\ base.buffer \in Seq(Item) /\ nextTrace \in Nat /\ nextTrace # 0
      /\ observed \in Nat /\ InTurn(base.buffer) /\ stamped \subseteq StampType
      /\ \A m \in DOMAIN base.buffer : base.buffer[m].nr <= observed /\ base.buffer[m].order <= base.steps
  BY <1>1 DEF TracesInv, TracesTypeOK, Recorder, Kept, Within
<1>3. /\ new \in Item /\ new.nr = observed + 1 /\ new.place = o.place
      /\ new.order = IF o.order # 0 THEN base.steps + 1 ELSE 0
  BY <1>2 DEF Numbered, Item
<1>4. new.order \in {0, base.steps + 1} /\ (new.place = "open" => new.order # 0)
  BY <1>2, <1>3
<1> HIDE DEF new
<1>5. /\ rec.id = (IF base.id = 0 THEN nextTrace ELSE base.id)
      /\ rec.steps = base.steps + (IF o.order # 0 THEN 1 ELSE 0)
      /\ rec.buffer = Append(IF Len(base.buffer) >= BufferCap THEN Tail(base.buffer) ELSE base.buffer, new)
      /\ rec = [id |-> rec.id, steps |-> rec.steps, buffer |-> rec.buffer]
  BY DEF Push, new
<1> HIDE DEF rec
<1>6. /\ rec.buffer \in Seq(Item) /\ InTurn(rec.buffer)
      /\ \A m \in DOMAIN rec.buffer : rec.buffer[m] = new \/ \E k \in DOMAIN base.buffer : rec.buffer[m] = base.buffer[k]
  <2> DEFINE b == base.buffer
             c == rec.buffer
  <2>1. /\ b \in Seq(Item) /\ InTurn(b) /\ observed \in Nat /\ base.steps \in Nat
        /\ Within(b, observed, base.steps)
        /\ new \in Item /\ new.nr = observed + 1 /\ new.order \in {0, base.steps + 1}
        /\ new.place = "open" => new.order # 0
        /\ Joined(c, b, new)
    BY <1>2, <1>3, <1>4, <1>5 DEF Joined, Within
  <2> HIDE DEF b, c
  <2>2. c \in Seq(Item) /\ InTurn(c) /\ \A m \in DOMAIN c : c[m] = new \/ \E k \in DOMAIN b : c[m] = b[k]
    BY ONLY <2>1, Buffered
  <2> QED
    BY <2>2 DEF b, c
<1>7. /\ rec.id \in Nat /\ rec.id # 0 /\ rec.steps \in Nat /\ base.steps <= rec.steps
      /\ (o.order # 0 => rec.steps = base.steps + 1) /\ new.order <= rec.steps
  BY <1>2, <1>3, <1>5
<1>8. rec \in Recorder
  BY <1>5, <1>6, <1>7 DEF Recorder
<1>9. rec.id = nextTrace \/ (rec.id = recorder[s].id /\ rec.id < nextTrace /\ base = recorder[s])
  BY <1>1, <1>5
<1>10. \A k \in DOMAIN base.buffer : base.buffer[k].nr \in Nat /\ base.buffer[k].order \in Nat
  <2>1. \A k \in DOMAIN base.buffer : base.buffer[k] \in Item
    BY <1>2, Elements
  <2> QED
    BY <2>1 DEF Item
<1>11. ASSUME NEW m \in DOMAIN rec.buffer
       PROVE  rec.buffer[m].nr <= observed + 1 /\ rec.buffer[m].order <= rec.steps
  <2>1. CASE rec.buffer[m] = new
    BY <1>2, <1>3, <1>7, <2>1
  <2>2. CASE \E k \in DOMAIN base.buffer : rec.buffer[m] = base.buffer[k]
    BY <1>2, <1>7, <1>10, <2>2
  <2> QED
    BY <1>6, <2>1, <2>2
<1>12. Kept(rec, observed + 1)
  BY <1>6, <1>11 DEF Kept, Within
<1>13. Stamp(rec, o) \in StampType /\ Stamp(rec, o).order = rec.steps /\ Stamp(rec, o).nr = o.nr
  BY <1>7 DEF Stamp, StampType, Item
<1>14. ASSUME o.order # 0
       PROVE  /\ Stamp(rec, o).order # 0 /\ Stamp(rec, o).order <= rec.steps /\ LeadsTo(Stamp(rec, o), rec.buffer)
  <2>1. rec.steps = base.steps + 1 /\ Stamp(rec, o).order = rec.steps /\ rec.steps # 0 /\ rec.steps <= rec.steps
    BY <1>2, <1>7, <1>13, <1>14
  <2>2. ASSUME NEW m \in DOMAIN rec.buffer, rec.buffer[m].order = rec.steps PROVE rec.buffer[m].nr = o.nr
    <3>1. CASE rec.buffer[m] = new
      BY <1>3, <3>1
    <3>2. CASE \E k \in DOMAIN base.buffer : rec.buffer[m] = base.buffer[k]
      BY <1>2, <1>10, <2>1, <2>2, <3>2
    <3> QED
      BY <1>6, <3>1, <3>2
  <2> QED
    BY <1>13, <2>1, <2>2 DEF LeadsTo
<1>15. ASSUME NEW e \in stamped PROVE StampFits(e, rec)
  <2> SUFFICES ASSUME e.ref = rec.id PROVE e.order <= rec.steps /\ LeadsTo(e, rec.buffer)
    BY DEF StampFits
  <2>1. e \in StampType /\ e.ref # 0 /\ e.ref < nextTrace /\ e.order # 0 /\ StampFits(e, recorder[s])
    BY <1>2 DEF TracesInv
  <2>2. e.order \in Nat /\ e.ref \in Nat
    BY <2>1 DEF StampType
  <2>3. base = recorder[s] /\ base.id = e.ref
    BY <1>2, <1>9, <2>1, <2>2
  <2>4. e.order <= base.steps /\ LeadsTo(e, base.buffer)
    BY <2>1, <2>3 DEF StampFits
  <2>5. e.order <= rec.steps /\ e.order # new.order
    BY <1>2, <1>4, <1>7, <2>1, <2>2, <2>4
  <2>6. LeadsTo(e, rec.buffer)
    BY <1>6, <2>4, <2>5 DEF LeadsTo
  <2> QED
    BY <2>5, <2>6
<1> QED
  BY <1>7, <1>8, <1>9, <1>12, <1>13, <1>14, <1>15 DEF rec

\* What leaves with a flush has the id and the buffer of its recorder, and was put together by the gate.
LEMMA FlushedIs ==
  ASSUME NEW s \in Sources, NEW rec \in Recorder, InTurn(rec.buffer)
  PROVE  \A t \in Flushed(s, rec) : t.id = rec.id /\ t.buffer = rec.buffer /\ PutTogether(t)
<1>1. rec.buffer \in Seq(Item)
  BY DEF Recorder
<1>2. ASSUME NEW t \in Flushed(s, rec) PROVE t.id = rec.id /\ t.buffer = rec.buffer /\ t.steps = Assemble(s, rec.buffer)
  <2> DEFINE steps == Assemble(s, rec.buffer)
  <2>1. Flushed(s, rec) = IF steps = <<>> THEN {} ELSE {[id |-> rec.id, source |-> s, steps |-> steps, buffer |-> rec.buffer]}
    BY DEF Flushed
  <2> HIDE DEF steps
  <2>2. t.id = rec.id /\ t.buffer = rec.buffer /\ t.steps = steps
    BY <2>1
  <2> QED
    BY <2>2 DEF steps
<1>3. Nameless(rec.buffer) => \E acc : Assembled(acc, rec.buffer, Len(rec.buffer)) /\ acc.steps = Assemble(s, rec.buffer)
  BY <1>1, AssembleIs
<1>4. ASSUME NEW t \in Flushed(s, rec) PROVE PutTogether(t)
  BY <1>2, <1>3 DEF PutTogether
<1> QED
  BY <1>2, <1>4

\* One interaction recorded: the buffer, its stamp and what leaves with it fit one another.
LEMMA RecordKeeps ==
  ASSUME TracesInv, NEW s \in Sources, NEW base \in {recorder[s], Fresh},
         NEW o \in Item, o.nr = observed + 1, o.order \in {0, 1}, o.place = "open" => o.order # 0,
         NEW rec, rec = Push(base, o), NEW leaves, NEW after, Record(s, rec, o, leaves, after),
         \/ after = rec /\ leaves = {}
         \/ after = rec /\ base = Fresh /\ leaves = Flushed(s, recorder[s])
         \/ after = Fresh /\ leaves = Flushed(s, rec)
  PROVE  TracesInv'
<1> DEFINE new == Stamp(rec, o)
<1>p. /\ rec \in Recorder /\ Kept(rec, observed + 1)
      /\ rec.id # 0 /\ (rec.id = nextTrace \/ (rec.id = recorder[s].id /\ rec.id < nextTrace))
      /\ new \in StampType
      /\ o.order # 0 => new.order # 0
      /\ o.order # 0 => new.order <= rec.steps /\ LeadsTo(new, rec.buffer)
      /\ \A e \in stamped : StampFits(e, rec)
  BY Pushed
<1>ref. new.ref = rec.id
  BY DEF Stamp
<1> HIDE DEF new
<1>f. Fresh \in Recorder /\ Fresh.id = 0 /\ Kept(Fresh, observed + 1)
  <2>1. Fresh.buffer = <<>> /\ Fresh.id = 0 /\ Fresh.steps = 0 /\ DOMAIN Fresh.buffer = {} /\ Fresh \in Recorder
    BY DEF Fresh, Recorder
  <2> QED
    BY <2>1 DEF Kept, InTurn, Within
<1>a. after \in {rec, Fresh} /\ after \in Recorder /\ Kept(after, observed + 1)
  BY <1>p, <1>f
<1>t. /\ recorder \in [Sources -> Recorder] /\ onList \in BOOLEAN
      /\ nextTrace \in Nat \ {0} /\ observed \in Nat /\ stamped \subseteq StampType
      /\ \A t \in traces : t.id \in Nat /\ t.buffer \in Seq(Item)
  BY DEF TracesInv, TracesTypeOK
<1>i. /\ \A r \in Sources : Kept(recorder[r], observed) /\ recorder[r].id < nextTrace
      /\ \A q, r \in Sources : q # r /\ recorder[q].id # 0 => recorder[q].id # recorder[r].id
      /\ \A e \in stamped : e.ref # 0 /\ e.ref < nextTrace /\ e.order # 0
      /\ \A e \in stamped, r \in Sources : StampFits(e, recorder[r])
      /\ \A t \in traces : t.id < nextTrace /\ PutTogether(t)
      /\ \A t \in traces, r \in Sources : t.id # 0 => t.id # recorder[r].id
      /\ \A t \in traces, e \in stamped : e.ref = t.id => LeadsTo(e, t.buffer)
  BY DEF TracesInv
<1>r. /\ observed' = observed + 1
      /\ nextTrace' = IF rec.id = nextTrace THEN nextTrace + 1 ELSE nextTrace
      /\ stamped' = IF o.order # 0 THEN stamped \cup {new} ELSE stamped
      /\ recorder' = [recorder EXCEPT ![s] = after]
      /\ traces' = traces \cup leaves /\ onList' = onList
  BY DEF Record, new
<1>ids. \A r \in Sources : recorder[r] \in Recorder /\ recorder[r].id \in Nat /\ recorder[r].buffer \in Seq(Item) /\ recorder[r].steps \in Nat
  <2>1. \A r \in Sources : recorder[r] \in Recorder
    BY <1>t
  <2> QED
    BY <2>1 DEF Recorder
<1>rid. rec.id \in Nat /\ rec.steps \in Nat /\ rec.buffer \in Seq(Item)
  BY <1>p DEF Recorder
<1>n. nextTrace' \in Nat \ {0} /\ nextTrace <= nextTrace' /\ rec.id < nextTrace' /\ 0 < nextTrace'
  BY <1>t, <1>p, <1>r, <1>rid
<1>rec. /\ recorder' \in [Sources -> Recorder] /\ recorder'[s] = after
        /\ \A r \in Sources : r # s => recorder'[r] = recorder[r]
  BY <1>a, <1>t, <1>r
<1>st. \A e \in stamped' : e \in stamped \/ (o.order # 0 /\ e = new)
  BY <1>r
<1>away. \A r \in Sources : r # s => recorder[r].id # rec.id
  BY <1>t, <1>i, <1>p, <1>ids
<1>old. \A t \in traces : t.id # rec.id
  BY <1>t, <1>i, <1>p
<1>lv. /\ leaves = {} \/ (after = rec /\ base = Fresh /\ leaves = Flushed(s, recorder[s])) \/ (after = Fresh /\ leaves = Flushed(s, rec))
       /\ \A t \in Flushed(s, recorder[s]) : t.id = recorder[s].id /\ t.buffer = recorder[s].buffer /\ PutTogether(t)
       /\ \A t \in Flushed(s, rec) : t.id = rec.id /\ t.buffer = rec.buffer /\ PutTogether(t)
  <2>1. InTurn(recorder[s].buffer) /\ InTurn(rec.buffer)
    BY <1>i, <1>p DEF Kept
  <2> QED
    BY <1>p, <1>ids, <2>1, FlushedIs
<1>base. base = Fresh => rec.id = nextTrace
  BY <1>f DEF Push
<1>new. \A t \in leaves : /\ PutTogether(t)
                         /\ \/ t.id = recorder[s].id /\ t.buffer = recorder[s].buffer /\ after = rec /\ rec.id = nextTrace
                            \/ t.id = rec.id /\ t.buffer = rec.buffer /\ after = Fresh
  BY <1>lv, <1>base
<1>1. TracesTypeOK'
  <2>1. \A t \in traces' : t.id \in Nat /\ t.buffer \in Seq(Item)
    BY <1>t, <1>r, <1>new, <1>ids, <1>rid
  <2>2. stamped' \subseteq StampType
    BY <1>t, <1>r, <1>p
  <2> QED
    BY <1>t, <1>r, <1>rec, <1>n, <2>1, <2>2 DEF TracesTypeOK
<1>2. ASSUME NEW r \in Sources PROVE Kept(recorder'[r], observed') /\ recorder'[r].id < nextTrace'
  <2>1. CASE r = s
    BY <1>a, <1>f, <1>r, <1>rec, <1>n, <2>1
  <2>2. CASE r # s
    <3>1. Kept(recorder[r], observed) /\ recorder[r].id < nextTrace /\ recorder'[r] = recorder[r]
      BY <1>i, <1>rec, <2>2
    <3>2. \A m \in DOMAIN recorder[r].buffer : recorder[r].buffer[m].nr \in Nat
      <4>1. \A m \in DOMAIN recorder[r].buffer : recorder[r].buffer[m] \in Item
        BY <1>ids, Elements
      <4> QED
        BY <4>1 DEF Item
    <3>3. Within(recorder[r].buffer, observed + 1, recorder[r].steps)
      BY <1>t, <3>1, <3>2 DEF Kept, Within
    <3> QED
      BY <1>t, <1>r, <1>n, <1>ids, <3>1, <3>3 DEF Kept
  <2> QED
    BY <2>1, <2>2
<1>3. ASSUME NEW q \in Sources, NEW r \in Sources, q # r, recorder'[q].id # 0
      PROVE  recorder'[q].id # recorder'[r].id
  <2>1. CASE q = s
    BY <1>a, <1>f, <1>rec, <1>away, <1>3, <2>1
  <2>2. CASE r = s
    BY <1>a, <1>f, <1>rec, <1>away, <1>3, <2>2
  <2>3. CASE q # s /\ r # s
    BY <1>i, <1>rec, <1>3, <2>3
  <2> QED
    BY <2>1, <2>2, <2>3
<1>4. ASSUME NEW e \in stamped' PROVE e.ref # 0 /\ e.ref < nextTrace' /\ e.order # 0
  <2>1. CASE e \in stamped
    <3>1. e.ref \in Nat
      BY <1>t, <2>1 DEF StampType
    <3> QED
      BY <1>i, <1>n, <1>t, <2>1, <3>1
  <2>2. CASE o.order # 0 /\ e = new
    BY <1>p, <1>ref, <1>n, <2>2
  <2> QED
    BY <1>st, <2>1, <2>2
<1>5. ASSUME NEW e \in stamped', NEW r \in Sources PROVE StampFits(e, recorder'[r])
  <2>1. CASE e \in stamped /\ r # s
    BY <1>i, <1>rec, <2>1
  <2>2. CASE e \in stamped /\ r = s
    BY <1>i, <1>p, <1>f, <1>a, <1>rec, <2>2 DEF StampFits
  <2>3. CASE o.order # 0 /\ e = new
    BY <1>p, <1>f, <1>a, <1>ref, <1>rec, <1>away, <2>3 DEF StampFits
  <2> QED
    BY <1>st, <2>1, <2>2, <2>3
<1>6. ASSUME NEW t \in traces' PROVE t.id < nextTrace' /\ PutTogether(t)
  <2>1. CASE t \in traces
    BY <1>i, <1>n, <1>t, <2>1
  <2>2. CASE t \in leaves
    BY <1>i, <1>n, <1>t, <1>new, <1>ids, <2>2
  <2> QED
    BY <1>r, <2>1, <2>2
<1>7. ASSUME NEW t \in traces', NEW r \in Sources, t.id # 0 PROVE t.id # recorder'[r].id
  <2>1. CASE t \in traces
    BY <1>i, <1>old, <1>a, <1>f, <1>rec, <1>7, <2>1
  <2>2. CASE t \in leaves
    <3>1. CASE t.id = recorder[s].id /\ after = rec /\ rec.id = nextTrace
      <4>1. recorder[s].id # nextTrace
        BY <1>t, <1>i, <1>ids
      <4> QED
        BY <1>i, <1>rec, <1>7, <3>1, <4>1
    <3>2. CASE t.id = rec.id /\ after = Fresh
      BY <1>f, <1>rec, <1>away, <1>7, <3>2
    <3> QED
      BY <1>new, <2>2, <3>1, <3>2
  <2> QED
    BY <1>r, <2>1, <2>2
<1>8. ASSUME NEW t \in traces', NEW e \in stamped', e.ref = t.id PROVE LeadsTo(e, t.buffer)
  <2>1. CASE t \in traces /\ e \in stamped
    BY <1>i, <1>8, <2>1
  <2>2. CASE t \in traces /\ e = new
    BY <1>old, <1>ref, <1>8, <2>2
  <2>3. CASE t \in leaves /\ e \in stamped
    BY <1>i, <1>p, <1>new, <1>8, <2>3 DEF StampFits
  <2>4. CASE t \in leaves /\ e = new /\ o.order # 0
    <3>1. recorder[s].id # nextTrace
      BY <1>t, <1>i, <1>ids
    <3> QED
      BY <1>p, <1>ref, <1>new, <1>8, <2>4, <3>1
  <2> QED
    BY <1>r, <1>st, <2>1, <2>2, <2>3, <2>4
<1> QED
  BY <1>1, <1>2, <1>3, <1>4, <1>5, <1>6, <1>7, <1>8 DEF TracesInv

\* An observation of a place in either source is one the recorder can take.
LEMMA ObservationIs ==
  ASSUME observed \in Nat, NEW s \in Sources, NEW place \in Places, NEW kind \in Kinds
  PROVE  LET o == Observation(s, place, kind) IN
         o \in Item /\ o.nr = observed + 1 /\ o.order \in {0, 1} /\ (place = "open" /\ Decide(s, place) # "drop" => o.order # 0)
         /\ o.place = place
<1> DEFINE o == Observation(s, place, kind)
<1>1. /\ o.nr = observed + 1 /\ o.place = place /\ o.kind = kind
      /\ o.order = IF Decide(s, place) = "emit" THEN 1 ELSE 0
      /\ o = [nr |-> o.nr, place |-> o.place, kind |-> o.kind, order |-> o.order]
  BY DEF Observation
<1> HIDE DEF o
<1>2. o.order \in {0, 1} /\ o.nr \in Nat
  BY <1>1
<1>3. o \in Item
  BY <1>1, <1>2 DEF Item
<1>4. place = "open" /\ Decide(s, place) # "drop" => Decide(s, place) = "emit"
  BY DEF Decide, ProtectedReason
<1> QED
  BY <1>1, <1>2, <1>3, <1>4 DEF o

\* A flush of the content script's recorder, by its timer or its page: it starts afresh.
LEMMA FlushKeeps ==
  ASSUME TracesInv, FlushTrace
  PROVE  TracesInv'
<1> DEFINE old == recorder["browser"]
<1>t. /\ recorder \in [Sources -> Recorder] /\ onList \in BOOLEAN
      /\ nextTrace \in Nat \ {0} /\ observed \in Nat /\ stamped \subseteq StampType
      /\ \A t \in traces : t.id \in Nat /\ t.buffer \in Seq(Item)
      /\ "browser" \in Sources
  BY DEF TracesInv, TracesTypeOK, Sources
<1>i. /\ \A r \in Sources : Kept(recorder[r], observed) /\ recorder[r].id < nextTrace
      /\ \A q, r \in Sources : q # r /\ recorder[q].id # 0 => recorder[q].id # recorder[r].id
      /\ \A e \in stamped : e.ref # 0 /\ e.ref < nextTrace /\ e.order # 0
      /\ \A e \in stamped, r \in Sources : StampFits(e, recorder[r])
      /\ \A t \in traces : t.id < nextTrace /\ PutTogether(t)
      /\ \A t \in traces, r \in Sources : t.id # 0 => t.id # recorder[r].id
      /\ \A t \in traces, e \in stamped : e.ref = t.id => LeadsTo(e, t.buffer)
  BY DEF TracesInv
<1>f. Fresh \in Recorder /\ Fresh.id = 0 /\ Kept(Fresh, observed)
  <2>1. Fresh.buffer = <<>> /\ Fresh.id = 0 /\ Fresh.steps = 0 /\ DOMAIN Fresh.buffer = {} /\ Fresh \in Recorder
    BY DEF Fresh, Recorder
  <2> QED
    BY <2>1 DEF Kept, InTurn, Within
<1>r. /\ recorder' = [recorder EXCEPT !["browser"] = Fresh]
      /\ traces' = traces \cup Flushed("browser", old)
      /\ UNCHANGED <<onList, nextTrace, observed, stamped>>
  BY DEF FlushTrace
<1>rec. /\ recorder' \in [Sources -> Recorder] /\ recorder'["browser"] = Fresh
        /\ \A r \in Sources : r # "browser" => recorder'[r] = recorder[r]
  BY <1>f, <1>t, <1>r
<1>o. old \in Recorder /\ old.id \in Nat /\ old.buffer \in Seq(Item)
  <2>1. old \in Recorder
    BY <1>t
  <2> QED
    BY <2>1 DEF Recorder
<1>new. \A t \in Flushed("browser", old) : t.id = old.id /\ t.buffer = old.buffer /\ PutTogether(t)
  <2>1. InTurn(old.buffer)
    BY <1>t, <1>i DEF Kept
  <2> QED
    BY <1>t, <1>o, <2>1, FlushedIs
<1>tr. \A t \in traces' : t \in traces \/ (t.id = old.id /\ t.buffer = old.buffer /\ PutTogether(t))
  BY <1>r, <1>new
<1>1. TracesTypeOK'
  BY <1>t, <1>r, <1>rec, <1>tr, <1>o DEF TracesTypeOK
<1>2. \A r \in Sources : Kept(recorder'[r], observed') /\ recorder'[r].id < nextTrace'
  BY <1>t, <1>i, <1>f, <1>r, <1>rec
<1>3. \A q, r \in Sources : q # r /\ recorder'[q].id # 0 => recorder'[q].id # recorder'[r].id
  BY <1>i, <1>f, <1>rec
<1>4. \A e \in stamped' : e.ref # 0 /\ e.ref < nextTrace' /\ e.order # 0
  BY <1>i, <1>r
<1>5. ASSUME NEW e \in stamped', NEW r \in Sources PROVE StampFits(e, recorder'[r])
  BY <1>i, <1>f, <1>r, <1>rec DEF StampFits
<1>6. \A t \in traces' : t.id < nextTrace' /\ PutTogether(t)
  BY <1>i, <1>t, <1>r, <1>tr
<1>7. ASSUME NEW t \in traces', NEW r \in Sources, t.id # 0 PROVE t.id # recorder'[r].id
  BY <1>i, <1>t, <1>f, <1>rec, <1>tr, <1>7
<1>8. ASSUME NEW t \in traces', NEW e \in stamped', e.ref = t.id PROVE LeadsTo(e, t.buffer)
  BY <1>i, <1>t, <1>r, <1>tr, <1>8 DEF StampFits
<1> QED
  BY <1>1, <1>2, <1>3, <1>4, <1>5, <1>6, <1>7, <1>8 DEF TracesInv

\* Every step keeps the invariant.
LEMMA TracesStep == TracesInv /\ [TracesNext]_traceVars => TracesInv'
<1> SUFFICES ASSUME TracesInv, [TracesNext]_traceVars PROVE TracesInv'
  OBVIOUS
<1>0. observed \in Nat /\ "native" \in Sources /\ "browser" \in Sources
  BY DEF TracesInv, TracesTypeOK, Sources
<1>1. ASSUME NEW place \in Places, NEW kind \in Kinds, NEW idle \in BOOLEAN, HandleAxNotification(place, kind, idle)
      PROVE  TracesInv'
  <2> DEFINE o == Observation("native", place, kind)
             base == IF idle THEN Fresh ELSE recorder["native"]
             rec == Push(base, o)
             leaves == IF idle THEN Flushed("native", recorder["native"]) ELSE {}
  <2>1. Decide("native", place) # "drop" /\ Record("native", rec, o, leaves, rec)
    BY <1>1 DEF HandleAxNotification
  <2>2. o \in Item /\ o.nr = observed + 1 /\ o.order \in {0, 1} /\ (o.place = "open" => o.order # 0)
    BY <1>0, <2>1, ObservationIs
  <2>3. base \in {recorder["native"], Fresh} /\ (leaves = {} \/ (base = Fresh /\ leaves = Flushed("native", recorder["native"])))
    OBVIOUS
  <2> HIDE DEF o, base, leaves
  <2> QED
    BY <1>0, <2>1, <2>2, <2>3, RecordKeeps
<1>2. ASSUME NEW place \in {"open", "secure"}, NEW kind \in Kinds, ObservePage(place, kind)
      PROVE  TracesInv'
  <2> DEFINE o == Observation("browser", place, kind)
             rec == Push(recorder["browser"], o)
             full == Len(rec.buffer) >= BufferCap
             leaves == IF full THEN Flushed("browser", rec) ELSE {}
             after == IF full THEN Fresh ELSE rec
  <2>1. Record("browser", rec, o, leaves, after)
    BY <1>2 DEF ObservePage
  <2>2. place \in Places /\ Decide("browser", place) # "drop"
    BY DEF Places, Decide
  <2>3. o \in Item /\ o.nr = observed + 1 /\ o.order \in {0, 1} /\ (o.place = "open" => o.order # 0)
    BY <1>0, <2>2, ObservationIs
  <2>4. (after = rec /\ leaves = {}) \/ (after = Fresh /\ leaves = Flushed("browser", rec))
    OBVIOUS
  <2> HIDE DEF o, leaves, after
  <2> QED
    BY <1>0, <2>1, <2>3, <2>4, RecordKeeps
<1>3. CASE Reconfigure
  BY <1>3 DEF Reconfigure, TracesInv, TracesTypeOK
<1>4. CASE UNCHANGED traceVars
  BY <1>4 DEF traceVars, TracesInv, TracesTypeOK
<1> QED
  BY <1>1, <1>2, <1>3, <1>4, FlushKeeps DEF TracesNext, Places

\* A trace put together from a buffer in turn is sound, as long as every stamp leads to the right observation.
LEMMA PutTogetherIsSound ==
  ASSUME TracesInv, NEW t \in traces, Nameless(t.buffer)
  PROVE  Sound(t)
<1>1. PutTogether(t) /\ t.buffer \in Seq(Item) /\ \A e \in stamped : e.ref = t.id => LeadsTo(e, t.buffer)
  BY DEF TracesInv, TracesTypeOK
<1> DEFINE b == t.buffer
           steps == t.steps
<1>2. PICK acc : Assembled(acc, b, Len(b)) /\ acc.steps = steps
  BY <1>1 DEF PutTogether
<1>3. /\ steps \in Seq(TraceStep) /\ InTurn(b)
      /\ \A i \in DOMAIN steps : Drawn(steps[i], b, Len(b)) /\ Flows(steps, b, i)
      /\ \A i, j \in DOMAIN steps : i < j => steps[i].nr < steps[j].nr
  BY <1>1, <1>2 DEF Assembled, Building, PutTogether
<1>4. \A i \in DOMAIN steps : i \in Nat /\ steps[i] \in TraceStep
  BY <1>3, Elements, LenProperties
<1>5. \A m \in DOMAIN b : m \in Nat /\ b[m] \in Item
  BY <1>1, Elements, LenProperties
<1> HIDE DEF b, steps
<1>6. ASSUME NEW i \in DOMAIN steps
      PROVE  \E m \in DOMAIN b : b[m].place = "open" /\ b[m].order # 0 /\ IsOf(steps[i], b[m])
  BY <1>3 DEF Drawn, InTurn
<1>7. ASSUME NEW i \in DOMAIN steps, NEW j \in DOMAIN steps, i < j
      PROVE  steps[i].order # steps[j].order
  <2>1. PICK m \in DOMAIN b : b[m].order # 0 /\ IsOf(steps[i], b[m])
    BY <1>6
  <2>2. PICK k \in DOMAIN b : b[k].order # 0 /\ IsOf(steps[j], b[k])
    BY <1>6
  <2>3. b[m].nr < b[k].nr
    BY <1>3, <1>7, <2>1, <2>2 DEF IsOf
  <2>4. b[m] \in Item /\ b[k] \in Item /\ m \in Nat /\ k \in Nat
    BY <1>5
  <2>5. b[m].nr \in Nat /\ b[k].nr \in Nat /\ b[m].order \in Nat /\ b[k].order \in Nat
    BY <2>4 DEF Item
  <2>6. m < k \/ k < m
    BY <2>3, <2>4, <2>5
  <2>7. b[m].order # b[k].order
    BY <1>3, <2>1, <2>2, <2>5, <2>6 DEF InTurn
  <2> QED
    BY <2>1, <2>2, <2>7 DEF IsOf
<1>8. ASSUME NEW i \in DOMAIN steps, NEW j \in DOMAIN steps, i # j
      PROVE  steps[i].order # steps[j].order
  <2>1. i < j \/ j < i
    BY <1>4, <1>8
  <2> QED
    BY <1>7, <2>1
<1>9. ASSUME NEW i \in DOMAIN steps
      PROVE  /\ ~Denied(steps[i])
             /\ \A e \in stamped : e.ref = t.id /\ e.order = steps[i].order => e.nr = steps[i].nr
             /\ steps[i].from # 0 =>
                  \E j \in 1..(i - 1) :
                    /\ steps[j].order = steps[i].from /\ steps[j].kind = "read"
                    /\ \A k \in DOMAIN b :
                         steps[j].nr < b[k].nr /\ b[k].nr < steps[i].nr => ~Denied(b[k]) /\ b[k].kind = "press"
  <2>1. PICK m \in DOMAIN b : b[m].place = "open" /\ IsOf(steps[i], b[m])
    BY <1>6
  <2>2. ~Denied(steps[i])
    BY <2>1 DEF IsOf, Denied
  <2>3. \A e \in stamped : e.ref = t.id /\ e.order = steps[i].order => e.nr = steps[i].nr
    BY <1>1, <2>1 DEF LeadsTo, IsOf, b
  <2>4. Flows(steps, b, i)
    BY <1>3
  <2> QED
    BY <2>2, <2>3, <2>4 DEF Flows, Denied
<1> QED
  BY <1>8, <1>9 DEF Sound, b, steps

\* The traces the two recorders send are sound, whatever the interleaving of what is observed, of the flushes and of
\* a changing allowlist, and however small the buffer: unless an app was refused by its display name alone, no step
\* was refused, steps are numbered apart, every stamp leads to the step of its own interaction, and a value flows
\* only from a read to the next write with nothing refused, read or written in between.
THEOREM TracesStaySound == TracesSpec => []TracesAreSound
<1>1. TracesInit => TracesInv
  <2> SUFFICES ASSUME TracesInit PROVE TracesInv
    OBVIOUS
  <2>1. /\ recorder = [s \in Sources |-> Fresh] /\ onList = TRUE
        /\ nextTrace = 1 /\ observed = 0 /\ stamped = {} /\ traces = {}
    BY DEF TracesInit
  <2>2. Fresh.buffer = <<>> /\ Fresh.id = 0 /\ DOMAIN Fresh.buffer = {} /\ Fresh \in Recorder
    BY DEF Fresh, Recorder
  <2>3. \A s \in Sources : Kept(recorder[s], observed) /\ recorder[s].id = 0
    BY <2>1, <2>2 DEF Kept, InTurn, Within
  <2>4. TracesTypeOK
    BY <2>1, <2>2 DEF TracesTypeOK
  <2> QED
    BY <2>1, <2>3, <2>4 DEF TracesInv
<1>2. TracesInv => TracesAreSound
  BY PutTogetherIsSound DEF TracesAreSound, Nameless
<1> QED
  BY <1>1, <1>2, TracesStep, PTL DEF TracesSpec

-----------------------------------------------------------------------------
(* The compiled runs: what is offered to be run can be run to its end, and says where it comes from. *)

\* The steps come in the order of their numbers.
Sorted(q) == \A k, l \in DOMAIN q : k < l => q[k].order <= q[l].order
CountedOff(q) == \A k \in DOMAIN q : q[k].order = k
Orders(q) == \A k \in DOMAIN q : q[k].order \in Nat
Listing(q) == \E S : q \in Seq(S)

\* Among finitely many positions there is a last one.
LEMMA LastOne ==
  ASSUME NEW n \in Nat, NEW T, T \subseteq 1..n, T # {}
  PROVE  \E k \in T : \A j \in T : j <= k
<1> DEFINE Has == {m \in Nat : (\E j \in T : j >= m)}
<1>1. SUFFICES ASSUME ~(\E k \in T : \A j \in T : j <= k) PROVE FALSE
  BY Zenon
<1>2. 0 \in Has
  <2>1. PICK j : j \in T
    OBVIOUS
  <2>2. j \in Nat /\ j >= 0
    BY <2>1
  <2> QED
    BY <2>1, <2>2
<1>3. ASSUME NEW m \in Nat, m \in Has PROVE m + 1 \in Has
  <2>1. PICK j \in T : j >= m
    BY <1>3
  <2>2. PICK k \in T : ~(k <= j)
    BY <1>1, <2>1
  <2>3. k \in Nat /\ j \in Nat
    OBVIOUS
  <2> QED
    BY <2>1, <2>2, <2>3
<1>4. n + 1 \in Has
  <2>1. Nat \subseteq Has
    <3> HIDE DEF Has
    <3> QED BY <1>2, <1>3, NatSetInduction
  <2> QED
    BY <2>1
<1> QED
  BY <1>4

\* What the validator and the runtime gate pass runs to its end, when the steps come in the order of their numbers.
LEMMA PassedRunsToTheEnd ==
  ASSUME NEW spec, NEW runtime, Listing(spec.steps), Sorted(spec.steps), Orders(spec.steps),
         validateAgentSpec(spec), RuntimeReady(spec, runtime)
  PROVE  RunsToTheEnd(spec, runtime)
<1>1. RefsResolve(spec)
  BY DEF validateAgentSpec
<1>2. Len(spec.steps) \in Nat /\ DOMAIN spec.steps = 1..Len(spec.steps)
  BY LenProperties DEF Listing
<1>3. ASSUME NEW k \in Indices(spec), NEW ref \in spec.steps[k].reads
      PROVE  \E j \in 1..(k - 1) : spec.steps[j].out = ref
  <2> DEFINE ks == {j \in Indices(spec) : spec.steps[j].out = ref}
             last == CHOOSE j \in ks : \A i \in ks : i <= j
  <2>1. ProducerOrder(spec, ref) # None /\ ProducerOrder(spec, ref) < spec.steps[k].order
    BY <1>1, <1>3 DEF RefsResolve
  <2>2. ks # {} /\ ProducerOrder(spec, ref) = spec.steps[last].order
    BY <2>1, Zenon DEF ProducerOrder
  <2>3. ks \subseteq 1..Len(spec.steps)
    BY <1>2 DEF Indices
  <2>4. last \in ks
    <3>1. \E j \in ks : \A i \in ks : i <= j
      <4> HIDE DEF ks
      <4> QED BY <1>2, <2>2, <2>3, LastOne
    <3> HIDE DEF ks
    <3> QED BY <3>1
  <2> HIDE DEF last
  <2>5. last \in DOMAIN spec.steps /\ spec.steps[last].out = ref /\ k \in DOMAIN spec.steps
    BY <2>4, <1>3 DEF Indices
  <2>6. ~(k <= last)
    <3>1. spec.steps[last].order \in Nat /\ spec.steps[k].order \in Nat
      BY <2>5 DEF Orders
    <3>2. spec.steps[last].order < spec.steps[k].order
      BY <2>1, <2>2
    <3>3. k # last /\ ~(k < last)
      BY <2>5, <3>1, <3>2 DEF Sorted
    <3> QED
      BY <1>2, <2>5, <3>3
  <2>7. last \in 1..(k - 1)
    BY <1>2, <2>5, <2>6
  <2> QED
    BY <2>5, <2>7
<1>4. ASSUME NEW k \in Indices(spec) PROVE spec.steps[k].wants \subseteq spec.inputs
  BY <1>1, <1>4 DEF RefsResolve
<1>5. ASSUME NEW k \in Indices(spec), runtime # None
      PROVE  <<spec.steps[k].cap, spec.steps[k].mode>> \in {a \in runtime.can : a[1] \notin runtime.unmet}
  BY <1>5, Zenon DEF RuntimeReady
<1> QED
  BY <1>3, <1>4, <1>5, Zenon DEF RunsToTheEnd

\* A valid answer of the compilers was validated, allowed and found runnable.
LEMMA JudgedValid ==
  ASSUME NEW spec, NEW by, NEW policy, NEW runtime, Judge(spec, by, policy, runtime).status = "valid"
  PROVE  /\ Judge(spec, by, policy, runtime) = Valid(spec, by)
         /\ validateAgentSpec(spec) /\ ~SpecDenied(spec, policy) /\ RuntimeReady(spec, runtime)
<1>1. Answer("blocked").status # "valid" /\ Answer("needs_runtime").status # "valid"
  BY DEF Answer
<1> QED
  BY <1>1, Zenon DEF Judge

\* What the policy allows touches a system it enables.
LEMMA AllowedIsEnabled ==
  ASSUME NEW spec, NEW policy, ~SpecDenied(spec, policy), NEW k \in Indices(spec)
  PROVE  Catalog[spec.steps[k].cap].connector \in policy.connectors
<1>1. ~StepDenied(spec.steps[k], spec, policy)
  BY Zenon DEF SpecDenied
<1> QED
  BY <1>1, Zenon DEF StepDenied

-----------------------------------------------------------------------------
\* A step put in its place
LEMMA InsertedInPlace ==
  ASSUME NEW S, NEW q \in Seq(S), NEW x \in S, Sorted(q), \A y \in S : y.order \in Nat
  PROVE  Inserted(q, x) \in Seq(S) /\ Sorted(Inserted(q, x))
<1> DEFINE P == {k \in DOMAIN q : q[k].order <= x.order}
           lo == Chosen(q, P)
           hi == Chosen(q, DOMAIN q \ P)
           all == lo \o <<x>> \o hi
<1>0. DOMAIN q = 1..Len(q) /\ Len(q) \in Nat /\ \A k \in DOMAIN q : q[k] \in S /\ q[k].order \in Nat
  BY LenProperties, Elements
<1>1. lo \in Seq(S) /\ hi \in Seq(S) /\ <<x>> \in Seq(S)
  BY ChosenIs
<1>2. PICK at \in [DOMAIN lo -> DOMAIN q] :
         /\ \A k \in DOMAIN lo : at[k] \in P /\ lo[k] = q[at[k]]
         /\ \A k, l \in DOMAIN lo : k < l => at[k] < at[l]
  <2> HIDE DEF P
  <2> QED BY ChosenIs
<1>3. PICK to \in [DOMAIN hi -> DOMAIN q] :
         /\ \A k \in DOMAIN hi : to[k] \in DOMAIN q \ P /\ hi[k] = q[to[k]]
         /\ \A k, l \in DOMAIN hi : k < l => to[k] < to[l]
  <2> HIDE DEF P
  <2> QED BY ChosenIs
<1>4. Sorted(lo) /\ \A k \in DOMAIN lo : lo[k].order \in Nat /\ lo[k].order <= x.order
  <2>1. ASSUME NEW k \in DOMAIN lo, NEW l \in DOMAIN lo, k < l PROVE lo[k].order <= lo[l].order
    <3>1. at[k] \in DOMAIN q /\ at[l] \in DOMAIN q /\ at[k] < at[l] /\ lo[k] = q[at[k]] /\ lo[l] = q[at[l]]
      BY <1>2, <2>1
    <3> QED
      BY <3>1 DEF Sorted
  <2>2. ASSUME NEW k \in DOMAIN lo PROVE lo[k].order \in Nat /\ lo[k].order <= x.order
    <3>1. at[k] \in P /\ lo[k] = q[at[k]]
      BY <1>2, <2>2
    <3> QED
      BY <1>0, <3>1
  <2> QED
    BY <2>1, <2>2 DEF Sorted
<1>5. Sorted(hi) /\ \A k \in DOMAIN hi : hi[k].order \in Nat /\ x.order <= hi[k].order
  <2>1. ASSUME NEW k \in DOMAIN hi, NEW l \in DOMAIN hi, k < l PROVE hi[k].order <= hi[l].order
    <3>1. to[k] \in DOMAIN q /\ to[l] \in DOMAIN q /\ to[k] < to[l] /\ hi[k] = q[to[k]] /\ hi[l] = q[to[l]]
      BY <1>3, <2>1
    <3> QED
      BY <3>1 DEF Sorted
  <2>2. ASSUME NEW k \in DOMAIN hi PROVE hi[k].order \in Nat /\ x.order <= hi[k].order
    <3>1. to[k] \in DOMAIN q /\ to[k] \notin P /\ hi[k] = q[to[k]] /\ x.order \in Nat
      BY <1>3, <2>2
    <3> QED
      BY <1>0, <3>1
  <2> QED
    BY <2>1, <2>2 DEF Sorted
<1>6. Inserted(q, x) = all
  BY Zenon DEF Inserted
<1> HIDE DEF lo, hi
<1>7. /\ all \in Seq(S) /\ DOMAIN all = 1..(Len(lo) + 1 + Len(hi)) /\ Len(lo) \in Nat /\ Len(hi) \in Nat
      /\ DOMAIN lo = 1..Len(lo) /\ DOMAIN hi = 1..Len(hi)
      /\ \A k \in DOMAIN all : all[k] = IF k <= Len(lo) THEN lo[k] ELSE IF k = Len(lo) + 1 THEN x ELSE hi[k - (Len(lo) + 1)]
  <2>0. /\ Len(<<x>>) = 1 /\ <<x>>[1] = x
        /\ Len(lo) \in Nat /\ Len(hi) \in Nat /\ DOMAIN lo = 1..Len(lo) /\ DOMAIN hi = 1..Len(hi)
    BY <1>1, LenProperties
  <2> DEFINE part == lo \o <<x>>
  <2>1. /\ part \in Seq(S) /\ Len(part) = Len(lo) + 1
        /\ \A k \in 1..(Len(lo) + 1) : part[k] = IF k <= Len(lo) THEN lo[k] ELSE <<x>>[k - Len(lo)]
    BY <1>1, <2>0, ConcatProperties
  <2>2. \A k \in 1..(Len(lo) + 1) : part[k] = IF k <= Len(lo) THEN lo[k] ELSE x
    BY <2>0, <2>1
  <2> HIDE DEF part
  <2>3. /\ part \o hi \in Seq(S) /\ Len(part \o hi) = Len(lo) + 1 + Len(hi)
        /\ \A k \in 1..(Len(lo) + 1 + Len(hi)) : (part \o hi)[k] = IF k <= Len(lo) + 1 THEN part[k] ELSE hi[k - (Len(lo) + 1)]
    BY <1>1, <2>1, <2>0, ConcatProperties
  <2>4. DOMAIN (part \o hi) = 1..(Len(lo) + 1 + Len(hi))
    BY <2>3, LenProperties
  <2>5. all = part \o hi
    BY DEF part
  <2> HIDE DEF all
  <2>6. \A k \in 1..(Len(lo) + 1 + Len(hi)) : all[k] = IF k <= Len(lo) THEN lo[k] ELSE IF k = Len(lo) + 1 THEN x ELSE hi[k - (Len(lo) + 1)]
    BY <2>0, <2>2, <2>3, <2>5
  <2> QED
    BY <2>0, <2>3, <2>4, <2>5, <2>6
<1> HIDE DEF all
<1>8. Sorted(all)
  <2>1. ASSUME NEW k \in DOMAIN all, NEW l \in DOMAIN all, k < l PROVE all[k].order <= all[l].order
    <3>0. x.order \in Nat /\ k \in Nat /\ l \in Nat
      BY <1>7
    <3>1. CASE l <= Len(lo)
      <4>1. all[k] = lo[k] /\ all[l] = lo[l] /\ k \in DOMAIN lo /\ l \in DOMAIN lo
        BY <1>7, <2>1, <3>1
      <4> QED
        BY <1>4, <2>1, <4>1 DEF Sorted
    <3>2. CASE l = Len(lo) + 1
      <4>0. k <= Len(lo) /\ k >= 1 /\ ~(l <= Len(lo)) /\ Len(lo) \in Nat
        BY <1>7, <2>1, <3>0, <3>2
      <4>1. all[k] = lo[k] /\ all[l] = x /\ k \in DOMAIN lo
        BY <1>7, <2>1, <3>0, <3>2, <4>0
      <4> QED
        BY <1>4, <4>1
    <3>3. CASE l > Len(lo) + 1
      <4> DEFINE i == l - (Len(lo) + 1)
      <4>1. i \in DOMAIN hi /\ all[l] = hi[i]
        BY <1>7, <3>3
      <4>2. CASE k <= Len(lo)
        <5>1. all[k] = lo[k] /\ k \in DOMAIN lo
          BY <1>7, <4>2
        <5> QED
          BY <1>4, <1>5, <3>0, <4>1, <5>1
      <4>3. CASE k = Len(lo) + 1
        <5>1. all[k] = x
          BY <1>7, <4>3
        <5> QED
          BY <1>5, <4>1, <5>1
      <4>4. CASE k > Len(lo) + 1
        <5> DEFINE j == k - (Len(lo) + 1)
        <5>0. k <= Len(lo) + 1 + Len(hi) /\ ~(k <= Len(lo)) /\ k # Len(lo) + 1 /\ Len(lo) \in Nat /\ Len(hi) \in Nat
          BY <1>7, <3>0, <4>4
        <5>1. j \in DOMAIN hi /\ j < i
          BY <1>7, <3>0, <4>4, <2>1, <5>0
        <5>2. all[k] = hi[j]
          BY <1>7, <5>0
        <5> QED
          BY <1>5, <4>1, <5>1, <5>2 DEF Sorted
      <4> QED
        BY <1>7, <4>2, <4>3, <4>4
    <3> QED
      BY <1>7, <3>1, <3>2, <3>3
  <2> QED
    BY <2>1 DEF Sorted
<1> QED
  BY <1>6, <1>7, <1>8

\* The function in ByOrder
Sorting(c, steps, m) == c = [n \in 0..m |-> IF n = 0 THEN <<>> ELSE Inserted(c[n - 1], steps[n])]

\* The recursive function of ByOrder is defined by its equation.
LEMMA SortingDefined ==
  ASSUME NEW steps, NEW m \in Nat
  PROVE  \E c : Sorting(c, steps, m)
<1> DEFINE Fits(c, k) == Sorting(c, steps, k)
           Defined == {k \in Nat : \E c : Fits(c, k)}
           Turn(a, n) == Inserted(a, steps[n])
<1>0. \A c, k : Fits(c, k) <=> c = [n \in 0..k |-> IF n = 0 THEN <<>> ELSE Turn(c[n - 1], n)]
  BY Zenon DEF Sorting
<1> HIDE DEF Fits, Turn
<1>1. 0 \in Defined
  <2> DEFINE c == [n \in 0..0 |-> <<>>]
  <2>1. \A n \in 0..0 : n = 0
    OBVIOUS
  <2>2. c = [n \in 0..0 |-> IF n = 0 THEN <<>> ELSE Turn(c[n - 1], n)]
    BY <2>1, Zenon
  <2> HIDE DEF c
  <2> QED
    BY <1>0, <2>2
<1>2. ASSUME NEW k \in Nat, k \in Defined PROVE k + 1 \in Defined
  <2>1. PICK c : Fits(c, k)
    BY <1>2
  <2> DEFINE d == [n \in 0..(k + 1) |-> IF n = k + 1 THEN Turn(c[k], k + 1) ELSE c[n]]
             e == [n \in 0..(k + 1) |-> IF n = 0 THEN <<>> ELSE Turn(d[n - 1], n)]
  <2>c. c = [n \in 0..k |-> IF n = 0 THEN <<>> ELSE Turn(c[n - 1], n)]
    BY <1>0, <2>1
  <2>2. ASSUME NEW n \in 0..(k + 1) PROVE d[n] = e[n]
    <3>1. CASE n = k + 1
      <4>1. n # 0 /\ d[n] = Turn(c[k], k + 1) /\ d[n - 1] = c[k] /\ k \in 0..(k + 1) /\ k # k + 1 /\ n - 1 = k
        BY <3>1
      <4> QED
        BY <3>1, <4>1
    <3>2. CASE n = 0
      <4>1. n # k + 1 /\ d[n] = c[n] /\ n \in 0..k
        BY <3>2
      <4>2. c[n] = <<>>
        BY <2>c, <3>2, <4>1
      <4> QED
        BY <3>2, <4>1, <4>2
    <3>3. CASE n # k + 1 /\ n # 0
      <4>1. d[n] = c[n] /\ d[n - 1] = c[n - 1] /\ n \in 0..k
        BY <3>3
      <4>2. c[n] = Turn(c[n - 1], n)
        BY <2>c, <3>3, <4>1
      <4> QED
        BY <3>3, <4>1, <4>2
    <3> QED
      BY <3>1, <3>2, <3>3
  <2>3. d = [n \in 0..(k + 1) |-> d[n]] /\ e = [n \in 0..(k + 1) |-> e[n]]
    OBVIOUS
  <2>4. d = e
    <3> HIDE DEF d, e
    <3> QED BY <2>2, <2>3
  <2>5. d = [n \in 0..(k + 1) |-> IF n = 0 THEN <<>> ELSE Turn(d[n - 1], n)]
    <3> HIDE DEF d
    <3> QED BY <2>4 DEF e
  <2> HIDE DEF d, e
  <2>6. Fits(d, k + 1)
    BY <1>0, <2>5
  <2> QED
    BY <2>6, k + 1 \in Nat
<1>3. Nat \subseteq Defined
  <2> HIDE DEF Defined
  <2> QED BY <1>1, <1>2, NatSetInduction
<1>4. m \in Defined
  BY <1>3
<1> QED
  BY <1>4 DEF Fits


\* Whatever the order of a taught workflow's steps, they are compiled in the order of their numbers.
LEMMA ByOrderIsSorted ==
  ASSUME NEW workflow, NEW S, workflow.steps \in Seq(S), \A y \in S : y.order \in Nat
  PROVE  ByOrder(workflow) \in Seq(S) /\ Sorted(ByOrder(workflow))
<1> DEFINE q == workflow.steps
           all == CHOOSE c : Sorting(c, q, Len(q))
           Done == {n \in Nat : n <= Len(q) => all[n] \in Seq(S) /\ Sorted(all[n])}
<1>0. Len(q) \in Nat /\ DOMAIN q = 1..Len(q) /\ \A n \in 1..Len(q) : q[n] \in S
  BY LenProperties, Elements
<1>1. Sorting(all, q, Len(q))
  BY <1>0, SortingDefined
<1>2. ByOrder(workflow) = all[Len(q)]
  BY Zenon DEF ByOrder, Sorting
<1> HIDE DEF all
<1>3. /\ all[0] = <<>>
      /\ \A n \in 1..Len(q) : all[n] = Inserted(all[n - 1], q[n])
  <2>1. \A n \in 0..Len(q) : all[n] = IF n = 0 THEN <<>> ELSE Inserted(all[n - 1], q[n])
    BY <1>1, Zenon DEF Sorting
  <2>2. 0 \in 0..Len(q) /\ \A n \in 1..Len(q) : n \in 0..Len(q) /\ n # 0
    BY <1>0
  <2> QED
    BY <2>1, <2>2, Zenon
<1>4. 0 \in Done
  <2>1. <<>> \in Seq(S) /\ DOMAIN <<>> = {}
    OBVIOUS
  <2>2. Sorted(<<>>)
    BY <2>1 DEF Sorted
  <2> QED
    BY <1>3, <2>1, <2>2
<1>5. ASSUME NEW n \in Nat, n \in Done PROVE n + 1 \in Done
  <2>1. SUFFICES ASSUME n + 1 <= Len(q) PROVE all[n + 1] \in Seq(S) /\ Sorted(all[n + 1])
    OBVIOUS
  <2>2. n + 1 \in 1..Len(q) /\ n + 1 - 1 = n /\ n <= Len(q)
    BY <1>0, <2>1
  <2>3. all[n + 1] = Inserted(all[n], q[n + 1]) /\ q[n + 1] \in S
    BY <1>0, <1>3, <2>2
  <2>4. all[n] \in Seq(S) /\ Sorted(all[n])
    BY <1>5, <2>2
  <2> QED
    BY <2>3, <2>4, InsertedInPlace
<1>6. Nat \subseteq Done
  <2> HIDE DEF Done
  <2> QED BY <1>4, <1>5, NatSetInduction
<1> QED
  BY <1>0, <1>2, <1>6

\* A taught workflow's spec keeps the steps and what their writes wait for.
LEMMA TaughtIs ==
  ASSUME NEW workflow \in Workflows, NEW writes
  PROVE  LET spec == LearnedSpec(workflow, writes)
         IN  /\ Listing(spec.steps) /\ Sorted(spec.steps) /\ Orders(spec.steps)
             /\ \A k \in DOMAIN spec.steps : spec.steps[k].mode = "write" => spec.steps[k].approval
<1> DEFINE S == {workflow.steps[k] : k \in DOMAIN workflow.steps}
           q == ByOrder(workflow)
           spec == LearnedSpec(workflow, writes)
           T == {LearnedStep(y) : y \in S}
<1>1. workflow.steps \in Seq(S) /\ \A y \in S : y.order \in Nat
  BY WorkflowsAreLists
<1>2. q \in Seq(S) /\ Sorted(q)
  <2> HIDE DEF S
  <2> QED BY <1>1, ByOrderIsSorted
<1>3. \A y : LearnedStep(y).order = y.order /\ (LearnedStep(y).mode = "write" => LearnedStep(y).approval)
  BY DEF LearnedStep, Step
<1> HIDE DEF S, q
<1>4. spec.steps = [k \in DOMAIN q |-> LearnedStep(q[k])]
  BY Zenon DEF LearnedSpec, q
<1>5. \A k \in DOMAIN q : q[k] \in S /\ LearnedStep(q[k]) \in T
  BY <1>2, Elements
<1>6. spec.steps \in Seq(T)
  <2> DEFINE f == [k \in DOMAIN q |-> LearnedStep(q[k])]
  <2>1. f \in [DOMAIN q -> T]
    BY <1>5
  <2> HIDE DEF f, T
  <2> QED BY <1>2, <1>4, <2>1, SameLength DEF f
<1> HIDE DEF spec
<1>7. DOMAIN spec.steps = DOMAIN q /\ \A k \in DOMAIN q : spec.steps[k] = LearnedStep(q[k])
  BY <1>4
<1>8. Sorted(spec.steps) /\ Orders(spec.steps)
  <2>1. \A k \in DOMAIN q : spec.steps[k].order = q[k].order /\ q[k].order \in Nat
    BY <1>1, <1>3, <1>5, <1>7
  <2> QED
    BY <1>2, <1>7, <2>1 DEF Sorted, Orders
<1>9. \A k \in DOMAIN spec.steps : spec.steps[k].mode = "write" => spec.steps[k].approval
  BY <1>3, <1>7, Zenon
<1> QED
  BY <1>6, <1>8, <1>9 DEF Listing, spec

-----------------------------------------------------------------------------
\* What a model drafted keeps its numbers and writes nothing.
LEMMA DraftedIs ==
  ASSUME NEW plan \in Plans, NEW req, PlanIsUsable(plan)
  PROVE  LET spec == PlanSpec(plan, req)
         IN  /\ Listing(spec.steps) /\ CountedOff(spec.steps)
             /\ \A k \in DOMAIN spec.steps : spec.steps[k].mode # "write"
<1> DEFINE steps == [k \in DOMAIN plan |-> Step(k, k, plan[k], DraftMode(plan[k]), {}, {})]
           S == {plan[k] : k \in DOMAIN plan}
           T == {steps[k] : k \in DOMAIN plan}
<1>1. plan \in Seq(S)
  BY PlansAreLists
<1>2. PlanSpec(plan, req).steps = steps
  BY DEF PlanSpec, Draft
<1>3. steps \in [DOMAIN plan -> T]
  OBVIOUS
<1>4. steps \in Seq(T)
  <2> HIDE DEF S, T, steps
  <2> QED BY <1>1, <1>3, SameLength
<1>5. ASSUME NEW k \in DOMAIN plan PROVE steps[k].order = k /\ steps[k].mode = DraftMode(plan[k])
  BY DEF Step
<1>6. \A cap \in Capabilities : DraftMode(cap) # "write"
  <2>1. ASSUME NEW cap \in Capabilities, "write" \notin Catalog[cap].modes, Catalog[cap].modes # {}
        PROVE  DraftMode(cap) # "write"
    BY <2>1, Zenon DEF DraftMode
  <2>2. \A cap \in Capabilities : Catalog[cap].modes # {}
    BY DEF Capabilities, Catalog
  <2>3. ASSUME NEW cap \in Capabilities, "write" \in Catalog[cap].modes PROVE DraftMode(cap) # "write"
    <3>1. DraftMode(cap) = "propose_write"
      BY <2>3, Zenon DEF DraftMode
    <3> QED
      BY <3>1
  <2> QED
    BY <2>1, <2>2, <2>3
<1>7. \A k \in DOMAIN plan : plan[k] \in Capabilities
  BY DEF PlanIsUsable
<1> HIDE DEF steps, T
<1>8. DOMAIN steps = DOMAIN plan
  BY DEF steps
<1>9. CountedOff(steps) /\ \A k \in DOMAIN steps : steps[k].mode # "write"
  BY <1>5, <1>6, <1>7, <1>8 DEF CountedOff
<1> QED
  BY <1>2, <1>4, <1>9 DEF Listing

\* Steps numbered by their positions are in the order of their numbers.
LEMMA NumberedIsSorted ==
  ASSUME NEW q, Listing(q), CountedOff(q)
  PROVE  Sorted(q) /\ Orders(q)
<1>1. \A k \in DOMAIN q : k \in Nat
  BY LenProperties DEF Listing
<1> QED
  BY <1>1 DEF CountedOff, Sorted, Orders

\* All there is to a step
Fields == {"id", "order", "cap", "mode", "reads", "wants", "out", "literals", "approval", "risk"}
StepShape(y) == DOMAIN y = Fields /\ y = [f \in DOMAIN y |-> y[f]]

\* What step() makes
LEMMA StepIs ==
  ASSUME NEW order, NEW id, NEW cap, NEW mode, NEW reads, NEW wants
  PROVE  LET y == Step(order, id, cap, mode, reads, wants)
         IN  StepShape(y) /\ y.order = order /\ y.cap = cap /\ y.mode = mode /\ (mode = "write" => y.approval)
<1> DEFINE y == Step(order, id, cap, mode, reads, wants)
           risk == IF cap \in Capabilities THEN Catalog[cap].risk ELSE "low"
           waits == mode = "write"
<1>1. y = [id |-> id, order |-> order, cap |-> cap, mode |-> mode, reads |-> reads, wants |-> wants,
           out |-> <<"out", id>>, literals |-> {}, approval |-> waits, risk |-> risk]
  BY DEF Step
<1>2. mode = "write" => waits
  OBVIOUS
<1> HIDE DEF y, risk, waits
<1>3. DOMAIN y = Fields
  BY <1>1 DEF Fields
<1>4. y = [f \in DOMAIN y |-> y[f]]
  BY <1>1
<1>5. y.order = order /\ y.cap = cap /\ y.mode = mode /\ y.approval = waits
  BY <1>1
<1> QED
  BY <1>2, <1>3, <1>4, <1>5 DEF StepShape, y

\* A step may be given another risk, another approval and other literals.
Gated(y, risk, approval, literals) == [y EXCEPT !.risk = risk, !.approval = approval, !.literals = literals]
Rated(y, risk, literals) == [y EXCEPT !.risk = risk, !.literals = literals]

\* That leaves the rest of it as it is.
LEMMA StepMarked ==
  ASSUME NEW y, StepShape(y), NEW risk, NEW approval, NEW literals
  PROVE  /\ LET z == Gated(y, risk, approval, literals) IN StepShape(z) /\ z.mode = y.mode /\ z.approval = approval
         /\ LET z == Rated(y, risk, literals) IN StepShape(z) /\ z.mode = y.mode /\ z.approval = y.approval
<1>1. LET z == [y EXCEPT !.risk = risk, !.approval = approval, !.literals = literals]
      IN  StepShape(z) /\ z.mode = y.mode /\ z.approval = approval
  BY DEF StepShape, Fields
<1>2. LET z == [y EXCEPT !.risk = risk, !.literals = literals]
      IN  StepShape(z) /\ z.mode = y.mode /\ z.approval = y.approval
  BY DEF StepShape, Fields
<1> QED
  BY <1>1, <1>2 DEF Gated, Rated

\* What an observed action becomes: a write among it waits for an approval.
LEMMA TraceStepsAre ==
  ASSUME NEW a, NEW k
  PROVE  /\ Listing(TraceSteps(a, k))
         /\ \A i \in DOMAIN TraceSteps(a, k) :
              LET y == TraceSteps(a, k)[i] IN StepShape(y) /\ (y.mode = "write" => y.approval)
<1> DEFINE op == Operations[a.op]
           reads == IF a.from = None THEN {} ELSE {<<"out", <<"s", a.from>>>>}
           one == Step(k, <<"s", k>>, op.cap, op.mode, reads, a.asks)
           risk == IF op.mode = "read" THEN "low" ELSE "medium"
           waits == op.mode # "read"
           literals == {x \in {a.label} : x = "code"}
           first == [one EXCEPT !.risk = risk, !.approval = waits, !.literals = literals]
           two == Step(k, <<"w", k>>, op.write, "write", reads \union {first.out}, a.asks)
           second == [two EXCEPT !.risk = "medium", !.literals = first.literals]
           Good(y) == StepShape(y) /\ (y.mode = "write" => y.approval)
<1>1. TraceSteps(a, k) = IF op.write = None THEN <<first>> ELSE <<first, second>>
  BY Zenon DEF TraceSteps
<1>2. Good(first)
  <2>1. StepShape(one) /\ one.mode = op.mode
    <3> HIDE DEF op, reads
    <3> QED BY StepIs
  <2> HIDE DEF one, risk, literals, op
  <2>2. op.mode = "write" => waits
    OBVIOUS
  <2> HIDE DEF waits
  <2> HIDE DEF risk, literals
  <2>3. first = Gated(one, risk, waits, literals)
    BY Zenon DEF Gated
  <2>4. StepShape(first) /\ first.mode = one.mode /\ first.approval = waits
    BY <2>1, <2>3, StepMarked
  <2> HIDE DEF first
  <2> QED
    BY <2>1, <2>2, <2>4
<1> HIDE DEF first
<1>3. Good(second)
  <2>1. StepShape(two) /\ two.mode = "write" /\ two.approval
    <3> HIDE DEF op, reads
    <3> QED BY StepIs
  <2> HIDE DEF two
  <2>2. second = Rated(two, "medium", first.literals)
    BY Zenon DEF Rated
  <2> HIDE DEF second
  <2>3. StepShape(second) /\ second.mode = two.mode /\ second.approval = two.approval
    BY <2>1, <2>2, StepMarked
  <2> QED
    BY <2>1, <2>3
<1> HIDE DEF first, second, op, Good
<1>4. CASE op.write = None
  <2>1. TraceSteps(a, k) = <<first>>
    BY <1>1, <1>4
  <2>2. <<first>> \in Seq({first}) /\ DOMAIN <<first>> = {1} /\ <<first>>[1] = first
    OBVIOUS
  <2> QED
    BY <1>2, <2>1, <2>2 DEF Listing, Good
<1>5. CASE op.write # None
  <2>1. TraceSteps(a, k) = <<first, second>>
    BY <1>1, <1>5
  <2>2. <<first, second>> \in Seq({first, second}) /\ DOMAIN <<first, second>> = {1, 2}
        /\ <<first, second>>[1] = first /\ <<first, second>>[2] = second
    OBVIOUS
  <2> QED
    BY <1>2, <1>3, <2>1, <2>2 DEF Listing, Good
<1> QED
  BY <1>4, <1>5

\* A program of any length is numbered by its positions, and every write of it waits for an approval.
LEMMA ProgramIs ==
  ASSUME NEW trace \in Traces
  PROVE  LET steps == TraceProgram(trace)
         IN  Listing(steps) /\ CountedOff(steps) /\ \A n \in DOMAIN steps : steps[n].mode = "write" => steps[n].approval
<1> DEFINE S == {trace[k] : k \in DOMAIN trace}
           ss == [k \in DOMAIN trace |-> TraceSteps(trace[k], k)]
           T == UNION {{ss[k][i] : i \in DOMAIN ss[k]} : k \in DOMAIN trace}
           flat == FlattenSeq(ss)
           Good(y) == StepShape(y) /\ (y.mode = "write" => y.approval)
           steps == [n \in DOMAIN flat |-> [flat[n] EXCEPT !.order = n]]
<1>1. trace \in Seq(S)
  BY TracesAreLists
<1>2. \A k \in DOMAIN trace : Listing(ss[k]) /\ \A i \in DOMAIN ss[k] : Good(ss[k][i])
  BY TraceStepsAre
<1> HIDE DEF Good
<1>3. \A k \in DOMAIN trace : ss[k] \in Seq(T)
  <2> SUFFICES ASSUME NEW k \in DOMAIN trace PROVE ss[k] \in Seq(T)
    OBVIOUS
  <2> DEFINE q == ss[k]
  <2>1. \A i \in DOMAIN q : q[i] \in T
    OBVIOUS
  <2>2. Listing(q)
    BY <1>2
  <2> HIDE DEF q, T
  <2>3. DOMAIN q = 1..Len(q) /\ Len(q) \in Nat /\ q = [i \in DOMAIN q |-> q[i]]
    BY <2>2, LenProperties DEF Listing
  <2>4. q \in [1..Len(q) -> T]
    BY <2>1, <2>3
  <2>5. q \in Seq(T)
    BY <2>3, <2>4
  <2> QED
    BY <2>5 DEF q
<1>4. \A y \in T : Good(y)
  BY <1>2
<1> HIDE DEF T
<1>5. ss \in Seq(Seq(T))
  <2>1. ss \in [DOMAIN trace -> Seq(T)]
    BY <1>3
  <2> HIDE DEF ss, S
  <2> QED BY <1>1, <2>1, SameLength
<1> HIDE DEF ss
<1>6. flat \in Seq(T)
  BY <1>5, FlattenIs
<1> HIDE DEF flat
<1>7. TraceProgram(trace) = steps
  BY Zenon DEF TraceProgram, flat, ss
<1>8. ASSUME NEW n \in DOMAIN flat
      PROVE  steps[n].order = n /\ (steps[n].mode = "write" => steps[n].approval)
  <2> DEFINE y == flat[n]
  <2>1. y \in T
    BY <1>6, Elements
  <2>2. Good(y)
    BY <1>4, <2>1
  <2>3. steps[n] = [y EXCEPT !.order = n]
    OBVIOUS
  <2> HIDE DEF y, steps
  <2>4. /\ [y EXCEPT !.order = n].order = n /\ [y EXCEPT !.order = n].mode = y.mode
        /\ [y EXCEPT !.order = n].approval = y.approval
    BY <2>2 DEF Good, StepShape, Fields
  <2> QED
    BY <2>2, <2>3, <2>4 DEF Good
<1>9. DOMAIN steps = DOMAIN flat /\ steps \in Seq({steps[n] : n \in DOMAIN flat})
  <2> DEFINE U == {steps[n] : n \in DOMAIN flat}
  <2>1. steps \in [DOMAIN flat -> U] /\ DOMAIN steps = DOMAIN flat
    OBVIOUS
  <2> HIDE DEF steps, U
  <2>2. steps \in Seq(U)
    BY <1>6, <2>1, SameLength
  <2> QED
    BY <2>1, <2>2 DEF U
<1> HIDE DEF steps
<1>10. CountedOff(steps) /\ Listing(steps) /\ \A n \in DOMAIN steps : steps[n].mode = "write" => steps[n].approval
  BY <1>8, <1>9, Zenon DEF CountedOff, Listing
<1> QED
  BY <1>7, <1>10

-----------------------------------------------------------------------------
\* The one write of the reconciliation is a CRM update.
LEMMA ReconciliationIs ==
  /\ Listing(ReconciliationSteps) /\ CountedOff(ReconciliationSteps)
  /\ \A k \in DOMAIN ReconciliationSteps :
       LET y == ReconciliationSteps[k] IN y.mode = "write" => y.approval /\ y.cap = "update"
<1>1. Len(ReconciliationSteps) = 7 /\ DOMAIN ReconciliationSteps = 1..7
  BY DEF ReconciliationSteps
<1>2. Listing(ReconciliationSteps)
  <2> DEFINE S == {ReconciliationSteps[k] : k \in 1..7}
  <2>1. ReconciliationSteps \in Seq(S)
    BY DEF ReconciliationSteps
  <2> QED
    BY <2>1 DEF Listing
<1>3. ASSUME NEW k \in 1..7
      PROVE  ReconciliationSteps[k].order = k /\ (ReconciliationSteps[k].mode = "write" => ReconciliationSteps[k].approval /\ ReconciliationSteps[k].cap = "update")
  <2> DEFINE y == ReconciliationSteps[k]
             Good(s, n) == s.order = n /\ (s.mode = "write" => s.approval /\ s.cap = "update")
  <2>1. k \in {1, 2, 3, 4, 5, 6, 7}
    OBVIOUS
  <2>2. \A n, id, cap, reads, wants :
          /\ Good(Step(n, id, cap, "read", reads, wants), n) /\ Good(Step(n, id, cap, "propose_write", reads, wants), n)
          /\ Good(Step(n, id, "update", "write", reads, wants), n)
    BY StepIs
  <2> HIDE DEF Good
  <2>a. ReconciliationSteps[1] = Step(1, 1, "local", "read", {}, {"account_csv"})
    BY DEF ReconciliationSteps
  <2>b. ReconciliationSteps[2] = Step(2, 2, "local", "read", {<<"out", 1>>}, {})
    BY DEF ReconciliationSteps
  <2>c. ReconciliationSteps[3] = Step(3, 3, "query", "read", {<<"out", 2>>}, {})
    BY DEF ReconciliationSteps
  <2>d. ReconciliationSteps[4] = Step(4, 4, "local", "read", {<<"out", 2>>, <<"out", 3>>}, {})
    BY DEF ReconciliationSteps
  <2>e. ReconciliationSteps[5] = Step(5, 5, "propose_update", "propose_write", {<<"out", 4>>}, {})
    BY DEF ReconciliationSteps
  <2>f. ReconciliationSteps[6] = Step(6, 6, "update", "write", {<<"out", 5>>}, {})
    BY DEF ReconciliationSteps
  <2>g. ReconciliationSteps[7] = Step(7, 7, "local", "read", {<<"out", 4>>, <<"out", 6>>}, {})
    BY DEF ReconciliationSteps
  <2>h. /\ Good(ReconciliationSteps[1], 1) /\ Good(ReconciliationSteps[2], 2) /\ Good(ReconciliationSteps[3], 3)
        /\ Good(ReconciliationSteps[4], 4) /\ Good(ReconciliationSteps[5], 5) /\ Good(ReconciliationSteps[6], 6)
        /\ Good(ReconciliationSteps[7], 7)
    BY <2>2, <2>a, <2>b, <2>c, <2>d, <2>e, <2>f, <2>g, Zenon
  <2>3. Good(ReconciliationSteps[k], k)
    BY <2>1, <2>h, Zenon
  <2> QED
    BY <2>3 DEF Good
<1> QED
  BY <1>1, <1>2, <1>3 DEF CountedOff

\* More steps, numbered on
WrittenOn(all, q, r) ==
  /\ Listing(all) /\ CountedOff(all) /\ Len(all) = Len(q) + Len(r)
  /\ \A k \in DOMAIN all : (\E i \in DOMAIN q : all[k] = q[i]) \/ (\E i \in DOMAIN r : all[k] = r[i])

\* Steps whose numbers go on from another list's may be put behind it.
LEMMA Continued ==
  ASSUME NEW q, NEW r, Listing(q), Listing(r), CountedOff(q), \A k \in DOMAIN r : r[k].order = Len(q) + k
  PROVE  WrittenOn(q \o r, q, r)
<1>1. PICK S : q \in Seq(S)
  BY DEF Listing
<1>2. PICK T : r \in Seq(T)
  BY DEF Listing
<1>3. q \in Seq(S \cup T) /\ r \in Seq(S \cup T)
  BY <1>1, <1>2, WiderSeq
<1> DEFINE U == S \cup T
           all == q \o r
<1> HIDE DEF U
<1>4. q \in Seq(U) /\ r \in Seq(U)
  BY <1>3 DEF U
<1>5. Len(q) \in Nat /\ Len(r) \in Nat /\ DOMAIN q = 1..Len(q) /\ DOMAIN r = 1..Len(r)
  BY <1>4, LenProperties
<1>6. /\ all \in Seq(U) /\ Len(all) = Len(q) + Len(r)
      /\ \A k \in 1..(Len(q) + Len(r)) : all[k] = IF k <= Len(q) THEN q[k] ELSE r[k - Len(q)]
  BY <1>4, ConcatProperties
<1>7. DOMAIN all = 1..(Len(q) + Len(r))
  BY <1>6, LenProperties
<1> HIDE DEF all
<1>8. ASSUME NEW k \in DOMAIN all
      PROVE  all[k].order = k /\ ((\E i \in DOMAIN q : all[k] = q[i]) \/ (\E i \in DOMAIN r : all[k] = r[i]))
  <2>1. CASE k <= Len(q)
    <3>1. k \in DOMAIN q /\ all[k] = q[k]
      BY <1>5, <1>6, <1>7, <2>1
    <3> QED
      BY <3>1 DEF CountedOff
  <2>2. CASE ~(k <= Len(q))
    <3>1. k - Len(q) \in DOMAIN r /\ all[k] = r[k - Len(q)] /\ Len(q) + (k - Len(q)) = k
      BY <1>5, <1>6, <1>7, <2>2
    <3> QED
      BY <3>1
  <2> QED
    BY <2>1, <2>2
<1>9. WrittenOn(all, q, r)
  BY <1>6, <1>8 DEF WrittenOn, Listing, CountedOff
<1> QED
  BY <1>9 DEF all

\* A browser recipe writes by filling, and only where a fill was seen.
LEMMA BrowserStepsAre ==
  ASSUME NEW tokens
  PROVE  LET steps == BrowserSteps(tokens)
         IN  /\ Listing(steps) /\ CountedOff(steps)
             /\ \A k \in DOMAIN steps : steps[k].mode = "write" => steps[k].approval /\ steps[k].cap = "fill" /\ "fill" \in Mapped(tokens)
<1> DEFINE Fits(y) == y.mode = "write" => y.approval /\ y.cap = "fill" /\ "fill" \in Mapped(tokens)
           look == Step(1, 1, "fields", "read", {}, {"discovered_fields"})
           table == Step(2, 2, "table", "read", {}, {})
           propose(n) == Step(n + 1, n + 1, "propose_fill", "propose_write", {}, {"field_values"})
           fill(n) == Step(n + 2, n + 2, "fill", "write", {<<"out", n + 1>>}, {})
           again(n) == Step(n + 3, n + 3, "fields", "read", {<<"out", n + 2>>}, {"discovered_fields"})
           one == <<look>>
           middle == IF "table" \in Mapped(tokens) THEN <<table>> ELSE <<>>
           n == 1 + Len(middle)
           end == IF "fill" \in Mapped(tokens) THEN <<propose(n), fill(n), again(n)>> ELSE <<>>
           opening == one \o middle
<1>0. BrowserSteps(tokens) = opening \o end
  BY DEF BrowserSteps
<1>1. look.order = 1 /\ look.mode = "read" /\ table.order = 2 /\ table.mode = "read"
  BY StepIs
<1>2. /\ propose(n).order = n + 1 /\ propose(n).mode = "propose_write"
      /\ fill(n).order = n + 2 /\ fill(n).cap = "fill" /\ fill(n).approval
      /\ again(n).order = n + 3 /\ again(n).mode = "read"
  <2> HIDE DEF n
  <2> QED BY StepIs
<1> HIDE DEF look, table, propose, fill, again
<1>3. Listing(one) /\ CountedOff(one) /\ Len(one) = 1 /\ \A k \in DOMAIN one : Fits(one[k])
  <2>1. <<look>> \in Seq({look}) /\ DOMAIN <<look>> = {1} /\ <<look>>[1] = look /\ Len(<<look>>) = 1
    OBVIOUS
  <2> QED
    BY <1>1, <2>1 DEF Listing, CountedOff
<1>4. Listing(middle) /\ Len(middle) \in Nat /\ \A k \in DOMAIN middle : middle[k].order = 1 + k /\ Fits(middle[k])
  <2>1. CASE "table" \in Mapped(tokens)
    <3>1. middle = <<table>>
      BY <2>1
    <3>2. <<table>> \in Seq({table}) /\ DOMAIN <<table>> = {1} /\ <<table>>[1] = table /\ Len(<<table>>) = 1
      OBVIOUS
    <3>3. Listing(<<table>>)
      BY <3>2, Zenon DEF Listing
    <3>4. \A k \in DOMAIN <<table>> : <<table>>[k] = table /\ k = 1
      BY <3>2
    <3>5. Fits(table) /\ table.order = 1 + 1
      BY <1>1
    <3> HIDE DEF Fits
    <3>6. \A k \in DOMAIN <<table>> : <<table>>[k].order = 1 + k /\ Fits(<<table>>[k])
      BY <3>4, <3>5, Zenon
    <3> HIDE DEF middle
    <3> QED
      BY <3>1, <3>2, <3>3, <3>6
  <2>2. CASE "table" \notin Mapped(tokens)
    <3>1. middle = <<>>
      BY <2>2
    <3>2. <<>> \in Seq({table}) /\ DOMAIN <<>> = {} /\ Len(<<>>) = 0
      OBVIOUS
    <3> HIDE DEF middle
    <3> QED
      BY <3>1, <3>2 DEF Listing
  <2> QED
    BY <2>1, <2>2
<1>5. Listing(end) /\ \A k \in DOMAIN end : end[k].order = n + k /\ Fits(end[k])
  <2>1. CASE "fill" \in Mapped(tokens)
    <3> DEFINE three == <<propose(n), fill(n), again(n)>>
    <3>1. end = three
      BY <2>1
    <3>2. three \in Seq({propose(n), fill(n), again(n)}) /\ DOMAIN three = {1, 2, 3}
          /\ three[1] = propose(n) /\ three[2] = fill(n) /\ three[3] = again(n)
      OBVIOUS
    <3> HIDE DEF end, three, n
    <3>3. \A k \in DOMAIN three : three[k].order = n + k /\ Fits(three[k])
      BY <1>2, <2>1, <3>2
    <3> QED
      BY <3>1, <3>2, <3>3 DEF Listing
  <2>2. CASE "fill" \notin Mapped(tokens)
    <3>1. end = <<>>
      BY <2>2
    <3>2. <<>> \in Seq({table}) /\ DOMAIN <<>> = {}
      OBVIOUS
    <3> HIDE DEF end
    <3> QED
      BY <3>1, <3>2 DEF Listing
  <2> QED
    BY <2>1, <2>2
<1> HIDE DEF one, middle, end, Fits
<1>6. /\ Listing(opening) /\ CountedOff(opening) /\ Len(opening) = n
      /\ \A k \in DOMAIN opening : Fits(opening[k])
  <2>1. \A k \in DOMAIN middle : middle[k].order = Len(one) + k
    BY <1>3, <1>4
  <2>2. WrittenOn(opening, one, middle)
    BY <1>3, <1>4, <2>1, Continued, Zenon
  <2> HIDE DEF opening
  <2> QED
    BY <1>3, <1>4, <2>2 DEF WrittenOn
<1> HIDE DEF opening, n
<1>7. /\ Listing(opening \o end) /\ CountedOff(opening \o end)
      /\ \A k \in DOMAIN (opening \o end) : Fits((opening \o end)[k])
  <2>1. \A k \in DOMAIN end : end[k].order = Len(opening) + k
    BY <1>5, <1>6
  <2>2. WrittenOn(opening \o end, opening, end)
    BY <1>5, <1>6, <2>1, Continued, Zenon
  <2> DEFINE all == opening \o end
  <2> HIDE DEF all
  <2>3. WrittenOn(all, opening, end)
    BY <2>2 DEF all
  <2>4. Listing(all) /\ CountedOff(all) /\ \A k \in DOMAIN all : Fits(all[k])
    BY <1>5, <1>6, <2>3, Zenon DEF WrittenOn
  <2> QED
    BY <2>4 DEF all
<1> QED
  BY <1>0, <1>7 DEF Fits

-----------------------------------------------------------------------------
\* SpecIsSound, of a spec
Writing(spec) == {k \in Indices(spec) : spec.steps[k].mode = "write"}
Connector(spec, k) == Catalog[spec.steps[k].cap].connector
SeenAt(spec, tokens) ==
  \A k \in Writing(spec) : \E t \in tokens, cap \in Capabilities :
     cap \in TokenTable[t] /\ Catalog[cap].connector = Connector(spec, k)
Backed(spec, by, req, usage) ==
  /\ RunsToTheEnd(spec, req.runtime)
  /\ \A k \in Writing(spec) : spec.steps[k].approval /\ (by # "trace" => Connector(spec, k) \in req.policy.connectors)
  /\ by = "model" => Writing(spec) = {} /\ usage <= CostBudget
  /\ req.intent \in {"update", "browser"} => SeenAt(spec, req.tokens)

\* The recipe that looks for its fields asks for the values it writes.
AsksForValues(spec) ==
  "discovered_fields" \in spec.inputs /\ Writing(spec) # {} => "field_values" \in spec.inputs

Done == stage = "done" /\ outcome.status = "valid"
CompileInv ==
  /\ stage # "done" => outcome = None /\ surface = None
  /\ counted <= CostBudget
  /\ Done => Backed(outcome.spec, outcome.by, request, counted)
  /\ Done /\ outcome.by = "recipe" => AsksForValues(outcome.spec)
  /\ TargetIsCertain

\* It says what the run checks.
LEMMA CompileInvIsSound == CompileInv => CompiledRunsAreSound
<1> SUFFICES ASSUME CompileInv PROVE SpecIsSound
  BY DEF CompileInv, CompiledRunsAreSound
<1>1. ASSUME outcome # None, outcome.status = "valid"
      PROVE  Backed(outcome.spec, outcome.by, request, counted)
  BY <1>1 DEF CompileInv, Done
<1> QED
  BY <1>1, Zenon DEF SpecIsSound, Backed, SeenAt, Writing, Connector

\* What the validator, the policy and the runtime gate let pass is sound, if its steps are numbered in their order,
\* its writes wait for an approval, and they are of what was seen.
LEMMA JudgedIsBacked ==
  ASSUME NEW spec, NEW by, NEW req, NEW usage, Judge(spec, by, req.policy, req.runtime).status = "valid",
         Listing(spec.steps), Sorted(spec.steps), Orders(spec.steps),
         \A k \in Writing(spec) : spec.steps[k].approval,
         by = "model" => Writing(spec) = {} /\ usage <= CostBudget,
         req.intent \in {"update", "browser"} => SeenAt(spec, req.tokens)
  PROVE  Backed(spec, by, req, usage)
<1>1. validateAgentSpec(spec) /\ ~SpecDenied(spec, req.policy) /\ RuntimeReady(spec, req.runtime)
  BY JudgedValid
<1>2. RunsToTheEnd(spec, req.runtime)
  BY <1>1, PassedRunsToTheEnd
<1>3. \A k \in Writing(spec) : Connector(spec, k) \in req.policy.connectors
  BY <1>1, AllowedIsEnabled DEF Writing, Connector
<1> QED
  BY <1>2, <1>3, Zenon DEF Backed

\* A recipe is numbered, its writes wait, ask for their values and are of what was seen.
LEMMA RecipeIs ==
  ASSUME NEW req, MatchesReconciliation(req) \/ MatchesBrowser(req)
  PROVE  LET spec == RecipeSpec(req)
         IN  /\ Listing(spec.steps) /\ Sorted(spec.steps) /\ Orders(spec.steps)
             /\ \A k \in Writing(spec) : spec.steps[k].approval
             /\ AsksForValues(spec)
             /\ req.intent \in {"update", "browser"} => SeenAt(spec, req.tokens)
<1> DEFINE spec == RecipeSpec(req)
<1>1. CASE MatchesReconciliation(req)
  <2>1. spec.steps = ReconciliationSteps /\ spec.inputs = {"account_csv"}
    BY <1>1 DEF RecipeSpec, Draft
  <2> HIDE DEF spec
  <2>2. Listing(spec.steps) /\ CountedOff(spec.steps) /\ Sorted(spec.steps) /\ Orders(spec.steps)
    BY <2>1, ReconciliationIs, NumberedIsSorted
  <2>3. \A k \in Writing(spec) : spec.steps[k].approval /\ spec.steps[k].cap = "update"
    BY <2>1, ReconciliationIs DEF Writing, Indices
  <2>4. AsksForValues(spec)
    BY <2>1 DEF AsksForValues
  <2>5. ASSUME req.intent \in {"update", "browser"} PROVE SeenAt(spec, req.tokens)
    <3>1. LooksLikeReconciliation(req.tokens)
      BY <1>1, <2>5 DEF MatchesReconciliation
    <3>2. PICK t \in {"crm_open", "crm_edit"} : t \in req.tokens
      BY <3>1 DEF LooksLikeReconciliation
    <3>3. \E cap \in Capabilities : cap \in TokenTable[t] /\ Catalog[cap].connector = "salesforce"
      <4>1. "query" \in Capabilities /\ Catalog["query"].connector = "salesforce"
        BY DEF Capabilities, Catalog
      <4>2. "update" \in Capabilities /\ Catalog["update"].connector = "salesforce"
        BY DEF Capabilities, Catalog
      <4>3. "query" \in TokenTable["crm_open"] /\ "update" \in TokenTable["crm_edit"]
        BY DEF TokenTable
      <4> QED
        BY <3>2, <4>1, <4>2, <4>3
    <3>4. \A k \in Writing(spec) : Connector(spec, k) = "salesforce"
      <4>1. Catalog["update"].connector = "salesforce"
        BY DEF Catalog
      <4> QED
        BY <2>3, <4>1, Zenon DEF Connector
    <3> QED
      BY <3>2, <3>3, <3>4, Zenon DEF SeenAt
  <2> QED
    BY <2>2, <2>3, <2>4, <2>5 DEF spec
<1>2. CASE ~MatchesReconciliation(req)
  <2>1. spec.steps = BrowserSteps(req.tokens) /\ spec.inputs = BrowserInputs(req.tokens)
    BY <1>2 DEF RecipeSpec, Draft
  <2> HIDE DEF spec
  <2>2. Listing(spec.steps) /\ CountedOff(spec.steps) /\ Sorted(spec.steps) /\ Orders(spec.steps)
    <3>1. Listing(spec.steps) /\ CountedOff(spec.steps)
      BY <2>1, BrowserStepsAre, Zenon
    <3> QED
      BY <3>1, NumberedIsSorted
  <2>3. \A k \in Writing(spec) : spec.steps[k].approval /\ spec.steps[k].cap = "fill" /\ "fill" \in Mapped(req.tokens)
    BY <2>1, BrowserStepsAre, Zenon DEF Writing, Indices
  <2>4. AsksForValues(spec)
    BY <2>1, <2>3 DEF AsksForValues, BrowserInputs
  <2>5. SeenAt(spec, req.tokens)
    <3> SUFFICES ASSUME NEW k \in Writing(spec)
                 PROVE  \E t \in req.tokens, cap \in Capabilities : cap \in TokenTable[t] /\ Catalog[cap].connector = Connector(spec, k)
      BY Zenon DEF SeenAt
    <3>1. PICK t \in req.tokens : "fill" \in TokenTable[t]
      BY <2>3, Zenon DEF Mapped
    <3>2. "fill" \in Capabilities
      BY DEF Capabilities, Catalog
    <3>3. Connector(spec, k) = Catalog["fill"].connector
      BY <2>3, Zenon DEF Connector
    <3> QED
      BY <3>1, <3>2, <3>3, Zenon
  <2> QED
    BY <2>2, <2>3, <2>4, <2>5 DEF spec
<1> QED
  BY <1>1, <1>2

-----------------------------------------------------------------------------
\* Where a control is the one match, it is the one control shown once with its name.
LEMMA OneMatchIsCertain ==
  ASSUME NEW page \in Pages, NEW vocabulary, Cardinality(MatchControls(page, vocabulary)) = 1
  PROVE  \E k \in DOMAIN page :
           /\ {c[1] : c \in MatchControls(page, vocabulary)} = {k} /\ ~page[k].secure /\ page[k].copies = 1
           /\ \A j \in DOMAIN page :
                page[j].role = "textbox" /\ ~page[j].secure /\ page[j].name = page[k].name => j = k
<1> DEFINE M == MatchControls(page, vocabulary)
           P == {page[k] : k \in DOMAIN page}
<1>1. page \in Seq(P) /\ \A k \in DOMAIN page : page[k].copies \in Nat \ {0}
  BY PagesAreLists
<1>2. DOMAIN page = 1..Len(page) /\ Len(page) \in Nat
  <2> HIDE DEF P
  <2> QED BY <1>1, LenProperties
<1>3. IsFiniteSet(M)
  <2>0. Len(page) \in Int /\ 1 \in Int /\ 2 \in Int
    BY <1>2
  <2>1. IsFiniteSet(1..Len(page)) /\ IsFiniteSet(1..2)
    BY <2>0, FS_Interval, Zenon
  <2>2. IsFiniteSet((DOMAIN page) \X (1..2))
    BY <1>2, <2>1, FS_Product
  <2>3. M \subseteq (DOMAIN page) \X (1..2)
    BY DEF MatchControls, CandidateControls
  <2> HIDE DEF M
  <2> QED BY <2>2, <2>3, FS_Subset
<1>4. PICK c : M = {c}
  <2> HIDE DEF M
  <2> QED BY <1>3, FS_Singleton DEF M
<1>5. ASSUME NEW k \in DOMAIN page, NEW i \in 1..2
      PROVE  <<k, i>> \in M <=> /\ ~page[k].secure /\ i <= page[k].copies /\ page[k].role = "textbox"
                                /\ vocabulary # {} => page[k].name \in vocabulary
  BY DEF MatchControls, CandidateControls
<1>6. PICK k \in DOMAIN page, i \in 1..2 : c = <<k, i>>
  <2>1. c \in M
    BY <1>4
  <2> QED
    BY <2>1 DEF MatchControls, CandidateControls
<1> HIDE DEF M
<1>7. /\ ~page[k].secure /\ i <= page[k].copies /\ page[k].role = "textbox"
      /\ vocabulary # {} => page[k].name \in vocabulary
  BY <1>4, <1>5, <1>6
<1>8. page[k].copies = 1
  <2>1. page[k].copies \in Nat \ {0}
    BY <1>1
  <2>2. CASE page[k].copies # 1
    <3>1. <<k, 1>> \in M /\ <<k, 2>> \in M
      BY <1>5, <1>7, <2>1, <2>2
    <3>2. <<k, 1>> = <<k, 2>>
      BY <1>4, <3>1
    <3> QED
      BY <3>2
  <2> QED
    BY <2>2
<1>9. {d[1] : d \in M} = {k}
  <2>1. c[1] = k
    BY <1>6
  <2> QED
    BY <1>4, <2>1
<1>10. ASSUME NEW j \in DOMAIN page, page[j].role = "textbox", ~page[j].secure, page[j].name = page[k].name
       PROVE  j = k
  <2>1. 1 \in 1..2 /\ 1 <= page[j].copies
    <3>1. page[j].copies \in Nat \ {0}
      BY <1>1
    <3> QED
      BY <3>1
  <2>2. <<j, 1>> \in M
    <3>1. vocabulary # {} => page[j].name \in vocabulary
      BY <1>7, <1>10, Zenon
    <3> QED
      BY <1>5, <1>10, <2>1, <3>1, Zenon
  <2>3. <<j, 1>> = <<k, i>>
    BY <1>4, <1>6, <2>2
  <2> QED
    BY <2>3
<1> QED
  BY <1>7, <1>8, <1>9, <1>10 DEF M

-----------------------------------------------------------------------------
\* An answer that is sound, if it is a valid one
SoundAnswer(answer, req, usage) ==
  answer.status = "valid" =>
    /\ Backed(answer.spec, answer.by, req, usage)
    /\ answer.by = "recipe" => AsksForValues(answer.spec)

\* It keeps the invariant, whichever compiler gives it.
LEMMA SettledIsSound ==
  ASSUME CompileInv, stage # "done", NEW answer, Settle(answer), SoundAnswer(answer, request', counted'),
         counted' <= CostBudget, UNCHANGED surface
  PROVE  CompileInv'
<1>1. surface' = None
  BY DEF CompileInv
<1>2. TargetIsCertain'
  BY <1>1 DEF TargetIsCertain
<1>3. stage' = "done" /\ outcome' = answer
  BY DEF Settle
<1>4. /\ Done' => Backed(outcome.spec, outcome.by, request, counted)'
      /\ (Done /\ outcome.by = "recipe")' => AsksForValues(outcome.spec)'
  <2>1. outcome'.status = "valid" => Backed(outcome'.spec, outcome'.by, request', counted')
                             /\ (outcome'.by = "recipe" => AsksForValues(outcome'.spec))
    BY <1>3 DEF SoundAnswer
  <2> QED
    BY <2>1 DEF Done, Backed, AsksForValues, Writing, Indices, SeenAt, Connector, RunsToTheEnd
<1> QED
  BY <1>2, <1>3, <1>4 DEF CompileInv

\* A refusal claims nothing.
LEMMA RefusalIsSound ==
  ASSUME NEW status, status # "valid", NEW req, NEW usage
  PROVE  SoundAnswer(Answer(status), req, usage)
<1>1. Answer(status).status = status
  BY DEF Answer
<1> QED
  BY <1>1 DEF SoundAnswer

\* A judgement is as sound as what is judged.
LEMMA JudgementIsSound ==
  ASSUME NEW spec, NEW by, NEW req, NEW usage,
         Listing(spec.steps), Sorted(spec.steps), Orders(spec.steps),
         \A k \in Writing(spec) : spec.steps[k].approval,
         by = "model" => Writing(spec) = {} /\ usage <= CostBudget,
         req.intent \in {"update", "browser"} => SeenAt(spec, req.tokens),
         by = "recipe" => AsksForValues(spec)
  PROVE  SoundAnswer(Judge(spec, by, req.policy, req.runtime), req, usage)
<1> DEFINE answer == Judge(spec, by, req.policy, req.runtime)
<1>1. SUFFICES ASSUME answer.status = "valid"
               PROVE  Backed(answer.spec, answer.by, req, usage) /\ (answer.by = "recipe" => AsksForValues(answer.spec))
  BY DEF SoundAnswer
<1>2. answer = Valid(spec, by)
  BY <1>1, JudgedValid
<1>3. answer.spec = spec /\ answer.by = by
  <2>1. Valid(spec, by).spec = spec /\ Valid(spec, by).by = by
    BY DEF Valid
  <2> HIDE DEF answer
  <2> QED BY <1>2, <2>1
<1>4. Backed(spec, by, req, usage)
  BY <1>1, JudgedIsBacked
<1> HIDE DEF answer
<1> QED
  BY <1>3, <1>4

\* The answer of the recipe that matches
LEMMA RecipeKeeps == ASSUME CompileInv, CompileRecipe PROVE CompileInv'
<1> DEFINE spec == RecipeSpec(request)
           answer == Judge(spec, "recipe", request.policy, request.runtime)
<1>1. /\ stage = "recipe" /\ (MatchesReconciliation(request) \/ MatchesBrowser(request))
      /\ Settle(answer) /\ UNCHANGED <<request, attempt, counted, spent, surface>>
  BY Zenon DEF CompileRecipe
<1>2. /\ Listing(spec.steps) /\ Sorted(spec.steps) /\ Orders(spec.steps)
      /\ \A k \in Writing(spec) : spec.steps[k].approval
      /\ AsksForValues(spec) /\ (request.intent \in {"update", "browser"} => SeenAt(spec, request.tokens))
  BY <1>1, RecipeIs
<1> HIDE DEF spec
<1>3. SoundAnswer(answer, request, counted)
  BY <1>2, JudgementIsSound
<1> HIDE DEF answer
<1>4. counted' <= CostBudget /\ stage # "done" /\ UNCHANGED surface /\ SoundAnswer(answer, request', counted')
  BY <1>1, <1>3 DEF CompileInv
<1> QED
  BY <1>1, <1>4, SettledIsSound

\* The answer for a taught workflow
LEMMA TaughtKeeps ==
  ASSUME CompileInv, NEW workflow \in Workflows, NEW runtime, NEW policy, NEW writes,
         CompileLearned(workflow, runtime, policy, writes)
  PROVE  CompileInv'
<1> DEFINE spec == LearnedSpec(workflow, writes)
           req == [intent |-> "learned", workflow |-> workflow, runtime |-> runtime, policy |-> policy]
           judged == Judge(spec, "learned", policy, runtime)
           answer == IF ~WorkflowReady(workflow) THEN Answer("needs_configuration")
                     ELSE IF \E k \in DOMAIN workflow.steps : workflow.steps[k].cap \notin Capabilities THEN Answer("blocked")
                     ELSE judged
<1>1. /\ stage = "idle" /\ request' = req /\ Settle(answer) /\ UNCHANGED <<attempt, counted, spent, surface>>
  BY Zenon DEF CompileLearned
<1>2. /\ Listing(spec.steps) /\ Sorted(spec.steps) /\ Orders(spec.steps)
      /\ \A k \in Writing(spec) : spec.steps[k].approval
  BY TaughtIs DEF Writing, Indices
<1>3. req.policy = policy /\ req.runtime = runtime /\ req.intent = "learned"
  OBVIOUS
<1> HIDE DEF spec, req
<1>4. SoundAnswer(Judge(spec, "learned", req.policy, req.runtime), req, counted)
  BY <1>2, <1>3, JudgementIsSound
<1>5. SoundAnswer(judged, req, counted)
  BY <1>3, <1>4
<1> HIDE DEF judged
<1>6. SoundAnswer(answer, req, counted)
  BY <1>5, RefusalIsSound
<1> HIDE DEF answer
<1>7. counted' <= CostBudget /\ stage # "done" /\ UNCHANGED surface /\ SoundAnswer(answer, request', counted')
  BY <1>1, <1>6 DEF CompileInv
<1> QED
  BY <1>1, <1>7, SettledIsSound

\* The answer for a trace, which no policy is asked about
LEMMA TraceKeeps ==
  ASSUME CompileInv, NEW trace \in Traces, NEW runtime, CompileTrace(trace, runtime)
  PROVE  CompileInv'
<1> DEFINE spec == TraceSpec(trace)
           req == [intent |-> "trace", runtime |-> runtime]
           registered == Register(spec, runtime)
           answer == IF ~TraceReady(trace) \/ \E k \in DOMAIN trace : ~trace[k].origin \/ ~Translatable(trace[k], runtime)
                     THEN Answer("needs_configuration") ELSE registered
<1>1. /\ stage = "idle" /\ request' = req /\ Settle(answer) /\ UNCHANGED <<attempt, counted, spent, surface>>
  BY Zenon DEF CompileTrace
<1>2. /\ Listing(spec.steps) /\ Sorted(spec.steps) /\ Orders(spec.steps)
      /\ \A k \in Writing(spec) : spec.steps[k].approval
  <2>1. spec.steps = TraceProgram(trace)
    BY DEF TraceSpec
  <2> HIDE DEF spec
  <2>2. Listing(spec.steps) /\ CountedOff(spec.steps) /\ \A k \in DOMAIN spec.steps : spec.steps[k].mode = "write" => spec.steps[k].approval
    BY <2>1, ProgramIs, Zenon
  <2> QED
    BY <2>2, NumberedIsSorted DEF Writing, Indices
<1>3. req.runtime = runtime /\ req.intent = "trace"
  OBVIOUS
<1> HIDE DEF spec, req
<1>4. SoundAnswer(registered, req, counted)
  <2>1. SUFFICES ASSUME registered.status = "valid"
                 PROVE  /\ Backed(registered.spec, registered.by, req, counted)
                        /\ registered.by = "recipe" => AsksForValues(registered.spec)
    BY DEF SoundAnswer
  <2>2. Answer("blocked").status # "valid" /\ Answer("needs_runtime").status # "valid"
    BY DEF Answer
  <2>3. registered = Valid(spec, "trace") /\ validateAgentSpec(spec) /\ RuntimeReady(spec, runtime)
    BY <2>1, <2>2, Zenon DEF Register
  <2>4. Valid(spec, "trace").spec = spec /\ Valid(spec, "trace").by = "trace"
    BY DEF Valid
  <2> HIDE DEF registered
  <2>5. registered.spec = spec /\ registered.by = "trace"
    BY <2>3, <2>4
  <2>6. RunsToTheEnd(spec, req.runtime)
    BY <1>2, <1>3, <2>3, PassedRunsToTheEnd
  <2>7. Backed(spec, "trace", req, counted)
    BY <1>2, <1>3, <2>6 DEF Backed
  <2> QED
    BY <2>5, <2>7
<1> HIDE DEF registered
<1>5. SoundAnswer(answer, req, counted)
  BY <1>4, RefusalIsSound
<1> HIDE DEF answer
<1>6. counted' <= CostBudget /\ stage # "done" /\ UNCHANGED surface /\ SoundAnswer(answer, request', counted')
  BY <1>1, <1>5 DEF CompileInv
<1> QED
  BY <1>1, <1>6, SettledIsSound

\* The answer for a draft a model made within the budget
LEMMA DraftKeeps ==
  ASSUME CompileInv, NEW cost, NEW plan \in Plans \union {None}, DraftAccepted(cost, plan)
  PROVE  CompileInv'
<1> DEFINE spec == PlanSpec(plan, request)
           answer == Judge(spec, "model", request.policy, request.runtime)
<1>1. /\ stage = "draft" /\ DraftPasses(plan, request) /\ counted + cost <= CostBudget /\ counted' = counted + cost
      /\ Settle(answer) /\ UNCHANGED <<request, surface>>
  BY Zenon DEF DraftAccepted, MayDraft
<1>2. plan \in Plans /\ PlanIsUsable(plan)
  BY <1>1 DEF DraftPasses
<1>3. Listing(spec.steps) /\ CountedOff(spec.steps) /\ \A k \in DOMAIN spec.steps : spec.steps[k].mode # "write"
  BY <1>2, DraftedIs, Zenon
<1> HIDE DEF spec
<1>4. Sorted(spec.steps) /\ Orders(spec.steps)
  BY <1>3, NumberedIsSorted
<1>5. Writing(spec) = {}
  BY <1>3 DEF Writing, Indices
<1>6. SeenAt(spec, request.tokens)
  BY <1>5 DEF SeenAt
<1>7. counted' <= CostBudget
  BY <1>1
<1>8. SoundAnswer(answer, request, counted')
  BY <1>3, <1>4, <1>5, <1>6, <1>7, JudgementIsSound
<1> HIDE DEF answer
<1>9. stage # "done" /\ UNCHANGED surface /\ SoundAnswer(answer, request', counted')
  BY <1>1, <1>8
<1> QED
  BY <1>1, <1>7, <1>9, SettledIsSound

\* What the page shows decides whether a run starts.
LEMMA LookKeeps ==
  ASSUME CompileInv, NEW page \in Pages, NEW vocabulary, NEW supplied, LookAtPage(page, vocabulary, supplied)
  PROVE  CompileInv'
<1> DEFINE matches == MatchControls(page, vocabulary)
           writing == "field_values" \in outcome.spec.inputs
           field == IF "field" \in supplied THEN "supplied" ELSE IF Cardinality(matches) = 1 THEN "discovered" ELSE "unfilled"
           asks == writing /\ "value" \notin supplied
           resolved == ResolveIntent(page, vocabulary, supplied, writing)
<1>1. /\ stage = "done" /\ outcome.status = "valid" /\ outcome.by = "recipe" /\ "discovered_fields" \in outcome.spec.inputs
      /\ surface' = resolved /\ UNCHANGED <<request, stage, attempt, counted, spent, outcome>>
  BY Zenon DEF LookAtPage, NeedsSurface
<1>2. TargetIsCertain'
  <2>1. SUFFICES ASSUME resolved.status = "ready"
                 PROVE  /\ \/ "field" \in resolved.supplied
                           \/ \E k \in DOMAIN resolved.page :
                                /\ resolved.at = {k} /\ ~resolved.page[k].secure /\ resolved.page[k].copies = 1
                                /\ \A j \in DOMAIN resolved.page :
                                     resolved.page[j].role = "textbox" /\ ~resolved.page[j].secure
                                       /\ resolved.page[j].name = resolved.page[k].name => j = k
                        /\ (\E k \in Indices(outcome.spec) : outcome.spec.steps[k].mode = "write") => "value" \in resolved.supplied
    <3>1. Indices(outcome.spec)' = Indices(outcome.spec)
      BY <1>1 DEF Indices
    <3> HIDE DEF resolved
    <3> QED
      BY <1>1, <3>1, Zenon DEF TargetIsCertain
  <2>2. /\ resolved.status = (IF field = "unfilled" \/ asks THEN "needs_you" ELSE "ready")
        /\ resolved.page = page /\ resolved.supplied = supplied /\ resolved.at = {c[1] : c \in matches}
    BY DEF ResolveIntent
  <2> HIDE DEF resolved, matches
  <2>3. field # "unfilled" /\ ~asks
    BY <2>1, <2>2
  <2>4. "field" \in supplied \/ Cardinality(matches) = 1
    BY <2>3
  <2>5. ASSUME \E k \in Indices(outcome.spec) : outcome.spec.steps[k].mode = "write" PROVE "value" \in supplied
    <3>1. Writing(outcome.spec) # {}
      BY <2>5 DEF Writing
    <3>2. AsksForValues(outcome.spec)
      BY <1>1 DEF CompileInv, Done
    <3>3. writing
      BY <1>1, <3>1, <3>2 DEF AsksForValues
    <3> QED
      BY <2>3, <3>3
  <2>6. CASE Cardinality(matches) = 1
    <3>1. PICK k \in DOMAIN page :
           /\ {c[1] : c \in matches} = {k} /\ ~page[k].secure /\ page[k].copies = 1
           /\ \A j \in DOMAIN page :
                page[j].role = "textbox" /\ ~page[j].secure /\ page[j].name = page[k].name => j = k
      BY <2>6, OneMatchIsCertain, Zenon DEF matches
    <3> QED
      BY <2>2, <2>5, <3>1, Zenon
  <2> QED
    BY <2>2, <2>4, <2>5, <2>6, Zenon
<1> QED
  BY <1>1, <1>2 DEF CompileInv, Done

\* Nothing a compiler does makes a valid spec unsound or a target uncertain.
LEMMA CompileInductive == CompileInv /\ [CompileNext]_compileVars => CompileInv'
<1> SUFFICES ASSUME CompileInv, [CompileNext]_compileVars PROVE CompileInv'
  OBVIOUS
<1> DEFINE Same == UNCHANGED <<request, outcome, surface>>
<1>0. ASSUME Same, counted' <= CostBudget, counted' = counted \/ stage # "done",
             stage' = stage \/ (stage # "done" /\ stage' # "done")
      PROVE  CompileInv'
  <2>1. TargetIsCertain'
    BY <1>0 DEF CompileInv, TargetIsCertain, Indices
  <2>2. stage' # "done" => outcome' = None /\ surface' = None
    BY <1>0 DEF CompileInv
  <2>3. Done' => Done /\ counted' = counted
    BY <1>0 DEF Done
  <2>4. /\ Done' => Backed(outcome.spec, outcome.by, request, counted)'
        /\ (Done /\ outcome.by = "recipe")' => AsksForValues(outcome.spec)'
    BY <1>0, <2>3 DEF CompileInv
  <2> QED
    BY <1>0, <2>1, <2>2, <2>4 DEF CompileInv
<1>1. CASE UNCHANGED compileVars
  BY <1>0, <1>1 DEF compileVars, CompileInv
<1>2. CASE LookIt
  BY <1>2, LookKeeps DEF LookIt
<1>3. CASE CouldNotLook
  <2>1. /\ stage = "done" /\ surface' = [status |-> "could_not_look"]
        /\ UNCHANGED <<request, stage, attempt, counted, spent, outcome>>
    BY <1>3 DEF CouldNotLook
  <2>2. surface'.status # "ready"
    BY <2>1
  <2>3. TargetIsCertain'
    BY <2>2 DEF TargetIsCertain
  <2> QED
    BY <2>1, <2>3 DEF CompileInv, Done
<1>4. CASE AskForPattern
  <2>1. PICK req : Start(req)
    BY <1>4, Zenon DEF AskForPattern
  <2>2. stage = "idle" /\ stage' \in {"naming", "recipe"} /\ UNCHANGED <<attempt, counted, spent, outcome, surface>>
    BY <2>1 DEF Start
  <2> QED
    BY <2>2 DEF CompileInv, Done, TargetIsCertain
<1>5. CASE AskForTaught
  BY <1>5, TaughtKeeps DEF AskForTaught
<1>6. CASE AskForTrace
  BY <1>6, TraceKeeps DEF AskForTrace
<1>7. CASE NameIt
  <2>1. PICK cost \in 0..MaxCost, ok \in BOOLEAN : Name(cost, ok)
    BY <1>7 DEF NameIt
  <2>2. stage = "naming" /\ stage' = "recipe" /\ Same /\ counted' <= CostBudget
    BY <2>1 DEF Name, CompileInv
  <2> QED
    BY <1>0, <2>2
<1>8. CASE CompileRecipe
  BY <1>8, RecipeKeeps
<1>9. CASE DeclineRecipe
  <2> DEFINE status == IF SourceNotSeen THEN "needs_configuration" ELSE "needs_runtime"
  <2>1. stage = "recipe" /\ Settle(Answer(status)) /\ UNCHANGED <<request, attempt, counted, spent, surface>>
    BY <1>9, Zenon DEF DeclineRecipe, NoRecipe
  <2>2. status # "valid"
    OBVIOUS
  <2> HIDE DEF status
  <2>3. SoundAnswer(Answer(status), request', counted')
    BY <2>2, RefusalIsSound
  <2>4. counted' <= CostBudget /\ stage # "done" /\ UNCHANGED surface
    BY <2>1 DEF CompileInv
  <2> QED
    BY <2>1, <2>3, <2>4, SettledIsSound
<1>10. CASE FallToModel
  <2>1. stage = "recipe" /\ stage' = "draft" /\ Same /\ counted' = counted /\ counted' <= CostBudget
    BY <1>10 DEF FallToModel, NoRecipe, CompileInv
  <2> QED
    BY <1>0, <2>1
<1>11. CASE DraftIt
  <2>1. PICK cost \in 0..MaxCost : DraftTooDear(cost) \/ \E plan \in Plans \union {None} : DraftAgain(cost, plan) \/ DraftAccepted(cost, plan)
    BY <1>11 DEF DraftIt
  <2>2. CASE DraftTooDear(cost)
    BY <1>0, <2>2 DEF DraftTooDear, CompileInv
  <2>3. ASSUME NEW plan \in Plans \union {None}, DraftAgain(cost, plan) PROVE CompileInv'
    BY <1>0, <2>3 DEF DraftAgain, CompileInv
  <2>4. ASSUME NEW plan \in Plans \union {None}, DraftAccepted(cost, plan) PROVE CompileInv'
    BY <2>4, DraftKeeps
  <2> QED
    BY <2>1, <2>2, <2>3, <2>4
<1>12. CASE GiveUpDrafting
  <2>1. stage = "draft" /\ Settle(Answer("needs_configuration")) /\ UNCHANGED <<request, attempt, counted, spent, surface>>
    BY <1>12, Zenon DEF GiveUpDrafting
  <2>2. SoundAnswer(Answer("needs_configuration"), request', counted')
    BY RefusalIsSound
  <2>3. counted' <= CostBudget /\ stage # "done" /\ UNCHANGED surface
    BY <2>1 DEF CompileInv
  <2> QED
    BY <2>1, <2>2, <2>3, SettledIsSound
<1> QED
  BY <1>1, <1>2, <1>3, <1>4, <1>5, <1>6, <1>7, <1>8, <1>9, <1>10, <1>11, <1>12, Zenon DEF CompileNext

\* Whichever compiler made it, a valid spec of any length runs to its end on the runtime it was compiled for, each of
\* its writes waits for an approval and touches a system the policy enables (unless it replays a trace), a model's
\* draft writes nothing, an inferred workflow writes only where work was seen, and a run starts only on a field
\* nobody could mistake for another (compiler.ts, compile-learned.ts, trace-compiler.ts, resolve.ts).
THEOREM CompiledRunsStaySound == CompileSpec => []CompiledRunsAreSound
<1>1. CompileInit => CompileInv
  BY BudgetAssumption DEF CompileInit, CompileInv, Done, TargetIsCertain
<1> QED
  BY <1>1, CompileInductive, CompileInvIsSound, PTL DEF CompileSpec

-----------------------------------------------------------------------------
(* The cards of the day: what is shown was neither turned down nor put off, and its day is one a calendar has. *)

\* A set of numbers that is not empty has a smallest one, ...
LEMMA SmallestOne ==
  ASSUME NEW T, T \subseteq Nat, T # {}
  PROVE  Min(T) \in T /\ \A j \in T : Min(T) <= j
<1> DEFINE Without(n) == \A m \in 0..n : m \notin T
           Free == {n \in Nat : Without(n)}
<1>1. \E k \in T : \A j \in T : k <= j
  <2> SUFFICES ASSUME ~\E k \in T : \A j \in T : k <= j PROVE FALSE
    OBVIOUS
  <2>1. 0 \in Free
    <3> SUFFICES ASSUME 0 \in T PROVE FALSE
      OBVIOUS
    <3> QED
      OBVIOUS
  <2>2. ASSUME NEW n \in Nat, n \in Free PROVE n + 1 \in Free
    <3> SUFFICES ASSUME n + 1 \in T PROVE FALSE
      BY <2>2
    <3>1. \A j \in T : j \in Nat /\ ~(j <= n)
      BY <2>2
    <3> QED
      BY <3>1
  <2>3. Nat \subseteq Free
    <3> HIDE DEF Free
    <3> QED BY <2>1, <2>2, NatSetInduction
  <2>4. \A n \in T : n \in Free /\ n \in 0..n
    BY <2>3
  <2> QED
    BY <2>4
<1> QED
  BY <1>1, Zenon DEF Min

\* ... and a largest one if they are below a bound.
LEMMA LargestOne ==
  ASSUME NEW n \in Nat, NEW T, T \subseteq 0..n, T # {}
  PROVE  Max(T) \in T /\ \A j \in T : j <= Max(T)
<1> DEFINE R == {n - j : j \in T}
<1>1. R \subseteq Nat /\ R # {}
  <2>1. \A j \in T : n - j \in Nat
    OBVIOUS
  <2>2. PICK j : j \in T
    OBVIOUS
  <2>3. n - j \in R
    BY <2>2
  <2> QED
    BY <2>1, <2>3
<1>2. Min(R) \in R /\ \A j \in R : Min(R) <= j
  BY <1>1, SmallestOne
<1>3. PICK k \in T : Min(R) = n - k
  BY <1>2
<1>4. \A j \in T : k >= j
  <2> TAKE j \in T
  <2>1. n - j \in R
    OBVIOUS
  <2>2. n - k <= n - j
    BY <1>2, <1>3, <2>1
  <2> QED
    BY <2>2
<1>5. Max(T) \in T /\ \A j \in T : Max(T) >= j
  BY <1>3, <1>4, Zenon DEF Max
<1> QED
  BY <1>5

-----------------------------------------------------------------------------
\* The function that DaysBefore is
Counting(c, m) == c = [n \in 1..m |-> IF n = 1 THEN 0 ELSE c[n - 1] + MonthLengths[n - 1]]

\* The recursive function of the calendar is defined by its equation.
LEMMA CountingDefined ==
  ASSUME NEW m \in Nat
  PROVE  \E c : Counting(c, m)
<1> DEFINE Fits(c, k) == Counting(c, k)
           Defined == {k \in Nat : \E c : Fits(c, k)}
           Turn(a, n) == a + MonthLengths[n]
<1>0. \A c, k : Fits(c, k) <=> c = [n \in 1..k |-> IF n = 1 THEN 0 ELSE Turn(c[n - 1], n - 1)]
  BY Zenon DEF Counting
<1> HIDE DEF Fits, Turn
<1>1. 0 \in Defined
  <2> DEFINE c == [n \in 1..0 |-> 0]
             e == [n \in 1..0 |-> IF n = 1 THEN 0 ELSE Turn(c[n - 1], n - 1)]
  <2>1. c = e
    OBVIOUS
  <2> HIDE DEF c
  <2>2. c = [n \in 1..0 |-> IF n = 1 THEN 0 ELSE Turn(c[n - 1], n - 1)]
    BY <2>1
  <2> QED
    BY <1>0, <2>2
<1>2. ASSUME NEW k \in Nat, k \in Defined PROVE k + 1 \in Defined
  <2>1. PICK c : Fits(c, k)
    BY <1>2
  <2> DEFINE d == [n \in 1..(k + 1) |-> IF n = k + 1 THEN (IF k = 0 THEN 0 ELSE Turn(c[k], k)) ELSE c[n]]
             e == [n \in 1..(k + 1) |-> IF n = 1 THEN 0 ELSE Turn(d[n - 1], n - 1)]
  <2>c. c = [n \in 1..k |-> IF n = 1 THEN 0 ELSE Turn(c[n - 1], n - 1)]
    BY <1>0, <2>1
  <2>2. ASSUME NEW n \in 1..(k + 1) PROVE d[n] = e[n]
    <3>1. CASE n = k + 1
      <4>1. CASE k = 0
        BY <3>1, <4>1
      <4>2. CASE k # 0
        <5>1. n # 1 /\ d[n] = Turn(c[k], k) /\ n - 1 = k /\ k \in 1..(k + 1) /\ k # k + 1
          BY <3>1, <4>2
        <5>2. d[k] = c[k]
          BY <5>1
        <5> QED
          BY <5>1, <5>2
      <4> QED
        BY <4>1, <4>2
    <3>2. CASE n # k + 1 /\ n = 1
      <4>1. d[n] = c[n] /\ n \in 1..k
        BY <3>2
      <4>2. c[n] = 0
        BY <2>c, <3>2, <4>1
      <4> QED
        BY <3>2, <4>1, <4>2
    <3>3. CASE n # k + 1 /\ n # 1
      <4>1. d[n] = c[n] /\ d[n - 1] = c[n - 1] /\ n \in 1..k
        BY <3>3
      <4>2. c[n] = Turn(c[n - 1], n - 1)
        BY <2>c, <3>3, <4>1
      <4> QED
        BY <3>3, <4>1, <4>2
    <3> QED
      BY <3>1, <3>2, <3>3
  <2>3. d = [n \in 1..(k + 1) |-> d[n]] /\ e = [n \in 1..(k + 1) |-> e[n]]
    OBVIOUS
  <2>4. d = e
    <3> HIDE DEF d, e
    <3> QED BY <2>2, <2>3
  <2>5. d = [n \in 1..(k + 1) |-> IF n = 1 THEN 0 ELSE Turn(d[n - 1], n - 1)]
    <3> HIDE DEF d
    <3> QED BY <2>4 DEF e
  <2> HIDE DEF d, e
  <2>6. Fits(d, k + 1)
    BY <1>0, <2>5
  <2> QED
    BY <2>6, k + 1 \in Nat
<1>3. Nat \subseteq Defined
  <2> HIDE DEF Defined
  <2> QED BY <1>1, <1>2, NatSetInduction
<1>4. m \in Defined
  BY <1>3
<1> QED
  BY <1>4 DEF Fits

\* Every month has days and starts where the one before it ends.
LEMMA CalendarIs ==
  /\ Months \in Nat \ {0} /\ \A m \in 1..Months : MonthLengths[m] \in Nat \ {0} /\ DaysBefore[m] \in Nat
  /\ DaysBefore[1] = 0 /\ \A m \in 1..(Months - 1) : DaysBefore[m + 1] = DaysBefore[m] + MonthLengths[m]
<1>1. Months \in Nat \ {0} /\ \A m \in 1..Months : MonthLengths[m] \in Nat \ {0}
  BY CalendarAssumption, EmptySeq, LenProperties DEF Months
<1>2. DaysBefore = CHOOSE c : Counting(c, Months)
  BY Zenon DEF DaysBefore, Counting
<1>3. Counting(DaysBefore, Months)
  BY <1>1, <1>2, CountingDefined
<1>4. \A n \in 1..Months : DaysBefore[n] = IF n = 1 THEN 0 ELSE DaysBefore[n - 1] + MonthLengths[n - 1]
  BY <1>3, Zenon DEF Counting
<1>5. DaysBefore[1] = 0 /\ \A m \in 1..(Months - 1) : DaysBefore[m + 1] = DaysBefore[m] + MonthLengths[m]
  <2>1. 1 \in 1..Months
    BY <1>1
  <2>2. ASSUME NEW m \in 1..(Months - 1) PROVE DaysBefore[m + 1] = DaysBefore[m] + MonthLengths[m]
    <3>1. m + 1 \in 1..Months /\ m + 1 # 1 /\ m + 1 - 1 = m
      BY <1>1
    <3> QED
      BY <1>4, <3>1
  <2> QED
    BY <1>4, <2>1, <2>2
<1>6. \A m \in 1..Months : DaysBefore[m] \in Nat
  <2> DEFINE Counted == {n \in Nat : n + 1 \in 1..Months => DaysBefore[n + 1] \in Nat}
  <2>1. 0 \in Counted
    BY <1>5
  <2>2. ASSUME NEW n \in Nat, n \in Counted PROVE n + 1 \in Counted
    <3> SUFFICES ASSUME n + 1 + 1 \in 1..Months PROVE DaysBefore[n + 1 + 1] \in Nat
      OBVIOUS
    <3>1. n + 1 \in 1..(Months - 1) /\ n + 1 \in 1..Months
      BY <1>1
    <3> QED
      BY <1>1, <1>5, <2>2, <3>1
  <2>3. Nat \subseteq Counted
    <3> HIDE DEF Counted
    <3> QED BY <2>1, <2>2, NatSetInduction
  <2>4. \A m \in 1..Months : m - 1 \in Nat /\ m - 1 + 1 = m
    BY <1>1
  <2> QED
    BY <2>3, <2>4
<1> QED
  BY <1>1, <1>5, <1>6

\* The months are apart and in their order.
LEMMA MonthsInOrder ==
  ASSUME NEW i \in 1..Months, NEW j \in 1..Months, i < j
  PROVE  DaysBefore[i] + MonthLengths[i] <= DaysBefore[j]
<1> DEFINE Counted == {n \in Nat : i + 1 + n \in 1..Months => DaysBefore[i] + MonthLengths[i] <= DaysBefore[i + 1 + n]}
<1>1. 0 \in Counted
  BY CalendarIs
<1>2. ASSUME NEW n \in Nat, n \in Counted PROVE n + 1 \in Counted
  <2> SUFFICES ASSUME i + 1 + (n + 1) \in 1..Months
               PROVE  DaysBefore[i] + MonthLengths[i] <= DaysBefore[i + 1 + (n + 1)]
    OBVIOUS
  <2> DEFINE k == i + 1 + n
  <2>1. k \in 1..(Months - 1) /\ k \in 1..Months /\ i + 1 + (n + 1) = k + 1
    BY CalendarIs
  <2>2. DaysBefore[i] + MonthLengths[i] <= DaysBefore[k]
    BY <1>2, <2>1
  <2>3. DaysBefore[k + 1] = DaysBefore[k] + MonthLengths[k]
    BY <2>1, CalendarIs
  <2> HIDE DEF k
  <2>4. /\ DaysBefore[i] \in Nat /\ MonthLengths[i] \in Nat /\ DaysBefore[k] \in Nat /\ MonthLengths[k] \in Nat
    BY <2>1, CalendarIs
  <2> QED
    BY <2>1, <2>2, <2>3, <2>4
<1>3. Nat \subseteq Counted
  <2> HIDE DEF Counted
  <2> QED BY <1>1, <1>2, NatSetInduction
<1>4. j - i - 1 \in Nat /\ i + 1 + (j - i - 1) = j
  BY CalendarIs
<1> QED
  BY <1>3, <1>4

\* Every day of the year is in its month.
LEMMA MonthIs ==
  ASSUME NEW n \in 1..YearLength
  PROVE  /\ MonthOf(n) \in 1..Months
         /\ DaysBefore[MonthOf(n)] < n /\ n <= DaysBefore[MonthOf(n)] + MonthLengths[MonthOf(n)]
<1> DEFINE T == {m \in 1..Months : DaysBefore[m] < n}
           k == Max(T)
<1>0. YearLength = DaysBefore[Months] + MonthLengths[Months] /\ Months \in 1..Months /\ 1 \in 1..Months
  BY CalendarIs DEF YearLength, DayOf
<1>n. n \in Nat /\ n >= 1 /\ n <= YearLength
  BY <1>0, CalendarIs
<1>1. k \in T /\ \A j \in T : j <= k
  <2>1. T \subseteq 0..Months
    BY CalendarIs
  <2>2. 1 \in T
    BY <1>0, <1>n, CalendarIs
  <2> HIDE DEF T
  <2> QED
    BY <2>1, <2>2, CalendarIs, LargestOne
<1> HIDE DEF k
<1>2. n <= DaysBefore[k] + MonthLengths[k]
  <2>1. CASE k = Months
    BY <1>0, <1>n, <2>1
  <2>2. CASE k # Months
    <3>1. k \in 1..(Months - 1) /\ k + 1 \in 1..Months /\ ~(k + 1 <= k)
      BY <1>1, <2>2, CalendarIs
    <3>2. ~(DaysBefore[k + 1] < n)
      BY <1>1, <3>1
    <3>3. DaysBefore[k + 1] = DaysBefore[k] + MonthLengths[k] /\ DaysBefore[k + 1] \in Nat
      BY <3>1, CalendarIs
    <3> QED
      BY <1>n, <3>2, <3>3
  <2> QED
    BY <2>1, <2>2
<1> DEFINE In(m) == DayOf(m, 1) <= n /\ n <= DayOf(m, MonthLengths[m])
<1>3. k \in 1..Months /\ In(k)
  BY <1>1, <1>2, <1>n, CalendarIs DEF DayOf
<1>4. MonthOf(n) \in 1..Months /\ In(MonthOf(n))
  <2>1. MonthOf(n) = CHOOSE m \in 1..Months : In(m)
    BY DEF MonthOf
  <2> HIDE DEF In
  <2> QED
    BY <1>3, <2>1, Zenon
<1> HIDE DEF T
<1> QED
  BY <1>4, <1>n, CalendarIs DEF DayOf

\* The smaller of two
LEMMA SmallerOf ==
  ASSUME NEW a \in Nat, NEW b \in Nat
  PROVE  Min({a, b}) \in {a, b} /\ Min({a, b}) <= a /\ Min({a, b}) <= b
<1>1. {a, b} \subseteq Nat /\ {a, b} # {}
  OBVIOUS
<1> QED
  BY <1>1, SmallestOne

\* A close starts in its month.
LEMMA CloseIs ==
  ASSUME NEW m \in 1..Months
  PROVE  CloseOf(m) \in Nat /\ DaysBefore[m] < CloseOf(m) /\ CloseOf(m) <= DaysBefore[m] + MonthLengths[m]
<1> DEFINE at == Min({CloseStartDay, MonthLengths[m]})
<1>1. CloseStartDay \in Nat \ {0} /\ MonthLengths[m] \in Nat \ {0} /\ DaysBefore[m] \in Nat
  BY CalendarAssumption, CalendarIs
<1>2. at \in {CloseStartDay, MonthLengths[m]} /\ at <= MonthLengths[m]
  BY <1>1, SmallerOf
<1>3. CloseOf(m) = DaysBefore[m] + at
  BY DEF CloseOf, DayOf
<1> HIDE DEF at
<1> QED
  BY <1>1, <1>2, <1>3

\* No close lies between a day and the next close start.
LEMMA NearestClose ==
  ASSUME NEW n \in 1..YearLength
  PROVE  /\ NextCloseStart(n) \in Closes /\ NextCloseStart(n) \in Nat /\ n <= NextCloseStart(n)
         /\ Closes \cap (n .. NextCloseStart(n) - 1) = {}
<1> DEFINE k == MonthOf(n)
           next == NextCloseStart(n)
<1>1. k \in 1..Months /\ DaysBefore[k] < n /\ n <= DaysBefore[k] + MonthLengths[k]
  BY MonthIs
<1>2. /\ CloseOf(k) >= n => next = CloseOf(k)
      /\ ~(CloseOf(k) >= n) /\ k < Months => next = CloseOf(k + 1)
      /\ ~(CloseOf(k) >= n) /\ ~(k < Months) => next = YearLength + CloseOf(1)
  BY DEF NextCloseStart
<1>0. Months \in Nat \ {0} /\ YearLength = DaysBefore[Months] + MonthLengths[Months] /\ Months \in 1..Months /\ 1 \in 1..Months
  BY CalendarIs DEF YearLength, DayOf
<1>n. n \in Nat /\ n <= YearLength /\ YearLength \in Nat
  BY <1>0, CalendarIs
<1> HIDE DEF k, next
<1>3. \A m \in 1..Months : CloseOf(m) \in Nat /\ CloseOf(m) <= YearLength
  <2> TAKE m \in 1..Months
  <2>1. CloseOf(m) \in Nat /\ CloseOf(m) <= DaysBefore[m] + MonthLengths[m]
    BY CloseIs
  <2>2. CASE m = Months
    BY <1>0, <2>1, <2>2
  <2>3. CASE m < Months
    <3>1. DaysBefore[m] + MonthLengths[m] <= DaysBefore[Months]
      BY <1>0, <2>3, MonthsInOrder
    <3> QED
      BY <1>0, <2>1, <3>1, CalendarIs
  <2> QED
    BY <1>0, <2>2, <2>3
<1>4. \A i, j \in 1..Months : i < j => CloseOf(i) < CloseOf(j)
  <2> TAKE i, j \in 1..Months
  <2> HAVE i < j
  <2>1. DaysBefore[i] + MonthLengths[i] <= DaysBefore[j]
    BY MonthsInOrder
  <2>2. CloseOf(i) \in Nat /\ CloseOf(i) <= DaysBefore[i] + MonthLengths[i] /\ DaysBefore[j] < CloseOf(j) /\ CloseOf(j) \in Nat
    BY CloseIs
  <2>3. DaysBefore[i] \in Nat /\ MonthLengths[i] \in Nat /\ DaysBefore[j] \in Nat
    BY CalendarIs
  <2> QED
    BY <2>1, <2>2, <2>3
<1>5. \A m \in 1..Months : m < k => CloseOf(m) < n
  <2> TAKE m \in 1..Months
  <2> HAVE m < k
  <2>1. DaysBefore[m] + MonthLengths[m] <= DaysBefore[k] /\ CloseOf(m) <= DaysBefore[m] + MonthLengths[m]
    BY <1>1, MonthsInOrder, CloseIs
  <2>2. DaysBefore[m] \in Nat /\ MonthLengths[m] \in Nat /\ DaysBefore[k] \in Nat /\ CloseOf(m) \in Nat
    BY <1>1, <1>3, CalendarIs
  <2> QED
    BY <1>1, <1>n, <2>1, <2>2
<1>c. \A x \in Closes : (\E m \in 1..Months : x = CloseOf(m)) \/ x = YearLength + CloseOf(1)
  BY DEF Closes
<1>i. (\A m \in 1..Months : CloseOf(m) \in Closes) /\ YearLength + CloseOf(1) \in Closes
  BY DEF Closes
<1>y. YearLength + CloseOf(1) \in Nat /\ YearLength + CloseOf(1) > YearLength
  <2>1. CloseOf(1) \in Nat /\ DaysBefore[1] < CloseOf(1) /\ DaysBefore[1] = 0
    BY <1>0, CloseIs, CalendarIs
  <2> QED
    BY <1>n, <2>1
<1>6. CASE CloseOf(k) >= n
  <2>1. next = CloseOf(k) /\ next \in Nat /\ next \in Closes /\ n <= next
    BY <1>1, <1>2, <1>3, <1>i, <1>6, <1>n
  <2>2. ASSUME NEW x \in Closes, x \in n .. next - 1 PROVE FALSE
    <3>1. CASE x = YearLength + CloseOf(1)
      BY <1>1, <1>3, <1>n, <1>y, <2>1, <2>2, <3>1
    <3>2. CASE \E m \in 1..Months : x = CloseOf(m)
      <4>1. PICK m \in 1..Months : x = CloseOf(m)
        BY <3>2
      <4>2. ~(m < k) /\ ~(m = k) /\ ~(k < m)
        BY <1>1, <1>3, <1>4, <1>5, <1>n, <2>1, <2>2, <4>1
      <4> QED
        BY <1>0, <1>1, <4>2
    <3> QED
      BY <1>c, <3>1, <3>2
  <2> QED
    BY <2>1, <2>2 DEF next
<1>7. CASE ~(CloseOf(k) >= n)
  <2>0. \A m \in 1..Months : ~(k < m) => CloseOf(m) < n
    <3> TAKE m \in 1..Months
    <3> HAVE ~(k < m)
    <3>1. m < k \/ m = k
      BY <1>0, <1>1
    <3> QED
      BY <1>3, <1>5, <1>7, <1>n, <3>1
  <2>1. CASE k < Months
    <3>0. k + 1 \in 1..Months /\ k < k + 1
      BY <1>0, <1>1, <2>1
    <3>1. next = CloseOf(k + 1) /\ next \in Nat /\ next \in Closes
      BY <1>2, <1>3, <1>7, <1>i, <2>1, <3>0
    <3>2. n <= next
      <4>1. DaysBefore[k] + MonthLengths[k] <= DaysBefore[k + 1] /\ DaysBefore[k + 1] < CloseOf(k + 1)
        BY <1>1, <3>0, MonthsInOrder, CloseIs
      <4>2. DaysBefore[k] \in Nat /\ MonthLengths[k] \in Nat /\ DaysBefore[k + 1] \in Nat
        BY <1>1, <3>0, CalendarIs
      <4> QED
        BY <1>1, <1>n, <3>1, <4>1, <4>2
    <3>3. ASSUME NEW x \in Closes, x \in n .. next - 1 PROVE FALSE
      <4>1. CASE x = YearLength + CloseOf(1)
        BY <1>3, <1>n, <1>y, <3>0, <3>1, <3>3, <4>1
      <4>2. CASE \E m \in 1..Months : x = CloseOf(m)
        <5>1. PICK m \in 1..Months : x = CloseOf(m)
          BY <4>2
        <5>2. k < m /\ ~(m = k + 1) /\ ~(k + 1 < m)
          BY <1>3, <1>4, <1>n, <2>0, <3>0, <3>1, <3>3, <5>1
        <5> QED
          BY <1>0, <1>1, <5>2
      <4> QED
        BY <1>c, <4>1, <4>2
    <3> QED
      BY <3>1, <3>2, <3>3 DEF next
  <2>2. CASE ~(k < Months)
    <3>1. next = YearLength + CloseOf(1) /\ next \in Nat /\ next \in Closes /\ n <= next
      BY <1>2, <1>7, <1>i, <1>n, <1>y, <2>2
    <3>2. ASSUME NEW x \in Closes, x \in n .. next - 1 PROVE FALSE
      <4>1. PICK m \in 1..Months : x = CloseOf(m)
        BY <1>c, <1>y, <3>1, <3>2
      <4>2. ~(k < m)
        BY <1>0, <1>1, <2>2
      <4> QED
        BY <1>3, <1>n, <2>0, <3>2, <4>1, <4>2
    <3> QED
      BY <3>1, <3>2 DEF next
  <2> QED
    BY <2>1, <2>2
<1> QED
  BY <1>6, <1>7

-----------------------------------------------------------------------------
\* The days that the real dates among some pairs are
DatesIn(S) == {DayOf(md[1], md[2]) : md \in {x \in S : IsRealDate(x[1], x[2])}}

\* If one pair is a real date, there is one day.
LEMMA OneOfThem ==
  ASSUME NEW S, NEW y \in S, IsRealDate(y[1], y[2]), \A x \in S : x # y => ~IsRealDate(x[1], x[2])
  PROVE  DatesIn(S) = {DayOf(y[1], y[2])}
<1>1. {x \in S : IsRealDate(x[1], x[2])} = {y}
  OBVIOUS
<1> QED
  BY <1>1 DEF DatesIn

\* A pair that is a real date is one, in whichever order it is read.
LEMMA OneDate ==
  ASSUME NEW m, NEW d, IsRealDate(m, d)
  PROVE  /\ DatesIn({<<m, d>>}) = {DayOf(m, d)}
         /\ ~IsRealDate(d, m) =>
              DatesIn({<<m, d>>, <<d, m>>}) = {DayOf(m, d)} /\ DatesIn({<<d, m>>, <<m, d>>}) = {DayOf(m, d)}
<1> DEFINE y == <<m, d>>
           z == <<d, m>>
<1>1. y[1] = m /\ y[2] = d /\ z[1] = d /\ z[2] = m
  OBVIOUS
<1> HIDE DEF y, z
<1>2. DatesIn({y}) = {DayOf(y[1], y[2])}
  <2>1. y \in {y} /\ IsRealDate(y[1], y[2]) /\ \A x \in {y} : x # y => ~IsRealDate(x[1], x[2])
    BY <1>1
  <2> QED
    BY <2>1, OneOfThem, Zenon
<1>3. ASSUME ~IsRealDate(d, m), NEW S \in {{y, z}, {z, y}}
      PROVE  DatesIn(S) = {DayOf(y[1], y[2])}
  <2>1. y \in S /\ IsRealDate(y[1], y[2]) /\ \A x \in S : x # y => ~IsRealDate(x[1], x[2])
    BY <1>1, <1>3
  <2> QED
    BY <2>1, OneOfThem, Zenon
<1> QED
  BY <1>1, <1>2, <1>3 DEF y, z

\* A date that is used is the one its label can mean.
LEMMA UsableIsCertain ==
  ASSUME NEW l \in Labels, UsableDate(l) # None
  PROVE  DatesOf(l) = {UsableDate(l)}
<1>0. l.a \in Nat /\ l.b \in Nat /\ Months \in Nat
  BY LabelsAssumption, CalendarIs
<1>1. ExtractDate(l).confidence >= 60 /\ UsableDate(l) = ExtractDate(l).date
  BY DEF UsableDate, ConfidenceFloor
<1>2. ExtractDate(l) # Unread
  BY <1>1 DEF Unread
<1>3. CASE l.form = "year_first"
  <2>1. IsRealDate(l.a, l.b) /\ ExtractDate(l).date = DayOf(l.a, l.b)
    BY <1>2, <1>3 DEF ExtractDate
  <2>2. DatesOf(l) = DatesIn({<<l.a, l.b>>})
    BY <1>3 DEF DatesOf, DatesIn
  <2>3. DatesIn({<<l.a, l.b>>}) = {DayOf(l.a, l.b)}
    BY <2>1, OneDate
  <2> QED
    BY <1>1, <2>1, <2>2, <2>3, Zenon
<1>4. CASE l.form = "named"
  <2>1. IsRealDate(l.b, l.a) /\ ExtractDate(l).date = DayOf(l.b, l.a)
    BY <1>2, <1>4 DEF ExtractDate
  <2>2. DatesOf(l) = DatesIn({<<l.b, l.a>>})
    BY <1>4 DEF DatesOf, DatesIn
  <2>3. DatesIn({<<l.b, l.a>>}) = {DayOf(l.b, l.a)}
    BY <2>1, OneDate
  <2> QED
    BY <1>1, <2>1, <2>2, <2>3, Zenon
<1>5. CASE l.form = "numeric"
  <2>1. ExtractDate(l) = NumericRead(l)
    BY <1>5 DEF ExtractDate
  <2>2. DatesOf(l) = DatesIn({<<l.a, l.b>>, <<l.b, l.a>>})
    BY <1>5 DEF DatesOf, DatesIn
  <2> DEFINE aIsDay == l.a > Months /\ l.b <= Months
             bIsDay == l.b > Months /\ l.a <= Months
  <2>3. aIsDay \/ bIsDay
    BY <1>1, <2>1 DEF NumericRead, Unread
  <2>4. CASE aIsDay
    <3>1. IsRealDate(l.b, l.a) /\ NumericRead(l).date = DayOf(l.b, l.a)
      BY <1>0, <1>2, <2>1, <2>4 DEF NumericRead
    <3>2. ~IsRealDate(l.a, l.b)
      BY <1>0, <2>4 DEF IsRealDate
    <3>3. DatesIn({<<l.a, l.b>>, <<l.b, l.a>>}) = {DayOf(l.b, l.a)}
      BY <3>1, <3>2, OneDate
    <3> QED
      BY <1>1, <2>1, <2>2, <3>1, <3>3, Zenon
  <2>5. CASE bIsDay
    <3>1. IsRealDate(l.a, l.b) /\ NumericRead(l).date = DayOf(l.a, l.b)
      BY <1>0, <1>2, <2>1, <2>5 DEF NumericRead
    <3>2. ~IsRealDate(l.b, l.a)
      BY <1>0, <2>5 DEF IsRealDate
    <3>3. DatesIn({<<l.a, l.b>>, <<l.b, l.a>>}) = {DayOf(l.a, l.b)}
      BY <3>1, <3>2, OneDate
    <3> QED
      BY <1>1, <2>1, <2>2, <3>1, <3>3, Zenon
  <2> QED
    BY <2>3, <2>4, <2>5
<1>6. CASE l.form \notin {"year_first", "named", "numeric"}
  BY <1>2, <1>6 DEF ExtractDate
<1> QED
  BY <1>3, <1>4, <1>5, <1>6

-----------------------------------------------------------------------------
Period == [start : Day, end : Day]
Covers(period, n) == None \notin {period.start, period.end} /\ period.start <= n /\ n <= period.end

\* The first quiet period that covers a day is found if there is one.
LEMMA QuietIs ==
  ASSUME NEW n \in Nat, NEW periods \in Seq(Period)
  PROVE  LET q == ActiveQuietPeriod(n, periods)
         IN  /\ q = None => \A k \in DOMAIN periods : ~Covers(periods[k], n)
             /\ q # None => QuietPeriodRelease(q) # None
<1> DEFINE hit == {k \in DOMAIN periods : Covers(periods[k], n)}
           q == ActiveQuietPeriod(n, periods)
<1>1. q = IF hit = {} THEN None ELSE periods[Min(hit)]
  BY DEF ActiveQuietPeriod, Covers
<1>2. \A k \in DOMAIN periods : k \in Nat /\ periods[k] \in Period
  BY LenProperties, Elements
<1>3. None \notin Period /\ None \notin Nat
  BY PacksAssumption, CalendarAssumption DEF Period
<1> HIDE DEF q
<1>4. CASE hit = {}
  <2>1. q = None /\ \A k \in DOMAIN periods : ~Covers(periods[k], n)
    BY <1>1, <1>4
  <2> QED
    BY <2>1 DEF q
<1>5. CASE hit # {}
  <2>1. hit \subseteq Nat
    BY <1>2
  <2>2. Min(hit) \in hit
    BY <1>5, <2>1, SmallestOne
  <2>3. q = periods[Min(hit)] /\ q \in Period /\ q # None /\ q.end # None
    BY <1>1, <1>2, <1>3, <1>5, <2>2 DEF Covers
  <2>4. QuietPeriodRelease(q) \in Nat
    BY <2>3 DEF QuietPeriodRelease, Period, Day
  <2> QED
    BY <1>3, <2>3, <2>4 DEF q
<1> QED
  BY <1>4, <1>5 DEF q

-----------------------------------------------------------------------------
\* What a pattern's answers left in its entry
EntryStatuses == {"new", "accepted", "snoozed", "dismissed", "never"}
EntryType ==
  [status : EntryStatuses, dismissed : (0..MaxToday) \cup {None}, snoozed : (0..(MaxToday + SnoozeDays)) \cup {None}]
ReplyType == [pattern : Tracked, word : Replies, day : 1..MaxToday]

ProactiveTypeOK ==
  /\ rule \in PackRules /\ ceiling \in Autonomies \cup {None} /\ today \in 1..MaxToday
  /\ read \subseteq Labels /\ proven \subseteq Tracked /\ ripe \subseteq Tracked
  /\ entries \in [Tracked -> EntryType] /\ replied \in Seq(ReplyType)

\* A pattern is not shown again after a dismissal, so only a dismissed or refused one has a day of dismissal, and
\* one that is snoozed has the day of a snooze the user asked for.
EntriesInv ==
  \A p \in Tracked :
    /\ entries[p].status \in {"new", "accepted", "snoozed"} => entries[p].dismissed = None
    /\ entries[p].status = "snoozed" => entries[p].snoozed # None
    /\ entries[p].snoozed # None => \E d \in SaidOf(p, "snoozed") : entries[p].snoozed = d + SnoozeDays

\* Any word but "snoozed" is the last one said of its pattern.
LastWordInv == \A i \in DOMAIN replied : replied[i].word # "snoozed" => entries[replied[i].pattern].status = replied[i].word

\* A snooze that was asked for is the pattern's entry, or an answer that came later is: another snooze, a dismissal
\* once it was over, an acceptance, or a refusal for good.
Outlived(p, d) ==
  /\ entries[p].status # "new"
  /\ entries[p].status = "snoozed" => entries[p].snoozed >= d + SnoozeDays
  /\ entries[p].status = "dismissed" => entries[p].dismissed # None /\ entries[p].dismissed >= d + SnoozeDays
  /\ entries[p].status = "accepted" => \E a \in SaidOf(p, "accepted") : a >= d
SnoozeInv == \A p \in Tracked : \A d \in SaidOf(p, "snoozed") : Outlived(p, d)

ProactiveInv == ProactiveTypeOK /\ EntriesInv /\ LastWordInv /\ SnoozeInv

\* The days of the year are numbers.
LEMMA DaysAre ==
  ASSUME ProactiveTypeOK
  PROVE  /\ today \in Nat /\ today \in 1..YearLength /\ MaxToday \in Nat /\ SnoozeDays \in Nat /\ None \notin Nat
         /\ \A p \in Tracked, answer \in Replies : \A d \in SaidOf(p, answer) : d \in Nat /\ d >= 1
         /\ \A k \in DOMAIN Ladder : Ladder[k] \in Nat
<1>1. MaxToday \in Nat /\ MaxToday <= YearLength /\ SnoozeDays \in Nat /\ None \notin Nat /\ Ladder \in Seq(Nat)
  BY CalendarAssumption, YearAssumption
<1>2. YearLength \in Nat
  BY CalendarIs DEF YearLength, DayOf
<1>3. today \in Nat /\ today \in 1..YearLength
  BY <1>1, <1>2 DEF ProactiveTypeOK
<1>4. \A i \in DOMAIN replied : replied[i].day \in 1..MaxToday
  <2>1. \A i \in DOMAIN replied : replied[i] \in ReplyType
    BY Elements DEF ProactiveTypeOK
  <2> QED
    BY <2>1 DEF ReplyType
<1>5. \A p \in Tracked, answer \in Replies : \A d \in SaidOf(p, answer) : d \in Nat /\ d >= 1
  BY <1>1, <1>4 DEF SaidOf
<1>6. \A k \in DOMAIN Ladder : Ladder[k] \in Nat
  BY <1>1, Elements
<1> QED
  BY <1>1, <1>3, <1>5, <1>6

\* While the ladder is open and nothing was accepted since, the snooze of an item is over, and so is a rung.
LEMMA LadderWaits ==
  ASSUME ProactiveInv, EvaluateDismissal = "open", Ladder # <<>>
  PROVE  \A p \in ItemPatterns : \A d \in SaidOf(p, "snoozed") :
           AcceptedSince(d) \/ \E k \in DOMAIN Ladder : today >= d + SnoozeDays + Ladder[k]
<1> SUFFICES ASSUME NEW p \in ItemPatterns, NEW d \in SaidOf(p, "snoozed"), ~AcceptedSince(d)
             PROVE  \E k \in DOMAIN Ladder : today >= d + SnoozeDays + Ladder[k]
  OBVIOUS
<1>p. p \in Tracked /\ entries[p].status # "never"
  BY DEF ItemPatterns, ProactiveInv, ProactiveTypeOK
<1>0. /\ today \in Nat /\ MaxToday \in Nat /\ SnoozeDays \in Nat /\ None \notin Nat /\ d \in Nat /\ d >= 1
      /\ \A k \in DOMAIN Ladder : Ladder[k] \in Nat
  BY <1>p, DaysAre DEF ProactiveInv, Replies
<1>e. \A q \in Tracked : entries[q] \in EntryType
  BY DEF ProactiveInv, ProactiveTypeOK
<1>1. Outlived(p, d) /\ (entries[p].status = "snoozed" => entries[p].snoozed # None /\ entries[p].dismissed = None)
  BY <1>p DEF ProactiveInv, SnoozeInv, EntriesInv
<1> DEFINE bound == MaxToday + SnoozeDays
           At(q) == DecidedAt(entries[q])
           accepted == {At(q) : q \in {x \in Decided : entries[x].status = "accepted"}}
           since == {q \in Decided : accepted = {} \/ At(q) > Max(accepted)}
           notNows == {q \in since : entries[q].status \in {"snoozed", "dismissed"}}
           times == {At(q) : q \in notNows}
           last == Max(times)
           rung == Min({Cardinality(notNows), Len(Ladder)})
<1>2. notNows = {} \/ today >= last + Ladder[rung]
  BY DEF EvaluateDismissal
<1>3. p \in Decided /\ entries[p].status \in {"snoozed", "dismissed"} /\ At(p) >= d + SnoozeDays
  <2>1. entries[p].status # "accepted"
    BY <1>1, <1>p DEF Outlived, AcceptedSince
  <2>2. entries[p].status \in {"snoozed", "dismissed"}
    BY <1>1, <1>e, <1>p, <2>1 DEF Outlived, EntryType, EntryStatuses
  <2>3. CASE entries[p].status = "snoozed"
    BY <1>1, <2>3 DEF Decided, DecidedAt, Outlived
  <2>4. CASE entries[p].status = "dismissed"
    BY <1>1, <2>4 DEF Decided, DecidedAt, Outlived
  <2> QED
    BY <2>2, <2>3, <2>4
<1>4. Decided \subseteq Tracked
  BY DEF Decided, ItemPatterns, ProactiveInv, ProactiveTypeOK
<1>5. \A q \in Tracked : At(q) \in 0..bound
  <2> TAKE q \in Tracked
  <2>1. /\ entries[q].dismissed \in (0..MaxToday) \cup {None} /\ entries[q].snoozed \in (0..bound) \cup {None}
    BY <1>e DEF EntryType
  <2>2. At(q) \in {entries[q].dismissed, entries[q].snoozed, 0} /\ At(q) # None
    BY <1>0 DEF DecidedAt
  <2> QED
    BY <1>0, <2>1, <2>2
<1> HIDE DEF At
<1>a. At(p) \in Nat
  BY <1>0, <1>5, <1>p
<1>6. accepted \subseteq 0..bound /\ bound \in Nat
  BY <1>0, <1>4, <1>5
<1>7. CASE accepted = {} \/ At(p) > Max(accepted)
  <2>1. p \in notNows
    BY <1>3, <1>7
  <2> HIDE DEF accepted
  <2>2. notNows \subseteq Tracked
    BY <1>4
  <2> HIDE DEF since
  <2>3. IsFiniteSet(notNows) /\ Cardinality(notNows) \in Nat /\ Cardinality(notNows) # 0
    BY <2>1, <2>2, CalendarAssumption, FS_Subset, FS_CardinalityType, FS_EmptySet
  <2>4. times \subseteq 0..bound /\ At(p) \in times
    BY <1>5, <2>1, <2>2
  <2> HIDE DEF notNows
  <2>5. last \in Nat /\ At(p) <= last
    <3> HIDE DEF times, bound
    <3>1. times # {} /\ times \subseteq 0..bound /\ bound \in Nat
      BY <1>6, <2>4
    <3>2. last \in times /\ \A j \in times : j <= last
      BY <3>1, LargestOne
    <3>3. At(p) <= last
      BY <2>4, <3>2, Zenon
    <3>4. last \in 0..bound
      BY <3>1, <3>2, Zenon
    <3> HIDE DEF last
    <3>5. last \in Nat
      BY <3>1, <3>4
    <3> QED
      BY <3>3, <3>5
  <2>6. Len(Ladder) \in Nat /\ Len(Ladder) # 0 /\ DOMAIN Ladder = 1..Len(Ladder)
    BY CalendarAssumption, EmptySeq, LenProperties
  <2>7. rung \in DOMAIN Ladder
    <3> DEFINE a == Cardinality(notNows)
               b == Len(Ladder)
    <3>1. Min({a, b}) \in {a, b} /\ Min({a, b}) <= a /\ Min({a, b}) <= b
      BY <2>3, <2>6, SmallerOf
    <3> QED
      BY <2>3, <2>6, <3>1
  <2> HIDE DEF last, rung
  <2>8. today >= last + Ladder[rung]
    BY <1>2, <2>1
  <2>9. today >= d + SnoozeDays + Ladder[rung]
    BY <1>0, <1>3, <1>a, <2>5, <2>7, <2>8
  <2> QED
    BY <2>7, <2>9
\* An answer the ladder leaves out is older than the clock of something that was accepted after it.
<1>8. CASE accepted # {} /\ ~(At(p) > Max(accepted))
  <2> DEFINE m == Max(accepted)
  <2>1. m \in accepted /\ m \in Nat /\ m >= d + SnoozeDays
    <3> HIDE DEF accepted, bound
    <3>1. m \in accepted
      BY <1>6, <1>8, LargestOne
    <3>3. ~(At(p) > m)
      BY <1>8
    <3> HIDE DEF m
    <3>2. m \in Nat
      BY <1>6, <3>1
    <3> QED
      BY <1>0, <1>3, <1>a, <3>1, <3>2, <3>3
  <2> HIDE DEF m
  <2>2. PICK q \in Decided : entries[q].status = "accepted" /\ m = At(q)
    BY <2>1
  <2>3. q \in Tracked /\ entries[q].dismissed = None
    BY <1>4, <2>2 DEF ProactiveInv, EntriesInv
  <2>4. entries[q].snoozed # None /\ m = entries[q].snoozed
    BY <1>0, <2>1, <2>2, <2>3 DEF At, DecidedAt
  <2>5. PICK e \in SaidOf(q, "snoozed") : entries[q].snoozed = e + SnoozeDays
    BY <2>3, <2>4 DEF ProactiveInv, EntriesInv
  <2>6. PICK a \in SaidOf(q, "accepted") : a >= e
    BY <2>2, <2>3, <2>5 DEF ProactiveInv, SnoozeInv, Outlived
  <2>7. e \in Nat /\ a \in Nat
    BY <2>3, <2>5, <2>6, DaysAre DEF ProactiveInv, Replies
  <2>8. a >= d
    BY <1>0, <2>1, <2>4, <2>5, <2>6, <2>7
  <2> QED
    BY <2>3, <2>6, <2>8 DEF AcceptedSince
<1> QED
  BY <1>7, <1>8

-----------------------------------------------------------------------------
\* A date counted down to is ahead, and what some label that was read says and can only say.
LEMMA WatchedIs ==
  ASSUME ProactiveTypeOK, NearestWatchedDate # None
  PROVE  /\ NearestWatchedDate \in Nat /\ today <= NearestWatchedDate
         /\ \E l \in read : DatesOf(l) = {NearestWatchedDate}
<1> DEFINE ahead == {d \in WatchedDates : d >= today}
<1>1. ahead # {} /\ NearestWatchedDate = Min(ahead)
  BY DEF NearestWatchedDate
<1>2. \A l \in read : UsableDate(l) # None => DatesOf(l) = {UsableDate(l)}
  BY UsableIsCertain DEF ProactiveTypeOK
<1>3. \A m, d : IsRealDate(m, d) => DayOf(m, d) \in Nat
  <2> SUFFICES ASSUME NEW m, NEW d, IsRealDate(m, d) PROVE DayOf(m, d) \in Nat
    OBVIOUS
  <2>1. m \in 1..Months /\ d \in 1..MonthLengths[m]
    BY DEF IsRealDate
  <2> QED
    BY <2>1, CalendarIs DEF DayOf
<1>4. \A l, x : x \in DatesOf(l) => x \in Nat
  BY <1>3 DEF DatesOf
<1>5. \A x \in WatchedDates : x \in Nat /\ \E l \in read : DatesOf(l) = {x}
  BY <1>2, <1>4 DEF WatchedDates
<1>6. ahead \subseteq Nat
  BY <1>5
<1>7. Min(ahead) \in ahead
  <2> HIDE DEF ahead
  <2> QED BY <1>1, <1>6, SmallestOne
<1>8. today \in Nat
  BY DaysAre
<1> QED
  BY <1>1, <1>5, <1>7, <1>8

\* The pattern a card is of is listed.
LEMMA LeadIs ==
  ASSUME ListedPatterns # {}
  PROVE  LeadPattern \in ListedPatterns
<1>1. LeadsFrom # {} /\ LeadsFrom \subseteq ListedPatterns
  BY DEF LeadsFrom, ListedPatterns
<1> QED
  BY <1>1 DEF LeadPattern

\* What a card shows
LEMMA CardIs ==
  ASSUME NEW c \in ShownCards
  PROVE  /\ ListedPatterns # {} /\ EvaluateDismissal = "open" /\ ReleaseDay = None
         /\ entries[c.pattern].status \notin {"accepted", "dismissed"}
         /\ entries[c.pattern].snoozed # None => today >= entries[c.pattern].snoozed
         /\ \E t \in TimingFor : /\ c.pattern = LeadPattern /\ c.surface = t.surface /\ c.reference = t.reference
                                 /\ c.copy = RenderCopy(t) /\ c.ceiling = CardCeiling
<1>1. c \in EvaluateProactivity /\ c.queued = None
  BY DEF ShownCards
<1>2. ListedPatterns # {} /\ EvaluateDismissal = "open"
  BY <1>1 DEF EvaluateProactivity
<1>3. PICK t \in TimingFor :
         c = [pattern |-> LeadPattern, surface |-> t.surface, reference |-> t.reference, copy |-> RenderCopy(t),
              ceiling |-> CardCeiling, queued |-> ReleaseDay,
              phase |-> CadencePhase(today, IF rule.cadence = "fiscal_monthly" THEN rule.lead ELSE 0)]
  BY <1>1, <1>2, Zenon DEF EvaluateProactivity
<1>4. /\ c.pattern = LeadPattern /\ c.surface = t.surface /\ c.reference = t.reference
      /\ c.copy = RenderCopy(t) /\ c.ceiling = CardCeiling /\ c.queued = ReleaseDay
  BY <1>3, Zenon
<1> QED
  BY <1>1, <1>2, <1>4 DEF ShownCards

\* Why a timing is due
LEMMA TimingIs ==
  ASSUME ProactiveTypeOK, NEW t \in TimingFor
  PROVE  /\ t.surface = "pre_close" =>
              t.reference = NextCloseStart(today) /\ rule.lead # None /\ NextCloseStart(today) - today <= rule.lead
         /\ t.surface = "on_trigger" =>
              /\ t.reference # None /\ t.reference = NearestWatchedDate
              /\ rule.lead # None /\ NearestWatchedDate - today <= rule.lead
         /\ t.surface = "after_verification" => LeadPattern \in proven
<1>0. rule.cadence \in Cadences
  BY PacksAssumption DEF ProactiveTypeOK
<1>1. CASE rule.cadence = "fiscal_monthly"
  <2>1. /\ rule.fiscal /\ rule.lead # None /\ NextCloseStart(today) - today <= rule.lead
        /\ t \in DueOn("pre_close", NextCloseStart(today))
    BY <1>1 DEF TimingFor
  <2>2. t.surface = "pre_close" /\ t.reference = NextCloseStart(today)
    BY <2>1 DEF DueOn
  <2> QED
    BY <2>1, <2>2
<1>2. CASE rule.cadence = "date_driven"
  <2>1. PICK d \in {NearestWatchedDate} \ {None} : rule.lead # None /\ d - today <= rule.lead /\ t \in DueOn("on_trigger", d)
    BY <1>2 DEF TimingFor
  <2>2. t.surface = "on_trigger" /\ t.reference = d
    BY <2>1 DEF DueOn
  <2> QED
    BY <2>1, <2>2
<1>3. CASE rule.cadence = "weekly"
  <2>1. t \in DueOn("same_weekday_observed", today)
    BY <1>3 DEF TimingFor
  <2>2. t.surface = "same_weekday_observed"
    BY <2>1 DEF DueOn
  <2> QED
    BY <2>2
<1>4. CASE rule.cadence = "continuous"
  <2>1. LeadPattern \in proven /\ t \in DueOn("after_verification", None)
    BY <1>4 DEF TimingFor
  <2>2. t.surface = "after_verification"
    BY <2>1 DEF DueOn
  <2> QED
    BY <2>1, <2>2
<1> QED
  BY <1>0, <1>1, <1>2, <1>3, <1>4 DEF Cadences

\* A card that waits for no release is of a day in no quiet period.
LEMMA NotQuiet ==
  ASSUME ProactiveTypeOK, ReleaseDay = None
  PROVE  \A periods \in {UserQuiet, rule.quiet} : \A k \in DOMAIN periods : ~Covers(periods[k], today)
<1>1. today \in Nat
  BY DaysAre
<1>2. UserQuiet \in Seq(Period) /\ rule.quiet \in Seq(Period)
  BY PacksAssumption DEF ProactiveTypeOK, Period
<1> DEFINE users == ActiveQuietPeriod(today, UserQuiet)
           packs == ActiveQuietPeriod(today, rule.quiet)
           active == IF users # None THEN users ELSE packs
<1>3. ReleaseDay = IF active = None THEN None ELSE QuietPeriodRelease(active)
  BY Zenon DEF ReleaseDay
<1>4. /\ users = None => \A k \in DOMAIN UserQuiet : ~Covers(UserQuiet[k], today)
      /\ users # None => QuietPeriodRelease(users) # None
  BY <1>1, <1>2, QuietIs, Zenon
<1>5. /\ packs = None => \A k \in DOMAIN rule.quiet : ~Covers(rule.quiet[k], today)
      /\ packs # None => QuietPeriodRelease(packs) # None
  BY <1>1, <1>2, QuietIs, Zenon
<1> HIDE DEF users, packs
<1>6. users = None /\ packs = None
  BY <1>3, <1>4, <1>5
<1> QED
  BY <1>4, <1>5, <1>6

\* The card's ceiling is below both.
LEMMA CeilingIs ==
  ASSUME ProactiveTypeOK
  PROVE  /\ ceiling # None => CardCeiling # None /\ CardCeiling <= ceiling
         /\ rule.ceiling # None => CardCeiling # None /\ CardCeiling <= rule.ceiling
<1>1. None \notin Nat /\ ceiling \in Nat \cup {None} /\ rule.ceiling \in Nat \cup {None}
  BY CalendarAssumption, PacksAssumption DEF ProactiveTypeOK, Day
<1>2. CASE rule.ceiling = None
  BY <1>1, <1>2 DEF CardCeiling
<1>3. CASE rule.ceiling # None /\ ceiling = None
  BY <1>1, <1>3 DEF CardCeiling
<1>4. CASE rule.ceiling # None /\ ceiling # None
  <2>1. CardCeiling = LowerCeiling(ceiling, rule.ceiling)
    BY <1>4 DEF CardCeiling
  <2> QED
    BY <1>1, <1>4, <2>1 DEF LowerCeiling
<1> QED
  BY <1>2, <1>3, <1>4

\* The invariant says what the run checks.
LEMMA CardsTimely == ProactiveInv => CardsAreTimely
<1> SUFFICES ASSUME ProactiveInv, NEW c \in ShownCards
             PROVE  /\ \A periods \in {UserQuiet, rule.quiet} : \A k \in DOMAIN periods :
                         None \in {periods[k].start, periods[k].end} \/ today \notin periods[k].start .. periods[k].end
                    /\ c.surface = "pre_close" =>
                         c.reference \in Closes /\ c.reference \in today .. today + rule.lead
                           /\ Closes \cap (today .. c.reference - 1) = {}
                    /\ c.surface = "on_trigger" =>
                         c.reference \in today .. today + rule.lead /\ \E l \in read : DatesOf(l) = {c.reference}
                    /\ (c.surface = "after_verification" \/ (c.copy # None /\ "runs_matched" \in c.copy)) => c.pattern \in proven
                    /\ (ceiling # None => c.ceiling # None /\ c.ceiling <= ceiling)
                    /\ (rule.ceiling # None => c.ceiling # None /\ c.ceiling <= rule.ceiling)
                    /\ \A answer \in {"dismissed", "never", "accepted"} : SaidOf(c.pattern, answer) = {}
                    /\ \A d \in SaidOf(c.pattern, "snoozed") : today >= d + SnoozeDays
                    /\ Ladder # <<>> =>
                         \A p \in ItemPatterns : \A d \in SaidOf(p, "snoozed") :
                           AcceptedSince(d) \/ \E k \in DOMAIN Ladder : today >= d + SnoozeDays + Ladder[k]
  BY Zenon DEF CardsAreTimely
<1>0. ProactiveTypeOK
  BY DEF ProactiveInv
<1>t. today \in Nat /\ today \in 1..YearLength /\ None \notin Nat
  BY <1>0, DaysAre
<1>l. rule.lead \in Nat \cup {None}
  BY <1>0, PacksAssumption DEF ProactiveTypeOK, Day
<1>1. /\ ListedPatterns # {} /\ EvaluateDismissal = "open" /\ ReleaseDay = None
      /\ entries[c.pattern].status \notin {"accepted", "dismissed"}
      /\ entries[c.pattern].snoozed # None => today >= entries[c.pattern].snoozed
  BY CardIs
<1>2. PICK t \in TimingFor : /\ c.pattern = LeadPattern /\ c.surface = t.surface /\ c.reference = t.reference
                             /\ c.copy = RenderCopy(t) /\ c.ceiling = CardCeiling
  BY CardIs, Zenon
<1>3. c.pattern \in ListedPatterns /\ c.pattern \in Tracked /\ entries[c.pattern].status # "never"
  <2>1. c.pattern \in ListedPatterns
    BY <1>1, <1>2, LeadIs
  <2> QED
    BY <1>0, <2>1 DEF ListedPatterns, ItemPatterns, FormingPatterns, ProactiveTypeOK
<1>4. \A periods \in {UserQuiet, rule.quiet} : \A k \in DOMAIN periods :
        None \in {periods[k].start, periods[k].end} \/ today \notin periods[k].start .. periods[k].end
  <2> SUFFICES ASSUME NEW periods \in {UserQuiet, rule.quiet}, NEW k \in DOMAIN periods,
                      None \notin {periods[k].start, periods[k].end}
               PROVE  today \notin periods[k].start .. periods[k].end
    OBVIOUS
  <2>1. ~Covers(periods[k], today)
    BY <1>0, <1>1, NotQuiet
  <2>2. periods \in Seq(Period)
    BY <1>0, PacksAssumption DEF ProactiveTypeOK, Period
  <2>3. periods[k] \in Period
    BY <2>2, Elements
  <2>4. periods[k].start \in Nat /\ periods[k].end \in Nat
    BY <2>3 DEF Period, Day
  <2> QED
    BY <2>1, <2>4 DEF Covers
<1>5. c.surface = "pre_close" =>
        c.reference \in Closes /\ c.reference \in today .. today + rule.lead /\ Closes \cap (today .. c.reference - 1) = {}
  <2> HAVE c.surface = "pre_close"
  <2>1. c.reference = NextCloseStart(today) /\ rule.lead # None /\ NextCloseStart(today) - today <= rule.lead
    BY <1>0, <1>2, TimingIs
  <2>2. /\ NextCloseStart(today) \in Closes /\ NextCloseStart(today) \in Nat /\ today <= NextCloseStart(today)
        /\ Closes \cap (today .. NextCloseStart(today) - 1) = {}
    BY <1>t, NearestClose
  <2>3. NextCloseStart(today) \in today .. today + rule.lead
    BY <1>l, <1>t, <2>1, <2>2
  <2> QED
    BY <2>1, <2>2, <2>3, Zenon
<1>6. c.surface = "on_trigger" =>
        c.reference \in today .. today + rule.lead /\ \E l \in read : DatesOf(l) = {c.reference}
  <2> HAVE c.surface = "on_trigger"
  <2>1. /\ c.reference # None /\ c.reference = NearestWatchedDate
        /\ rule.lead # None /\ NearestWatchedDate - today <= rule.lead
    BY <1>0, <1>2, TimingIs
  <2>2. /\ NearestWatchedDate \in Nat /\ today <= NearestWatchedDate
        /\ \E l \in read : DatesOf(l) = {NearestWatchedDate}
    BY <1>0, <2>1, WatchedIs
  <2>3. NearestWatchedDate \in today .. today + rule.lead
    BY <1>l, <1>t, <2>1, <2>2
  <2> QED
    BY <2>1, <2>2, <2>3, Zenon
<1>7. (c.surface = "after_verification" \/ (c.copy # None /\ "runs_matched" \in c.copy)) => c.pattern \in proven
  <2>1. ASSUME c.surface = "after_verification" PROVE c.pattern \in proven
    BY <1>0, <1>2, <2>1, TimingIs
  <2>2. ASSUME c.copy # None, "runs_matched" \in c.copy PROVE c.pattern \in proven
    <3>1. c.copy = rule.wants /\ rule.wants \subseteq Known(t)
      BY <1>2, <2>2 DEF RenderCopy
    <3>2. "runs_matched" \in Known(t)
      BY <2>2, <3>1
    <3> QED
      BY <1>2, <3>2 DEF Known
  <2> QED
    BY <2>1, <2>2
<1>8. /\ ceiling # None => c.ceiling # None /\ c.ceiling <= ceiling
      /\ rule.ceiling # None => c.ceiling # None /\ c.ceiling <= rule.ceiling
  BY <1>0, <1>2, CeilingIs, Zenon
<1>9. \A answer \in {"dismissed", "never", "accepted"} : SaidOf(c.pattern, answer) = {}
  <2> SUFFICES ASSUME NEW answer \in {"dismissed", "never", "accepted"}, NEW d \in SaidOf(c.pattern, answer) PROVE FALSE
    OBVIOUS
  <2>1. PICK i \in DOMAIN replied : replied[i].pattern = c.pattern /\ replied[i].word = answer
    BY DEF SaidOf
  <2>2. entries[c.pattern].status = answer
    BY <2>1 DEF ProactiveInv, LastWordInv
  <2> QED
    BY <1>1, <1>3, <2>2
<1>10. \A d \in SaidOf(c.pattern, "snoozed") : today >= d + SnoozeDays
  <2> TAKE d \in SaidOf(c.pattern, "snoozed")
  <2>1. Outlived(c.pattern, d) /\ entries[c.pattern] \in EntryType
    BY <1>0, <1>3 DEF ProactiveInv, SnoozeInv, ProactiveTypeOK
  <2>2. entries[c.pattern].status = "snoozed"
    BY <1>1, <1>3, <2>1 DEF Outlived, EntryType, EntryStatuses
  <2>3. entries[c.pattern].snoozed # None
    BY <1>3, <2>2 DEF ProactiveInv, EntriesInv
  <2>4. entries[c.pattern].snoozed \in Nat
    <3>1. \A n \in 0..(MaxToday + SnoozeDays) : n \in Nat
      OBVIOUS
    <3> QED
      BY <2>1, <2>3, <3>1 DEF EntryType
  <2>5. d + SnoozeDays \in Nat
    BY <1>0, <1>3, DaysAre DEF Replies
  <2> QED
    BY <1>1, <1>t, <2>1, <2>2, <2>3, <2>4, <2>5 DEF Outlived
<1>11. Ladder # <<>> =>
         \A p \in ItemPatterns : \A d \in SaidOf(p, "snoozed") :
           AcceptedSince(d) \/ \E k \in DOMAIN Ladder : today >= d + SnoozeDays + Ladder[k]
  BY <1>1, LadderWaits
<1> QED
  BY <1>4, <1>5, <1>6, <1>7, <1>8, <1>9, <1>10, <1>11, Zenon

-----------------------------------------------------------------------------
\* What is said stays said.
LEMMA SaidStays ==
  ASSUME UNCHANGED replied
  PROVE  \A p, answer : SaidOf(p, answer)' = SaidOf(p, answer)
BY DEF SaidOf

\* A day that passes, a label that is read, evidence that clears and a pattern that ripens leave the answers alone.
LEMMA WorldKeeps ==
  ASSUME ProactiveInv, ProactiveTypeOK', UNCHANGED <<entries, replied>>
  PROVE  ProactiveInv'
<1>1. \A p, answer : SaidOf(p, answer)' = SaidOf(p, answer)
  BY SaidStays
<1> QED
  BY <1>1 DEF ProactiveInv, EntriesInv, LastWordInv, SnoozeInv, Outlived

\* What an answer leaves in an entry
LEMMA AnsweredIs ==
  ASSUME ProactiveTypeOK, NEW e \in EntryType, NEW answer \in Replies
  PROVE  LET x == AfterAnswer(e, answer)
         IN  /\ x \in EntryType /\ x.status = answer
             /\ x.snoozed = IF answer = "snoozed" THEN today + SnoozeDays ELSE e.snoozed
             /\ x.dismissed = IF answer \in {"accepted", "snoozed"} THEN e.dismissed ELSE today
<1>0. today \in 1..MaxToday /\ MaxToday \in Nat /\ SnoozeDays \in Nat
  BY CalendarAssumption DEF ProactiveTypeOK
<1>1. CASE answer = "accepted"
  BY <1>1 DEF AfterAnswer, EntryType, EntryStatuses
<1>2. CASE answer = "snoozed"
  <2>1. today + SnoozeDays \in 0..(MaxToday + SnoozeDays)
    BY <1>0
  <2>2. AfterAnswer(e, answer) = [e EXCEPT !.status = "snoozed", !.snoozed = today + SnoozeDays]
    BY <1>2 DEF AfterAnswer
  <2> QED
    BY <1>2, <2>1, <2>2 DEF EntryType, EntryStatuses
<1>3. CASE answer \in {"dismissed", "never"}
  <2>1. today \in 0..MaxToday
    BY <1>0
  <2>2. AfterAnswer(e, answer) = [e EXCEPT !.status = answer, !.dismissed = today]
    BY <1>3 DEF AfterAnswer
  <2> QED
    BY <1>3, <2>1, <2>2 DEF EntryType, EntryStatuses
<1> QED
  BY <1>1, <1>2, <1>3 DEF Replies

\* An answer is given to a card that is shown, so it is the last word on a pattern nothing final was said of.
LEMMA AnswerKeeps ==
  ASSUME ProactiveInv, NEW answer \in Replies, AnswerCard(answer)
  PROVE  ProactiveInv'
<1>0. ProactiveTypeOK /\ CardsAreTimely
  BY CardsTimely DEF ProactiveInv
<1>1. PICK c \in ShownCards :
        /\ replied' = Append(replied, [pattern |-> c.pattern, word |-> answer, day |-> today])
        /\ entries' = [entries EXCEPT ![c.pattern] = AfterAnswer(@, answer)]
  BY DEF AnswerCard
<1>u. UNCHANGED <<rule, ceiling, today, read, proven, ripe>>
  BY DEF AnswerCard
<1> DEFINE q == c.pattern
           told == [pattern |-> q, word |-> answer, day |-> today]
<1>2. q \in Tracked /\ entries[q].status \in {"new", "snoozed"}
  <2>1. q \in ListedPatterns /\ entries[q].status \notin {"accepted", "dismissed"}
    BY CardIs, LeadIs
  <2>2. q \in Tracked /\ entries[q].status # "never" /\ entries[q] \in EntryType
    BY <1>0, <2>1 DEF ListedPatterns, ItemPatterns, FormingPatterns, ProactiveTypeOK
  <2> QED
    BY <2>1, <2>2 DEF EntryType, EntryStatuses
<1>3. /\ \A w \in {"dismissed", "never", "accepted"} : SaidOf(q, w) = {}
      /\ \A d \in SaidOf(q, "snoozed") : today >= d + SnoozeDays
  BY <1>0, <1>2, Zenon DEF CardsAreTimely
<1>4. /\ entries'[q] \in EntryType /\ entries'[q].status = answer
      /\ entries'[q].snoozed = IF answer = "snoozed" THEN today + SnoozeDays ELSE entries[q].snoozed
      /\ entries'[q].dismissed = IF answer \in {"accepted", "snoozed"} THEN entries[q].dismissed ELSE today
      /\ \A p \in Tracked : p # q => entries'[p] = entries[p]
      /\ entries' \in [Tracked -> EntryType]
  <2>1. entries \in [Tracked -> EntryType] /\ entries[q] \in EntryType
    BY <1>0, <1>2 DEF ProactiveTypeOK
  <2>2. LET x == AfterAnswer(entries[q], answer)
        IN  /\ x \in EntryType /\ x.status = answer
            /\ x.snoozed = IF answer = "snoozed" THEN today + SnoozeDays ELSE entries[q].snoozed
            /\ x.dismissed = IF answer \in {"accepted", "snoozed"} THEN entries[q].dismissed ELSE today
    BY <1>0, <2>1, AnsweredIs
  <2> DEFINE x == AfterAnswer(entries[q], answer)
  <2>3. entries' = [entries EXCEPT ![q] = x]
    BY <1>1
  <2>4. x \in EntryType
    BY <2>2
  <2> HIDE DEF x, q
  <2>5. entries'[q] = x /\ (\A p \in Tracked : p # q => entries'[p] = entries[p]) /\ entries' \in [Tracked -> EntryType]
    BY <1>2, <2>1, <2>3, <2>4
  <2> QED
    BY <2>2, <2>5, Zenon DEF x
<1>5. told \in ReplyType /\ told.pattern = q /\ told.word = answer /\ told.day = today
  BY <1>0, <1>2 DEF ReplyType, ProactiveTypeOK
<1>6. /\ replied' \in Seq(ReplyType) /\ DOMAIN replied' = DOMAIN replied \cup {Len(replied) + 1}
      /\ \A i \in DOMAIN replied : replied'[i] = replied[i]
      /\ replied'[Len(replied) + 1] = told
  <2>1. replied \in Seq(ReplyType) /\ replied' = Append(replied, told)
    BY <1>0, <1>1 DEF ProactiveTypeOK
  <2> HIDE DEF told
  <2> QED
    BY <1>5, <2>1, Appended
<1>7. \A p, w : SaidOf(p, w)' = SaidOf(p, w) \cup (IF p = q /\ w = answer THEN {today} ELSE {})
  <2> HIDE DEF q, told
  <2> QED BY <1>5, <1>6 DEF SaidOf
<1> HIDE DEF q, told
<1>8. ProactiveTypeOK'
  BY <1>0, <1>4, <1>6, <1>u DEF ProactiveTypeOK
<1>9. EntriesInv'
  <2> SUFFICES ASSUME NEW p \in Tracked
               PROVE  /\ entries'[p].status \in {"new", "accepted", "snoozed"} => entries'[p].dismissed = None
                      /\ entries'[p].status = "snoozed" => entries'[p].snoozed # None
                      /\ entries'[p].snoozed # None => \E d \in SaidOf(p, "snoozed")' : entries'[p].snoozed = d + SnoozeDays
    BY DEF EntriesInv
  <2>1. /\ entries[p].status \in {"new", "accepted", "snoozed"} => entries[p].dismissed = None
        /\ entries[p].status = "snoozed" => entries[p].snoozed # None
        /\ entries[p].snoozed # None => \E d \in SaidOf(p, "snoozed") : entries[p].snoozed = d + SnoozeDays
    BY DEF ProactiveInv, EntriesInv
  <2>2. CASE p # q
    BY <1>4, <1>7, <2>1, <2>2
  <2>3. CASE p = q
    <3>1. entries'[p].status \in {"new", "accepted", "snoozed"} => entries'[p].dismissed = None
      <4>1. entries[q].dismissed = None
        BY <1>2, <2>1, <2>3
      <4>2. entries'[q].status = answer /\ (answer \in {"accepted", "snoozed"} => entries'[q].dismissed = None)
        BY <1>4, <4>1
      <4>3. answer # "new"
        BY DEF Replies
      <4> QED
        BY <2>3, <4>2, <4>3
    <3>2. entries'[p].status = "snoozed" => entries'[p].snoozed # None
      BY <1>0, <1>4, <2>3, DaysAre
    <3>3. entries'[p].snoozed # None => \E d \in SaidOf(p, "snoozed")' : entries'[p].snoozed = d + SnoozeDays
      BY <1>4, <1>7, <2>1, <2>3
    <3> QED
      BY <3>1, <3>2, <3>3
  <2> QED
    BY <2>2, <2>3
<1>10. LastWordInv'
  <2> SUFFICES ASSUME NEW i \in DOMAIN replied', replied'[i].word # "snoozed"
               PROVE  entries'[replied'[i].pattern].status = replied'[i].word
    BY DEF LastWordInv
  <2>1. CASE i \in DOMAIN replied
    <3>1. replied'[i] = replied[i] /\ replied[i] \in ReplyType
      BY <1>0, <1>6, <2>1, Elements DEF ProactiveTypeOK
    <3>2. entries[replied[i].pattern].status = replied[i].word
      BY <2>1, <3>1 DEF ProactiveInv, LastWordInv
    <3>3. replied[i].pattern # q
      <4>1. replied[i].word \in Replies /\ replied[i].word # "snoozed"
        BY <3>1 DEF ReplyType
      <4>2. replied[i].word \notin {"new", "snoozed"}
        BY <4>1 DEF Replies
      <4> QED
        BY <1>2, <3>2, <4>2
    <3> QED
      BY <1>4, <3>1, <3>2, <3>3 DEF ReplyType
  <2>2. CASE i = Len(replied) + 1
    BY <1>4, <1>5, <1>6, <2>2
  <2> QED
    BY <1>6, <2>1, <2>2
<1>11. SnoozeInv'
  <2> SUFFICES ASSUME NEW p \in Tracked, NEW d \in SaidOf(p, "snoozed")'
               PROVE  Outlived(p, d)'
    BY DEF SnoozeInv
  <2>1. CASE p # q
    <3>1. d \in SaidOf(p, "snoozed") /\ SaidOf(p, "accepted")' = SaidOf(p, "accepted") /\ entries'[p] = entries[p]
      BY <1>4, <1>7, <2>1
    <3> QED
      BY <3>1 DEF ProactiveInv, SnoozeInv, Outlived
  <2>2. CASE p = q
    <3>0. /\ today \in Nat /\ SnoozeDays \in Nat /\ None \notin Nat
          /\ \A e \in SaidOf(q, "snoozed") : e \in Nat
      BY <1>0, <1>2, DaysAre DEF Replies
    <3>1. d \in Nat /\ d <= today /\ (answer # "snoozed" => d + SnoozeDays <= today)
      <4>1. CASE d \in SaidOf(q, "snoozed")
        BY <1>3, <3>0, <4>1
      <4>2. CASE d \notin SaidOf(q, "snoozed")
        BY <1>7, <2>2, <3>0, <4>2
      <4> QED
        BY <4>1, <4>2
    <3>2. CASE answer = "snoozed"
      BY <1>4, <2>2, <3>0, <3>1, <3>2 DEF Outlived
    <3>3. CASE answer = "accepted"
      <4>1. today \in SaidOf(p, "accepted")'
        BY <1>7, <2>2, <3>3
      <4> QED
        BY <1>4, <2>2, <3>1, <3>3, <4>1 DEF Outlived
    <3>4. CASE answer = "dismissed"
      BY <1>4, <2>2, <3>0, <3>1, <3>4 DEF Outlived
    <3>5. CASE answer = "never"
      BY <1>4, <2>2, <3>5 DEF Outlived
    <3> QED
      BY <3>2, <3>3, <3>4, <3>5 DEF Replies
  <2> QED
    BY <2>1, <2>2
<1> QED
  BY <1>8, <1>9, <1>10, <1>11 DEF ProactiveInv

\* Nothing that happens on any day takes a card's timeliness.
LEMMA ProactiveInductive == ProactiveInv /\ [ProactiveNext]_proactiveVars => ProactiveInv'
<1> SUFFICES ASSUME ProactiveInv, [ProactiveNext]_proactiveVars PROVE ProactiveInv'
  OBVIOUS
<1>0. ProactiveTypeOK /\ today \in Nat /\ MaxToday \in Nat
  BY DaysAre DEF ProactiveInv
<1>1. CASE UNCHANGED proactiveVars
  <2>1. ProactiveTypeOK' /\ UNCHANGED <<entries, replied>>
    BY <1>0, <1>1 DEF proactiveVars, ProactiveTypeOK
  <2> QED
    BY <2>1, WorldKeeps
<1>2. CASE DayPasses
  <2>1. ProactiveTypeOK' /\ UNCHANGED <<entries, replied>>
    BY <1>0, <1>2 DEF DayPasses, ProactiveTypeOK
  <2> QED
    BY <2>1, WorldKeeps
<1>3. ASSUME NEW l \in Labels, ReadLabel(l) PROVE ProactiveInv'
  <2>1. ProactiveTypeOK' /\ UNCHANGED <<entries, replied>>
    BY <1>0, <1>3 DEF ReadLabel, ProactiveTypeOK
  <2> QED
    BY <2>1, WorldKeeps
<1>4. ASSUME NEW p \in Tracked, EvidenceClears(p) PROVE ProactiveInv'
  <2>1. ProactiveTypeOK' /\ UNCHANGED <<entries, replied>>
    BY <1>0, <1>4 DEF EvidenceClears, ProactiveTypeOK
  <2> QED
    BY <2>1, WorldKeeps
<1>6. ASSUME NEW p \in Tracked, RipenessChanges(p) PROVE ProactiveInv'
  <2>1. ProactiveTypeOK' /\ UNCHANGED <<entries, replied>>
    BY <1>0, <1>6 DEF RipenessChanges, ProactiveTypeOK
  <2> QED
    BY <2>1, WorldKeeps
<1>5. ASSUME NEW answer \in Replies, AnswerCard(answer) PROVE ProactiveInv'
  BY <1>5, AnswerKeeps
<1> QED
  BY <1>1, <1>2, <1>3, <1>4, <1>5, <1>6 DEF ProactiveNext

\* For every calendar, pack, label and sequence of answers, a card that shows is one the user should see that day:
\* outside the quiet periods, of the next close or the one date its label can mean, within the ceilings, of no
\* pattern that was refused or taken, after its snoozes, and, unless something was accepted since, after those of the
\* items and a rung of the ladder (proactivity.ts, proactive.ts).
THEOREM CardsStayTimely == ProactiveSpec => []CardsAreTimely
<1>1. ProactiveInit => ProactiveInv
  <2> SUFFICES ASSUME ProactiveInit PROVE ProactiveInv
    OBVIOUS
  <2>1. replied = <<>> /\ <<>> \in Seq(ReplyType) /\ DOMAIN <<>> = {}
    BY DEF ProactiveInit
  <2>2. ProactiveTypeOK
    BY <2>1 DEF ProactiveInit, ProactiveTypeOK, EntryType, EntryStatuses
  <2>3. \A p, answer : SaidOf(p, answer) = {}
    BY <2>1 DEF SaidOf
  <2> QED
    BY <2>1, <2>2, <2>3 DEF ProactiveInit, ProactiveInv, EntriesInv, LastWordInv, SnoozeInv
<1> QED
  BY <1>1, ProactiveInductive, CardsTimely, PTL DEF ProactiveSpec
=============================================================================
