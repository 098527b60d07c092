-------------------------- MODULE StagedRunsProofs --------------------------
(***************************************************************************)
(* For every set of agents, plan, pool and list size and any number of     *)
(* cards, answers, approvals, edits and revocations: the types, what an    *)
(* approved run may do to the page, the shadow pool and the list of cards. *)
(***************************************************************************)
EXTENDS StagedRuns, FiniteSetTheorems, SequenceTheorems, TLAPS

USE DEF pool, cards, outside, Controls, CardIds, AnswerIds, RunIds, Times

-----------------------------------------------------------------------------
(* The inductive invariant. *)

\* The workers of the pool are counted, and there are enough of them.
PoolInv == IsFiniteSet(running) /\ Cardinality(running) <= PoolSize

\* A run that has not compared the proposals yet has written and sent nothing.
Untouched(r) ==
  run[r].phase \in {"unused", "proposing"} =>
    /\ run[r].landed = {} /\ run[r].sent = {} /\ run[r].status = {}
    /\ run[r].at = 1 /\ run[r].result = "none"

\* A run that writes found the approved proposal again.
Compared(r) ==
  run[r].phase \in {"writing", "verifying"} =>
    run[r].pass.diff = run[r].approved /\ run[r].result = "none"

\* What is sent, landed and confirmed was approved.
Approved(r) ==
  /\ run[r].sent \subseteq run[r].approved.changes
  /\ run[r].landed \subseteq run[r].approved.changes
  /\ run[r].status \subseteq run[r].landed

\* Control k of run r is confirmed: a field with a change, and the change applied.
Confirmed(r, k) ==
  /\ k \notin Press
  /\ \E c \in run[r].approved.changes : c.control = k
  /\ \A c \in run[r].approved.changes : c.control = k => c \in run[r].status

\* While a run counts as verified, every control behind it is confirmed.
Counted(r) ==
  run[r].verified =>
    /\ \A k \in Controls : k < run[r].at => Confirmed(r, k)
    /\ run[r].result = "completed" => \A k \in Controls : Confirmed(r, k)

\* A run whose fresh proposal differs has written nothing.
Stale(r) ==
  Finished(run[r].pass) /\ run[r].pass.diff # run[r].approved
    => run[r].landed = {} /\ run[r].sent = {}

Good(r) == Untouched(r) /\ Compared(r) /\ Approved(r) /\ Counted(r) /\ Stale(r)

RunInv == \A r \in RunIds : Good(r)

-----------------------------------------------------------------------------
(* Types: the helpers. *)

\* A proposal for a control is a set of changes.
LEMMA ProposalType ==
  ASSUME TypeOK, NEW k \in Controls, NEW v \in Values
  PROVE  Proposal(k, v) \subseteq Change
BY DEF TypeOK, Proposal, Change

\* A pass that reads one more control is a pass.
LEMMA StepsType ==
  ASSUME TypeOK, NEW p \in Pass, NEW v \in Values, NEW q \in Steps(p, v)
  PROVE  q \in Pass /\ q.next = p.next + 1
<1>1. p.next \in Controls /\ p.diff \in Diff /\ p.next <= K
  BY PlanAssumption DEF Steps, Pass
<1>2. Proposal(p.next, v) \subseteq Change
  BY <1>1, ProposalType
<1>3. CASE q \in Read(p, v)
  BY <1>1, <1>2, <1>3, PlanAssumption DEF Read, Pass, Diff
<1>4. CASE q \in Unreadable(p)
  BY <1>1, <1>4, PlanAssumption DEF Unreadable, Pass, Diff
<1> QED
  BY <1>3, <1>4 DEF Steps

\* A fresh pass and an empty diff have their types.
LEMMA FreshType == Fresh \in Pass /\ NoDiff \in Diff
BY PlanAssumption DEF Fresh, NoDiff, Pass, Diff

\* Updating a card keeps it a card.
LEMMA UpdateType ==
  ASSUME TypeOK, NEW i \in CardIds, NEW kind \in Kinds, NEW diff \in Diff,
         NEW answer \in Values \cup {None}, Update(i, kind, diff, answer)
  PROVE  card' \in [CardIds -> Card]
BY ZenonT(60) DEF TypeOK, Update, Card

\* pushStaged keeps at most Cap cards.
LEMMA PushType ==
  ASSUME TypeOK, NEW a \in Agents, NEW t \in Times, NEW kind \in Kinds, NEW diff \in Diff,
         Push(a, t, kind, diff)
  PROVE  staged' \in Seq(CardIds) /\ Len(staged') <= Cap /\ card' \in [CardIds -> Card]
<1>1. CASE Duplicate(a, t)
  BY <1>1 DEF Push, TypeOK
<1>2. CASE ~Duplicate(a, t)
  <2>1. PICK i \in Unused :
          /\ staged' = SubSeq(<<i>> \o staged, 1,
                              IF Len(staged) < Cap THEN Len(staged) + 1 ELSE Cap)
          /\ card' = [card EXCEPT ![i] = [agent |-> a, at |-> t, kind |-> kind,
                                          diff |-> diff, answer |-> None]]
    BY <1>2 DEF Push
  <2> DEFINE s == <<i>> \o staged
             n == IF Len(staged) < Cap THEN Len(staged) + 1 ELSE Cap
  <2>2. i \in CardIds /\ <<i>> \in Seq(CardIds) /\ Len(<<i>>) = 1
    BY DEF Unused
  <2>3. staged \in Seq(CardIds) /\ Len(staged) \in Nat /\ Len(staged) <= Cap
    BY DEF TypeOK
  <2>4. s \in Seq(CardIds) /\ Len(s) = Len(staged) + 1
    BY <2>2, <2>3, ConcatProperties
  <2>5. n \in Nat /\ n <= Cap /\ n <= Len(s)
    BY <2>3, <2>4, SizesAssumption
  <2>6. staged' = SubSeq(s, 1, n)
    BY <2>1
  <2> HIDE DEF s, n
  <2>7. \A m \in 1..n : s[m] \in CardIds
    <3>1. \A m \in 1..n : m \in 1..Len(s)
      BY <2>3, <2>4, <2>5
    <3> QED
      BY <2>4, <3>1, ElementOfSeq
  <2>8. SubSeq(s, 1, n) \in Seq(CardIds) /\ Len(SubSeq(s, 1, n)) <= Cap
    BY <2>5, <2>7, SubSeqProperties, SizesAssumption
  <2>9. card' \in [CardIds -> Card]
    BY <2>1, <2>2 DEF TypeOK, Card
  <2> QED
    BY <2>6, <2>8, <2>9
<1> QED
  BY <1>1, <1>2

QueueItem == [agent : Agents, at : Times]

\* pumpShadowQueue starts no more jobs than there are free workers.
LEMMA PumpType ==
  ASSUME NEW q \in Seq(QueueItem), NEW jobs \in SUBSET Job, IsFiniteSet(jobs),
         Cardinality(jobs) <= PoolSize, Pump(q, jobs)
  PROVE  queue' \in Seq(QueueItem) /\ running' \subseteq Job /\ PoolInv'
<1> DEFINE free == PoolSize - Cardinality(jobs)
           n == IF free < Len(q) THEN free ELSE Len(q)
           f == [m \in 1..n |-> [agent |-> q[m].agent, at |-> q[m].at, pass |-> Fresh]]
           T == {[agent |-> q[m].agent, at |-> q[m].at, pass |-> Fresh] : m \in 1..n}
<1>1. free \in Nat /\ Len(q) \in Nat
  BY FS_CardinalityType, SizesAssumption
<1>2. n \in Nat /\ n <= free /\ n <= Len(q)
  BY <1>1
<1>3. queue' = SubSeq(q, n + 1, Len(q)) /\ running' = jobs \cup T
  BY DEF Pump
<1>4. PoolSize = Cardinality(jobs) + free /\ Cardinality(jobs) \in Nat
  BY FS_CardinalityType, SizesAssumption
<1> HIDE DEF n, free
<1>5. \A m \in 1..Len(q) : q[m] \in QueueItem
  BY ElementOfSeq
<1>6. queue' \in Seq(QueueItem)
  <2>1. \A m \in (n + 1)..Len(q) : q[m] \in QueueItem
    BY <1>1, <1>2, <1>5
  <2> QED
    BY <1>1, <1>2, <1>3, <2>1, SubSeqProperties
<1>7. T \subseteq Job
  BY <1>1, <1>2, <1>5, FreshType DEF QueueItem, Job
<1>8. IsFiniteSet(T) /\ Cardinality(T) <= n
  <2>1. f \in Surjection(1..n, T)
    BY DEF Surjection
  <2>2. IsFiniteSet(1..n) /\ Cardinality(1..n) = n
    BY <1>2, FS_Interval
  <2> HIDE DEF f, T
  <2> QED
    BY <2>1, <2>2, FS_Surjection
<1> HIDE DEF T
<1>9. IsFiniteSet(jobs \cup T) /\ Cardinality(jobs \cup T) <= PoolSize
  <2>1. /\ IsFiniteSet(jobs \cup T)
        /\ Cardinality(jobs \cup T) =
             Cardinality(jobs) + Cardinality(T) - Cardinality(jobs \cap T)
    BY <1>8, FS_Union
  <2>2. Cardinality(T) \in Nat /\ Cardinality(jobs \cap T) \in Nat
    <3>1. IsFiniteSet(jobs \cap T)
      BY FS_Subset
    <3> QED
      BY <1>8, <3>1, FS_CardinalityType
  <2> QED
    BY <1>1, <1>2, <1>4, <1>8, <2>1, <2>2
<1> QED
  BY <1>3, <1>6, <1>7, <1>9 DEF PoolInv

-----------------------------------------------------------------------------
(* Types: the steps. *)

\* The program starts in a typed state with an empty pool.
LEMMA InitType == Init => TypeOK /\ PoolInv
<1> SUFFICES ASSUME Init PROVE TypeOK /\ PoolInv
  OBVIOUS
<1> USE FreshType, PlanAssumption, SizesAssumption
<1>1. NoCard \in Card
  BY DEF NoCard, Card, Kinds
<1>2. asked \in [AnswerIds -> Question]
  BY DEF Init, Question
<1>3. run \in [RunIds -> Run]
  BY DEF Init, Run
<1>4. IsFiniteSet(running) /\ Cardinality(running) = 0
  BY FS_EmptySet DEF Init
<1>5. /\ staged \in Seq(CardIds) /\ Len(staged) <= Cap
      /\ queue \in Seq([agent : Agents, at : Times])
  BY DEF Init
<1>6. PoolInv
  BY <1>4 DEF PoolInv
<1>7. TypeOK
  <2>1. card \in [CardIds -> Card]
    BY <1>1 DEF Init
  <2>2. clock \in Times /\ edits \in 0..MaxEdits /\ revokes \in 0..MaxRevokes
    BY DEF Init
  <2>3. running \subseteq Job /\ inFlight \subseteq Agents
    BY DEF Init
  <2>4. /\ page \in [Controls -> Values] /\ granted \in BOOLEAN
        /\ autonomy \in [Agents -> BOOLEAN]
    BY DEF Init
  <2> QED
    BY <1>2, <1>3, <1>5, <2>1, <2>2, <2>3, <2>4 DEF TypeOK
<1> QED
  BY <1>6, <1>7

\* The shadow pool and the list of cards.
LEMMA ShadowType ==
  ASSUME TypeOK, PoolInv,
         \/ \E a \in Agents, t \in Times : StageFiring(a, t)
         \/ \E a \in Agents : Shadows(a)
  PROVE  TypeOK' /\ PoolInv'
<1>1. ASSUME NEW a \in Agents, NEW t \in Times, StageFiring(a, t)
      PROVE  TypeOK' /\ PoolInv'
  <2>1. CASE autonomy[a] /\ a \in inFlight
    BY <1>1, <2>1 DEF StageFiring, Enqueue, TypeOK, PoolInv
  <2>2. CASE autonomy[a] /\ a \notin inFlight
    <3>1. queue \in Seq(QueueItem) /\ [agent |-> a, at |-> t] \in QueueItem
      BY DEF TypeOK, QueueItem
    <3>2. Append(queue, [agent |-> a, at |-> t]) \in Seq(QueueItem)
      BY <3>1, AppendProperties
    <3>3. Pump(Append(queue, [agent |-> a, at |-> t]), running)
      BY <1>1, <2>2 DEF StageFiring, Enqueue
    <3>4. queue' \in Seq(QueueItem) /\ running' \subseteq Job /\ PoolInv'
      BY <3>2, <3>3, PumpType DEF TypeOK, PoolInv
    <3>5. /\ inFlight' = inFlight \cup {a}
          /\ UNCHANGED <<outside, autonomy, clock, cards, asked, run>>
      BY <1>1, <2>2 DEF StageFiring, Enqueue
    <3> QED
      BY <3>4, <3>5 DEF TypeOK, QueueItem
  <2>3. CASE ~autonomy[a]
    <3>1. staged' \in Seq(CardIds) /\ Len(staged') <= Cap /\ card' \in [CardIds -> Card]
      BY <1>1, <2>3, PushType, FreshType DEF StageFiring, Kinds
    <3> QED
      BY <1>1, <2>3, <3>1 DEF StageFiring, TypeOK, PoolInv
  <2> QED
    BY <2>1, <2>2, <2>3
<1>2. ASSUME NEW j \in running, ShadowReads(j) PROVE TypeOK' /\ PoolInv'
  <2>1. PICK p \in Steps(j.pass, Wanted) :
          running' = (running \ {j}) \cup {[j EXCEPT !.pass = p]}
    BY <1>2 DEF ShadowReads
  <2>2. j \in Job /\ p \in Pass
    BY StepsType, PlanAssumption DEF TypeOK, Job
  <2>3. [j EXCEPT !.pass = p] \in Job
    BY <2>2 DEF Job
  <2>4. /\ IsFiniteSet(running \ {j})
        /\ Cardinality(running \ {j}) = Cardinality(running) - 1
        /\ Cardinality(running) \in Nat
    BY FS_RemoveElement, FS_CardinalityType DEF PoolInv
  <2>5. PoolInv'
    <3>1. /\ IsFiniteSet(running')
          /\ Cardinality(running') = IF [j EXCEPT !.pass = p] \in running \ {j}
                                       THEN Cardinality(running \ {j})
                                       ELSE Cardinality(running \ {j}) + 1
      BY <2>1, <2>4, FS_AddElement
    <3> QED
      BY <2>4, <3>1, SizesAssumption DEF PoolInv
  <2> QED
    BY <1>2, <2>1, <2>3, <2>5 DEF ShadowReads, TypeOK
<1>3. ASSUME NEW j \in running, ShadowEnds(j) PROVE TypeOK' /\ PoolInv'
  <2>1. j \in Job
    BY DEF TypeOK
  <2>2. staged' \in Seq(CardIds) /\ Len(staged') <= Cap /\ card' \in [CardIds -> Card]
    <3>1. j.agent \in Agents /\ j.at \in Times /\ j.pass.diff \in Diff
      BY <2>1 DEF Job, Pass
    <3>2. \E kind \in Kinds, diff \in Diff : Push(j.agent, j.at, kind, diff)
      BY <1>3, <3>1, FreshType DEF ShadowEnds, Kinds
    <3> QED
      BY <3>1, <3>2, PushType
  <2>3. /\ IsFiniteSet(running \ {j})
        /\ Cardinality(running \ {j}) <= PoolSize
    <3>1. /\ IsFiniteSet(running \ {j})
          /\ Cardinality(running \ {j}) = Cardinality(running) - 1
          /\ Cardinality(running) \in Nat
      BY FS_RemoveElement, FS_CardinalityType DEF PoolInv
    <3> QED
      BY <3>1, SizesAssumption DEF PoolInv
  <2>4. running \ {j} \in SUBSET Job /\ queue \in Seq(QueueItem)
    BY DEF TypeOK, QueueItem
  <2>5. queue' \in Seq(QueueItem) /\ running' \subseteq Job /\ PoolInv'
    BY <1>3, <2>3, <2>4, PumpType DEF ShadowEnds
  <2> QED
    BY <1>3, <2>2, <2>5 DEF ShadowEnds, TypeOK, QueueItem
<1> QED
  BY <1>1, <1>2, <1>3 DEF Shadows

\* The answers.
LEMMA AnswerType ==
  ASSUME TypeOK, NEW n \in AnswerIds,
         \/ \E i \in CardIds, v \in Values \cup {None} : Answer(n, i, v)
         \/ Answering(n)
  PROVE  TypeOK' /\ UNCHANGED <<running, run, page>>
<1> USE FreshType
<1>1. ASSUME NEW i \in CardIds, NEW v \in Values \cup {None}, Answer(n, i, v)
      PROVE  TypeOK' /\ UNCHANGED <<running, run, page>>
  <2>1. card[i].answer \in Values \cup {None}
    BY DEF TypeOK, Card
  <2>2. asked' \in [AnswerIds -> Question]
    BY <1>1, <2>1 DEF Answer, TypeOK, Question
  <2> QED
    BY <1>1, <2>2 DEF Answer, TypeOK
<1>2. asked[n] \in Question
  BY DEF TypeOK
<1>3. CASE AnswerReads(n)
  <2>1. PICK p \in Steps(asked[n].pass, asked[n].answer) : asked' = [asked EXCEPT ![n].pass = p]
    BY <1>3 DEF AnswerReads
  <2>2. p \in Pass
    BY <1>2, <1>3, StepsType DEF Question, AnswerReads
  <2>3. asked' \in [AnswerIds -> Question]
    BY <2>1, <2>2 DEF TypeOK, Question
  <2> QED
    BY <1>3, <2>3 DEF AnswerReads, TypeOK
<1>4. CASE AnswerLands(n)
  <2>1. asked[n].card \in CardIds \/ asked[n].card = None
    BY <1>2 DEF Question
  <2>2. \E kind \in Kinds, diff \in Diff : Update(asked[n].card, kind, diff, asked[n].answer)
    BY <1>2, <1>4 DEF AnswerLands, Kinds, Question, Pass
  <2>3. card' \in [CardIds -> Card]
    <3>1. CASE asked[n].card \in CardIds
      BY <1>2, <2>2, <3>1, UpdateType DEF Question
    <3>2. CASE asked[n].card \notin CardIds
      BY <2>2, <3>2 DEF Update, TypeOK
    <3> QED
      BY <3>1, <3>2
  <2>4. asked' \in [AnswerIds -> Question]
    BY <1>4 DEF AnswerLands, TypeOK, Question
  <2> QED
    BY <1>4, <2>3, <2>4 DEF AnswerLands, TypeOK
<1> QED
  BY <1>1, <1>3, <1>4 DEF Answering

\* The approved runs: their records, their cards and the page.
LEMMA RunType ==
  ASSUME TypeOK, NEW r \in RunIds,
         \/ \E i \in CardIds : Approve(r, i)
         \/ Executing(r) \/ LateWrite(r) \/ LateExpires(r)
  PROVE  TypeOK' /\ UNCHANGED <<running, edits>>
<1> USE FreshType
<1> DEFINE Goal == TypeOK' /\ UNCHANGED <<running, edits>>
<1>1. run[r] \in Run /\ run \in [RunIds -> Run]
  BY DEF TypeOK
<1>2. card[run[r].card].answer \in Values \cup {None} \/ run[r].card \notin CardIds
  BY DEF TypeOK, Card
<1>3. ASSUME NEW kind \in Kinds, NEW diff \in Diff,
             Update(run[r].card, kind, diff, card[run[r].card].answer)
      PROVE  card' \in [CardIds -> Card]
  <2>1. CASE run[r].card \in CardIds
    BY <1>2, <1>3, <2>1, UpdateType
  <2>2. CASE run[r].card \notin CardIds
    BY <1>3, <2>2 DEF Update, TypeOK
  <2> QED
    BY <2>1, <2>2
<1>4. ASSUME NEW i \in CardIds, Approve(r, i) PROVE Goal
  <2>1. card[i] \in Card
    BY DEF TypeOK
  <2>2. ValueOf(card[i].agent, card[i].answer) \in Values \cup {None}
    BY <2>1, PlanAssumption DEF ValueOf, Card
  <2> DEFINE rec == [run[r] EXCEPT !.phase = "proposing", !.card = i,
                       !.value = ValueOf(card[i].agent, card[i].answer),
                       !.approved = card[i].diff]
  <2>3. rec \in Run
    BY <1>1, <2>1, <2>2 DEF Run, Card
  <2>4. run' = [run EXCEPT ![r] = rec]
    BY <1>4 DEF Approve
  <2>5. run' \in [RunIds -> Run]
    BY <1>1, <2>3, <2>4
  <2>6. card' \in [CardIds -> Card]
    BY <1>4, <2>1, UpdateType DEF Approve, Kinds, Card
  <2> QED
    BY <1>4, <2>5, <2>6 DEF Approve, TypeOK
<1>5. CASE RunReads(r)
  <2>1. PICK p \in Steps(run[r].pass, run[r].value) : run' = [run EXCEPT ![r].pass = p]
    BY <1>5 DEF RunReads
  <2>2. p \in Pass
    BY <1>1, <1>5, StepsType DEF Run, RunReads
  <2>3. [run[r] EXCEPT !.pass = p] \in Run
    BY <1>1, <2>2 DEF Run
  <2>4. run' \in [RunIds -> Run]
    BY <2>1, <2>3 DEF TypeOK
  <2> QED
    BY <1>5, <2>4 DEF RunReads, Leave, TypeOK
<1>0. ASSUME NEW result \in {"failed", "stale", "completed"} PROVE End(r, result) \in [RunIds -> Run]
  <2>1. [run[r] EXCEPT !.phase = "done", !.result = result] \in Run
    BY <1>1 DEF Run
  <2> QED
    BY <1>1, <2>1 DEF End
<1>6. CASE RunFails(r) \/ WriteUnavailable(r)
  <2>1. run' \in [RunIds -> Run]
    BY <1>6, <1>0 DEF RunFails, WriteUnavailable
  <2>2. card' \in [CardIds -> Card]
    BY <1>3, <1>6 DEF RunFails, WriteUnavailable, Kinds
  <2> QED
    BY <1>6, <2>1, <2>2 DEF RunFails, WriteUnavailable, Leave, TypeOK
<1>7. CASE RunAborts(r)
  <2>1. run' \in [RunIds -> Run]
    BY <1>7, <1>0 DEF RunAborts
  <2>2. card' \in [CardIds -> Card]
    BY <1>1, <1>3, <1>7 DEF RunAborts, Kinds, Run, Pass
  <2> QED
    BY <1>7, <2>1, <2>2 DEF RunAborts, Leave, TypeOK
<1>8. CASE RunProceeds(r) \/ WriteRefused(r)
  <2>1. \A ph \in {"writing", "verifying"} : [run[r] EXCEPT !.phase = ph] \in Run
    BY <1>1 DEF Run
  <2>2. run' \in [RunIds -> Run]
    BY <1>1, <1>8, <2>1 DEF RunProceeds, WriteRefused
  <2> QED
    BY <1>8, <2>2 DEF RunProceeds, WriteRefused, Leave, TypeOK
<1>9. Slice(r) \subseteq Change /\ run[r].sent \subseteq Change
  BY <1>1 DEF Slice, Run, Diff
<1>10. ASSUME NEW c \in Change, NEW ph, ph \in {"verifying", run[r].phase},
              NEW confirmed \in BOOLEAN, Landing(r, c, ph, confirmed)
       PROVE  Goal
  <2> DEFINE st == IF confirmed THEN run[r].status \cup {c} ELSE run[r].status
             rec == [run[r] EXCEPT !.phase = ph, !.sent = run[r].sent \ {c},
                       !.landed = run[r].landed \cup {c}, !.status = st]
  <2>1. ph \in {"unused", "proposing", "writing", "verifying", "done"}
    BY <1>1, <1>10 DEF Run
  <2>2. rec \in Run
    BY <1>1, <2>1 DEF Run
  <2>3. run' = [run EXCEPT ![r] = rec]
    BY <1>10 DEF Landing
  <2>4. run' \in [RunIds -> Run]
    BY <1>1, <2>2, <2>3
  <2>5. page' \in [Controls -> Values]
    BY <1>10 DEF Landing, Effect, TypeOK, Change
  <2> QED
    BY <1>10, <2>4, <2>5 DEF Landing, TypeOK
<1>12. CASE WriteLands(r) \/ LateWrite(r)
  BY <1>9, <1>10, <1>12 DEF WriteLands, LateWrite
<1>13. CASE WriteTimesOut(r)
  <2>1. [run[r] EXCEPT !.phase = "verifying", !.sent = run[r].sent \cup Slice(r)] \in Run
    BY <1>1, <1>9 DEF Run
  <2>2. run' \in [RunIds -> Run]
    BY <1>1, <1>13, <2>1 DEF WriteTimesOut
  <2> QED
    BY <1>13, <2>2 DEF WriteTimesOut, Leave, TypeOK
<1>14. CASE LateExpires(r)
  <2>1. PICK c \in run[r].sent : run' = [run EXCEPT ![r].sent = @ \ {c}]
    BY <1>14 DEF LateExpires
  <2>2. [run[r] EXCEPT !.sent = run[r].sent \ {c}] \in Run
    BY <1>1 DEF Run
  <2>3. run' \in [RunIds -> Run]
    BY <1>1, <2>1, <2>2
  <2> QED
    BY <1>14, <2>3 DEF LateExpires, Leave, TypeOK
<1>15. CASE StepVerified(r)
  <2>1. PICK ok \in {FALSE, ReadBack(r)} : Verified(r, ok)
    BY <1>15 DEF StepVerified
  <2> DEFINE v == run[r].verified /\ ok
  <2>2. v \in BOOLEAN
    BY <1>1 DEF Run
  <2>3. CASE run[r].at < K
    <3>1. [run[r] EXCEPT !.phase = "writing", !.at = run[r].at + 1, !.verified = v] \in Run
      <4>1. run[r].at + 1 \in Controls
        BY <1>1, <2>3, PlanAssumption DEF Run
      <4> HIDE DEF v
      <4> QED
        BY <1>1, <2>2, <4>1 DEF Run
    <3>2. run' \in [RunIds -> Run] /\ UNCHANGED card
      BY <1>1, <2>1, <2>3, <3>1 DEF Verified
    <3> QED
      BY <1>15, <3>2 DEF StepVerified, Leave, TypeOK
  <2>4. CASE ~(run[r].at < K)
    <3>1. [run[r] EXCEPT !.phase = "done", !.result = "completed", !.verified = v] \in Run
      BY <1>1, <2>2 DEF Run
    <3>2. run' = [run EXCEPT ![r] = [run[r] EXCEPT !.phase = "done", !.result = "completed",
                                                   !.verified = v]]
      BY <1>1, <2>1, <2>4 DEF Verified, End
    <3>3. run' \in [RunIds -> Run]
      BY <1>1, <3>1, <3>2
    <3>4. card' \in [CardIds -> Card]
      BY <1>1, <1>3, <2>1, <2>4 DEF Verified, Kinds, Run
    <3> QED
      BY <1>15, <3>3, <3>4 DEF StepVerified, Leave, TypeOK
  <2> QED
    BY <2>3, <2>4
<1> QED
  BY <1>4, <1>5, <1>6, <1>7, <1>8, <1>12, <1>13, <1>14, <1>15 DEF Executing

\* What the user and the world do to permissions, page and clock.
LEMMA WorldType ==
  ASSUME TypeOK,
         \/ \E a \in Agents : GrantAutonomy(a)
         \/ SetGranted \/ Tick
         \/ \E k \in Controls, v \in Values : EditPage(k, v)
  PROVE  TypeOK' /\ UNCHANGED <<running, run>>
<1>1. CASE \E a \in Agents : GrantAutonomy(a)
  BY <1>1 DEF GrantAutonomy, TypeOK
<1>2. CASE SetGranted
  BY <1>2, SizesAssumption DEF SetGranted, TypeOK
<1>3. CASE Tick
  BY <1>3, SizesAssumption DEF Tick, TypeOK
<1>4. CASE \E k \in Controls, v \in Values : EditPage(k, v)
  BY <1>4, SizesAssumption DEF EditPage, TypeOK
<1> QED
  BY <1>1, <1>2, <1>3, <1>4

\* Every step keeps the types and the pool's bound.
LEMMA NextType == TypeOK /\ PoolInv /\ [Next]_vars => TypeOK' /\ PoolInv'
<1> SUFFICES ASSUME TypeOK, PoolInv, [Next]_vars PROVE TypeOK' /\ PoolInv'
  OBVIOUS
<1>1. CASE UNCHANGED vars
  BY <1>1 DEF vars, TypeOK, PoolInv
<1>2. UNCHANGED running => PoolInv'
  BY DEF PoolInv
<1>3. CASE Next
  BY <1>2, <1>3, ShadowType, AnswerType, RunType, WorldType DEF Next, User, World
<1> QED
  BY <1>1, <1>3

\* Every variable keeps its type, and no more than PoolSize shadows run at once,
\* whatever fires, is answered, approved, edited or revoked.
THEOREM TypeCorrect == Spec => [](TypeOK /\ PoolInv)
<1>1. TypeOK /\ PoolInv /\ [Next]_vars => (TypeOK /\ PoolInv)'
  BY NextType
<1> QED
  BY <1>1, InitType, PTL DEF Spec

-----------------------------------------------------------------------------
(* The approved runs. *)

\* Nothing has been approved at the start.
LEMMA InitRun == Init => RunInv
<1> SUFFICES ASSUME Init PROVE RunInv
  OBVIOUS
<1>1. \A r \in RunIds : run[r] = [phase |-> "unused", card |-> None, value |-> None,
                                  approved |-> NoDiff, pass |-> Fresh, at |-> 1,
                                  sent |-> {}, landed |-> {}, status |-> {},
                                  verified |-> TRUE, result |-> "none"]
  BY DEF Init
<1>2. ~(1 > K)
  BY PlanAssumption
<1> QED
  BY <1>1, <1>2 DEF RunInv, Good, Untouched, Compared, Approved, Counted, Stale, Finished,
                    Fresh

\* A step that leaves a run alone keeps it good.
LEMMA GoodFrame ==
  ASSUME NEW r \in RunIds, Good(r), run'[r] = run[r]
  PROVE  Good(r)'
BY DEF Good, Untouched, Compared, Approved, Counted, Confirmed, Stale

\* A confirmed control stays confirmed while confirmations are only added.
LEMMA ConfirmedStays ==
  ASSUME NEW r \in RunIds, NEW k \in Controls, Confirmed(r, k),
         run'[r].approved = run[r].approved, run[r].status \subseteq run'[r].status
  PROVE  Confirmed(r, k)'
BY DEF Confirmed

\* So does the count, while the run does not move on to its next step.
LEMMA CountedStays ==
  ASSUME NEW r \in RunIds, Counted(r), run'[r].at = run[r].at,
         run'[r].verified = run[r].verified, run'[r].approved = run[r].approved,
         run[r].status \subseteq run'[r].status,
         run'[r].result = run[r].result \/ run'[r].result = "failed"
  PROVE  Counted(r)'
BY ConfirmedStays DEF Counted

\* A change that lands was approved, and the run it belongs to had compared.
LEMMA LandingGood ==
  ASSUME TypeOK, NEW r \in RunIds, Good(r), NEW c \in run[r].approved.changes, NEW ph,
         NEW confirmed \in BOOLEAN, Landing(r, c, ph, confirmed),
         \/ run[r].phase = "writing" /\ ph = "verifying"
         \/ c \in run[r].sent /\ ph = run[r].phase
  PROVE  Good(r)'
<1> DEFINE st == IF confirmed THEN run[r].status \cup {c} ELSE run[r].status
           rec == [run[r] EXCEPT !.phase = ph, !.sent = run[r].sent \ {c},
                     !.landed = run[r].landed \cup {c}, !.status = st]
<1>1. run[r] \in Run /\ run \in [RunIds -> Run]
  BY DEF TypeOK
<1>2. run'[r] = rec
  BY <1>1 DEF Landing
<1>3. /\ rec.phase = ph /\ rec.sent = run[r].sent \ {c} /\ rec.landed = run[r].landed \cup {c}
      /\ rec.status = st /\ rec.approved = run[r].approved /\ rec.pass = run[r].pass
      /\ rec.at = run[r].at /\ rec.result = run[r].result /\ rec.verified = run[r].verified
  BY <1>1 DEF Run
<1>4. run[r].status \subseteq st /\ st \subseteq run[r].status \cup {c}
  OBVIOUS
<1> HIDE DEF rec, st
<1>5. run[r].phase \notin {"unused", "proposing"}
  BY DEF Good, Untouched
<1>6. ~(Finished(run[r].pass) /\ run[r].pass.diff # run[r].approved)
  BY DEF Good, Compared, Stale
<1>7. Untouched(r)'
  BY <1>2, <1>3, <1>5 DEF Untouched
<1>8. Compared(r)'
  BY <1>2, <1>3 DEF Good, Compared
<1>9. Approved(r)'
  BY <1>2, <1>3, <1>4 DEF Good, Approved
<1>10. Counted(r)'
  BY <1>2, <1>3, <1>4, CountedStays DEF Good
<1>11. Stale(r)'
  BY <1>2, <1>3, <1>6 DEF Stale, Finished
<1> QED
  BY <1>7, <1>8, <1>9, <1>10, <1>11 DEF Good

\* Every step of a run keeps it good.
LEMMA RunGood ==
  ASSUME TypeOK, NEW r \in RunIds, Good(r),
         \/ \E i \in CardIds : Approve(r, i)
         \/ Executing(r) \/ LateWrite(r) \/ LateExpires(r)
  PROVE  Good(r)'
<1> USE DEF Untouched, Compared, Approved, Stale
<1>1. run[r] \in Run /\ run \in [RunIds -> Run]
  BY DEF TypeOK
<1>2. ASSUME NEW i \in CardIds, Approve(r, i) PROVE Good(r)'
  <2> DEFINE rec == [run[r] EXCEPT !.phase = "proposing", !.card = i,
                       !.value = ValueOf(card[i].agent, card[i].answer),
                       !.approved = card[i].diff]
  <2>1. run'[r] = rec /\ run[r].phase = "unused"
    BY <1>1, <1>2 DEF Approve
  <2>2. /\ rec.phase = "proposing" /\ rec.approved = card[i].diff /\ rec.at = run[r].at
        /\ rec.sent = run[r].sent /\ rec.landed = run[r].landed /\ rec.status = run[r].status
        /\ rec.result = run[r].result
    BY <1>1 DEF Run
  <2> HIDE DEF rec
  <2>3. ~\E k \in Controls : k < 1
    BY PlanAssumption
  <2> QED
    BY <2>1, <2>2, <2>3 DEF Good, Counted
<1>3. CASE RunReads(r)
  <2>1. PICK p \in Steps(run[r].pass, run[r].value) : run' = [run EXCEPT ![r].pass = p]
    BY <1>3 DEF RunReads
  <2>2. run'[r] = [run[r] EXCEPT !.pass = p] /\ run[r].phase = "proposing"
    BY <1>1, <1>3, <2>1 DEF RunReads
  <2>3. ~\E k \in Controls : k < 1
    BY PlanAssumption
  <2> QED
    BY <1>1, <2>2, <2>3 DEF Good, Counted, Run
<1>4. CASE RunFails(r) \/ RunAborts(r)
  <2>1. \E res \in {"failed", "stale"} :
          run'[r] = [run[r] EXCEPT !.phase = "done", !.result = res]
    BY <1>1, <1>4 DEF RunFails, RunAborts, End
  <2>2. run[r].phase = "proposing"
    BY <1>4 DEF RunFails, RunAborts
  <2>3. ~\E k \in Controls : k < 1
    BY PlanAssumption
  <2> QED
    BY <1>1, <2>1, <2>2, <2>3 DEF Good, Counted, Run
<1>5. CASE RunProceeds(r)
  <2>1. run'[r] = [run[r] EXCEPT !.phase = "writing"] /\ run[r].phase = "proposing"
        /\ run[r].pass.diff = run[r].approved
    BY <1>1, <1>5 DEF RunProceeds
  <2>2. ~\E k \in Controls : k < 1
    BY PlanAssumption
  <2> QED
    BY <1>1, <2>1, <2>2 DEF Good, Counted, Run
<1>6. CASE WriteUnavailable(r)
  <2>1. run'[r] = [run[r] EXCEPT !.phase = "done", !.result = "failed"]
        /\ run[r].phase = "writing"
    BY <1>1, <1>6 DEF WriteUnavailable, End
  <2>2. Counted(r)'
    BY <1>1, <2>1, CountedStays DEF Good, Run
  <2> QED
    BY <1>1, <2>1, <2>2 DEF Good, Run
<1>7. CASE WriteRefused(r)
  <2>1. run'[r] = [run[r] EXCEPT !.phase = "verifying"] /\ run[r].phase = "writing"
    BY <1>1, <1>7 DEF WriteRefused
  <2>2. Counted(r)'
    BY <1>1, <2>1, CountedStays DEF Good, Run
  <2> QED
    BY <1>1, <2>1, <2>2 DEF Good, Run
<1>8. CASE WriteTimesOut(r)
  <2>1. run'[r] = [run[r] EXCEPT !.phase = "verifying", !.sent = run[r].sent \cup Slice(r)]
        /\ run[r].phase = "writing"
    BY <1>1, <1>8 DEF WriteTimesOut
  <2>2. Slice(r) \subseteq run[r].approved.changes
    BY DEF Slice
  <2>3. Counted(r)'
    BY <1>1, <2>1, CountedStays DEF Good, Run
  <2> QED
    BY <1>1, <2>1, <2>2, <2>3 DEF Good, Run
<1>9. CASE LateExpires(r)
  <2>1. PICK c \in run[r].sent : run'[r] = [run[r] EXCEPT !.sent = run[r].sent \ {c}]
    BY <1>1, <1>9 DEF LateExpires
  <2>2. Counted(r)'
    BY <1>1, <2>1, CountedStays DEF Good, Run
  <2> QED
    BY <1>1, <2>1, <2>2 DEF Good, Run
<1>10. CASE WriteLands(r)
  BY <1>10, LandingGood DEF WriteLands, Slice
<1>11. CASE LateWrite(r)
  BY <1>11, LandingGood DEF LateWrite, Good
<1>12. CASE StepVerified(r)
  <2>1. PICK ok \in {FALSE, ReadBack(r)} : Verified(r, ok)
    BY <1>12 DEF StepVerified
  <2>2. run[r].phase = "verifying" /\ run[r].result = "none" /\ run[r].at \in Controls
    BY <1>1, <1>12 DEF StepVerified, Good, Run
  <2>3. ok => Confirmed(r, run[r].at)
    BY <2>2 DEF ReadBack, Slice, Confirmed
  <2> DEFINE v == run[r].verified /\ ok
  <2>4. ASSUME v, NEW k \in Controls, k <= run[r].at PROVE Confirmed(r, k)
    BY <2>2, <2>3, <2>4, PlanAssumption DEF Good, Counted
  <2>5. CASE run[r].at < K
    <3>1. run'[r] = [run[r] EXCEPT !.phase = "writing", !.at = run[r].at + 1, !.verified = v]
      BY <1>1, <2>1, <2>5 DEF Verified
    <3>2. /\ run'[r].phase = "writing" /\ run'[r].at = run[r].at + 1 /\ run'[r].verified = v
          /\ run'[r].approved = run[r].approved /\ run'[r].status = run[r].status
          /\ run'[r].sent = run[r].sent /\ run'[r].landed = run[r].landed
          /\ run'[r].pass = run[r].pass /\ run'[r].result = run[r].result
      BY <1>1, <3>1 DEF Run
    <3> HIDE DEF v
    <3>3. \A k \in Controls : k < run[r].at + 1 => k <= run[r].at
      BY <2>2, PlanAssumption
    <3>4. Counted(r)'
      BY <2>2, <2>4, <3>2, <3>3, ConfirmedStays DEF Counted
    <3> QED
      BY <2>2, <3>2, <3>4 DEF Good, Finished
  <2>6. CASE ~(run[r].at < K)
    <3>1. run'[r] = [run[r] EXCEPT !.phase = "done", !.result = "completed", !.verified = v]
      BY <1>1, <2>1, <2>6 DEF Verified, End
    <3>2. /\ run'[r].phase = "done" /\ run'[r].at = run[r].at /\ run'[r].verified = v
          /\ run'[r].approved = run[r].approved /\ run'[r].status = run[r].status
          /\ run'[r].sent = run[r].sent /\ run'[r].landed = run[r].landed
          /\ run'[r].pass = run[r].pass
      BY <1>1, <3>1 DEF Run
    <3> HIDE DEF v
    <3>3. \A k \in Controls : k <= run[r].at
      BY <2>2, <2>6, PlanAssumption
    <3>4. Counted(r)'
      BY <2>4, <3>2, <3>3, ConfirmedStays DEF Counted
    <3> QED
      BY <2>2, <3>2, <3>4 DEF Good, Finished
  <2> QED
    BY <2>5, <2>6
<1> QED
  BY <1>2, <1>3, <1>4, <1>5, <1>6, <1>7, <1>8, <1>9, <1>10, <1>11, <1>12 DEF Executing

\* A step touches the record of at most one run.
LEMMA OneRunSteps ==
  ASSUME TypeOK, [Next]_vars
  PROVE  \/ run' = run
         \/ \E r \in RunIds :
              /\ \/ \E i \in CardIds : Approve(r, i)
                 \/ Executing(r) \/ LateWrite(r) \/ LateExpires(r)
              /\ \A s \in RunIds \ {r} : run'[s] = run[s]
<1>1. ASSUME NEW r \in RunIds,
             \/ \E i \in CardIds : Approve(r, i)
             \/ Executing(r) \/ LateWrite(r) \/ LateExpires(r)
      PROVE  \A s \in RunIds \ {r} : run'[s] = run[s]
  <2>1. run \in [RunIds -> Run]
    BY DEF TypeOK
  <2> QED
    BY <1>1, <2>1 DEF Approve, Executing, LateWrite, LateExpires, RunReads, RunFails, RunAborts,
       RunProceeds, WriteUnavailable, WriteLands, WriteRefused, WriteTimesOut, StepVerified,
       Landing, Verified, End
<1>2. CASE UNCHANGED vars
  BY <1>2 DEF vars
<1>3. CASE \E a \in Agents : Shadows(a)
  BY <1>3 DEF Shadows, ShadowReads, ShadowEnds
<1>4. CASE \E a \in Agents, t \in Times : StageFiring(a, t)
  BY <1>4 DEF StageFiring
<1>5. CASE \E n \in AnswerIds : Answering(n)
                 \/ \E i \in CardIds, v \in Values \cup {None} : Answer(n, i, v)
  BY <1>5, AnswerType
<1>6. CASE \/ \E a \in Agents : GrantAutonomy(a)
           \/ SetGranted \/ Tick
           \/ \E k \in Controls, v \in Values : EditPage(k, v)
  BY <1>6, WorldType
<1> QED
  BY <1>1, <1>2, <1>3, <1>4, <1>5, <1>6 DEF Next, User, World

\* The invariant of the approved runs is inductive.
LEMMA NextRun == TypeOK /\ RunInv /\ [Next]_vars => RunInv'
<1> SUFFICES ASSUME TypeOK, RunInv, [Next]_vars, NEW s \in RunIds PROVE Good(s)'
  BY DEF RunInv
<1>1. Good(s)
  BY DEF RunInv
<1>2. CASE run' = run
  BY <1>1, <1>2, GoodFrame
<1>3. ASSUME NEW r \in RunIds,
             \/ \E i \in CardIds : Approve(r, i)
             \/ Executing(r) \/ LateWrite(r) \/ LateExpires(r),
             \A q \in RunIds \ {r} : run'[q] = run[q]
      PROVE  Good(s)'
  BY <1>1, <1>3, RunGood, GoodFrame
<1> QED
  BY <1>2, <1>3, OneRunSteps

\* The types, the pool's bound and the invariant of the runs hold throughout.
THEOREM RunInvariant == Spec => [](TypeOK /\ PoolInv /\ RunInv)
<1>1. TypeOK /\ PoolInv /\ RunInv /\ [Next]_vars => (TypeOK /\ PoolInv /\ RunInv)'
  BY NextType, NextRun
<1>2. Init => TypeOK /\ PoolInv /\ RunInv
  BY InitType, InitRun
<1> QED
  BY <1>1, <1>2, PTL DEF Spec

\* The stale-page abort: a run whose fresh proposal differs from the approved one
\* writes nothing, also not with a request that is still on its way.
THEOREM StaleAborts == Spec => []StaleWritesNothing
<1>1. RunInv => StaleWritesNothing
  BY DEF RunInv, Good, Stale, StaleWritesNothing
<1> QED
  BY <1>1, RunInvariant, PTL

\* The card's "Done, and read back to confirm" is true of the whole plan.
THEOREM VerifiedRunsAreWhole == Spec => []VerifiedMeansWhole
<1>1. ASSUME TypeOK, RunInv, NEW r \in RunIds, run[r].result = "completed", run[r].verified
      PROVE  /\ run[r].landed = run[r].approved.changes
             /\ {c.control : c \in run[r].landed} = Controls /\ Press = {}
  <2>1. run[r] \in Run /\ run[r].approved.changes \subseteq Change
    BY <1>1 DEF TypeOK, Run, Diff
  <2>2. \A k \in Controls : Confirmed(r, k)
    BY <1>1 DEF RunInv, Good, Counted
  <2>3. \A c \in Change : c.control \in Controls
    BY PlanAssumption DEF Change
  <2>4. run[r].landed = run[r].approved.changes
    BY <1>1, <2>1, <2>2, <2>3 DEF RunInv, Good, Approved, Confirmed
  <2>5. {c.control : c \in run[r].landed} = Controls
    BY <2>1, <2>2, <2>3, <2>4 DEF Confirmed
  <2>6. Press = {}
    BY <2>2, PlanAssumption DEF Confirmed
  <2> QED
    BY <2>4, <2>5, <2>6
<1>2. TypeOK /\ RunInv => VerifiedMeansWhole
  BY <1>1 DEF VerifiedMeansWhole
<1> QED
  BY <1>2, RunInvariant, PTL

\* Optimistic concurrency: whoever edits the page and however late a write
\* arrives, a field changes only from the value shown to the value approved.
THEOREM WritesAreShown == Spec => OnlyShownChanges
<1> DEFINE Shows == \A k \in Controls :
             page'[k] # page[k] /\ edits' = edits =>
               \E r \in RunIds : \E c \in run[r].approved.changes :
                 c.control = k /\ c.old = page[k] /\ c.new = page'[k]
<1>1. ASSUME TypeOK, RunInv, [Next]_vars PROVE Shows
  <2>1. ASSUME NEW r \in RunIds, NEW c \in run[r].approved.changes, NEW ph, NEW b,
               Landing(r, c, ph, b)
        PROVE  Shows
    <3>1. c \in Change /\ page \in [Controls -> Values]
      BY <1>1 DEF TypeOK, Run, Diff
    <3> QED
      BY <2>1, <3>1 DEF Landing, Applies, Effect, Change
  <2>2. ASSUME NEW r \in RunIds, Executing(r) \/ LateWrite(r) \/ LateExpires(r)
        PROVE  Shows
    <3>1. CASE WriteLands(r)
      BY <2>1, <3>1 DEF WriteLands, Slice
    <3>2. CASE LateWrite(r)
      BY <1>1, <2>1, <3>2 DEF LateWrite, RunInv, Good, Approved
    <3>3. CASE ~WriteLands(r) /\ ~LateWrite(r)
      <4>1. page' = page
        BY <2>2, <3>3 DEF Executing, LateExpires, RunReads, RunFails, RunAborts, RunProceeds,
           WriteUnavailable, WriteRefused, WriteTimesOut, StepVerified, Leave
      <4> QED
        BY <4>1
    <3> QED
      BY <3>1, <3>2, <3>3
  <2>3. CASE UNCHANGED page
    BY <2>3
  <2>4. ASSUME NEW k \in Controls, NEW v \in Values, EditPage(k, v) PROVE Shows
    BY <1>1, <2>4 DEF EditPage, TypeOK
  <2>5. \/ UNCHANGED page
        \/ \E k \in Controls, v \in Values : EditPage(k, v)
        \/ \E r \in RunIds : Executing(r) \/ LateWrite(r) \/ LateExpires(r)
    BY <1>1 DEF Next, vars, Shadows, ShadowReads, ShadowEnds, Answering, AnswerReads,
       AnswerLands, User, GrantAutonomy, Answer, Approve, SetGranted, World, StageFiring, Tick
  <2> QED
    BY <2>2, <2>3, <2>4, <2>5
<1>2. TypeOK /\ RunInv /\ [Next]_vars => [Shows]_vars
  BY <1>1
<1> QED
  BY <1>2, RunInvariant, PTL DEF Spec, OnlyShownChanges

-----------------------------------------------------------------------------
(* The shadow pool. *)

\* The agents that are queued, and those that are run.
Waiting(q) == {q[m].agent : m \in 1..Len(q)}
Working(jobs) == {j.agent : j \in jobs}

\* Nobody is queued or run twice.
Once(q, jobs) ==
  /\ \A m, n \in 1..Len(q) : q[m].agent = q[n].agent => m = n
  /\ \A i, j \in jobs : i.agent = j.agent => i = j
  /\ Waiting(q) \cap Working(jobs) = {}

\* The pool, with its doubles ruled out and no free worker while somebody waits.
ExactInv ==
  /\ Once(queue, running) /\ inFlight = Waiting(queue) \cup Working(running)
  /\ queue # <<>> => Cardinality(running) = PoolSize

\* A one-to-one image has as many elements.
LEMMA OneToOne ==
  ASSUME NEW S, IsFiniteSet(S), NEW T, NEW f \in [S -> T],
         \A x, y \in S : f[x] = f[y] => x = y, \A z \in T : \E x \in S : f[x] = z
  PROVE  IsFiniteSet(T) /\ Cardinality(T) = Cardinality(S)
<1>1. f \in Bijection(S, T)
  BY DEF Bijection, Injection, Surjection, IsInjective
<1> QED
  BY <1>1, FS_Bijection DEF ExistsBijection

\* The numbers from 1 to n are n.
LEMMA CountTo ==
  ASSUME NEW n \in Nat
  PROVE  IsFiniteSet(1..n) /\ Cardinality(1..n) = n
BY FS_Interval

\* A queue without doubles counts as many agents as it has entries.
LEMMA WaitingCount ==
  ASSUME NEW q \in Seq(QueueItem), \A m, n \in 1..Len(q) : q[m].agent = q[n].agent => m = n
  PROVE  IsFiniteSet(Waiting(q)) /\ Cardinality(Waiting(q)) = Len(q)
<1> DEFINE f == [m \in 1..Len(q) |-> q[m].agent]
<1>1. f \in [1..Len(q) -> Waiting(q)] /\ \A z \in Waiting(q) : \E x \in 1..Len(q) : f[x] = z
  BY DEF Waiting
<1>2. \A x, y \in 1..Len(q) : f[x] = f[y] => x = y
  OBVIOUS
<1>3. Len(q) \in Nat
  BY LenProperties
<1>4. IsFiniteSet(1..Len(q)) /\ Cardinality(1..Len(q)) = Len(q)
  BY <1>3, CountTo
<1> HIDE DEF f
<1> QED
  BY <1>1, <1>2, <1>4, OneToOne

\* Jobs of different agents count as many agents.
LEMMA WorkingCount ==
  ASSUME NEW jobs, IsFiniteSet(jobs), \A i, j \in jobs : i.agent = j.agent => i = j
  PROVE  IsFiniteSet(Working(jobs)) /\ Cardinality(Working(jobs)) = Cardinality(jobs)
<1> DEFINE f == [j \in jobs |-> j.agent]
<1>1. f \in [jobs -> Working(jobs)] /\ \A z \in Working(jobs) : \E x \in jobs : f[x] = z
  BY DEF Working
<1>2. \A x, y \in jobs : f[x] = f[y] => x = y
  OBVIOUS
<1> HIDE DEF f
<1> QED
  BY <1>1, <1>2, OneToOne

\* pumpShadowQueue starts the head of the queue: as many as there are free workers.
LEMMA PumpExact ==
  ASSUME NEW q \in Seq(QueueItem), NEW jobs \in SUBSET Job, IsFiniteSet(jobs),
         Cardinality(jobs) <= PoolSize, Once(q, jobs), Pump(q, jobs)
  PROVE  /\ Once(queue', running')
         /\ Waiting(queue') \cup Working(running') = Waiting(q) \cup Working(jobs)
         /\ queue' # <<>> => Cardinality(running') = PoolSize
<1> DEFINE free == PoolSize - Cardinality(jobs)
           n == IF free < Len(q) THEN free ELSE Len(q)
           started(m) == [agent |-> q[m].agent, at |-> q[m].at, pass |-> Fresh]
           T == {started(m) : m \in 1..n}
<1>1. free \in Nat /\ Len(q) \in Nat
  BY FS_CardinalityType, SizesAssumption, LenProperties
<1>2. n \in Nat /\ n <= free /\ n <= Len(q) /\ (n < Len(q) => n = free)
  BY <1>1
<1>3. queue' = SubSeq(q, n + 1, Len(q)) /\ running' = jobs \cup T
  BY DEF Pump
<1>4. PoolSize = Cardinality(jobs) + free /\ Cardinality(jobs) \in Nat
  BY FS_CardinalityType, SizesAssumption
<1>5. \A m \in 1..n : started(m).agent = q[m].agent /\ m \in 1..Len(q)
  BY <1>1, <1>2
<1> HIDE DEF n, free
<1>6. /\ queue' \in Seq(QueueItem) /\ Len(queue') = Len(q) - n
      /\ \A m \in 1..(Len(q) - n) : queue'[m] = q[n + m] /\ n + m \in 1..Len(q)
  <2>1. \A m \in (n + 1)..Len(q) : q[m] \in QueueItem
    BY <1>1, <1>2, ElementOfSeq
  <2>2. n + 1 \in Int /\ Len(q) \in Int
    BY <1>1, <1>2
  <2>3. /\ queue' \in Seq(QueueItem)
        /\ Len(queue') = IF n + 1 <= Len(q) THEN Len(q) - (n + 1) + 1 ELSE 0
        /\ \A m \in 1..(Len(q) - (n + 1) + 1) : queue'[m] = q[n + 1 + m - 1]
    BY <1>3, <2>1, <2>2, SubSeqProperties
  <2>4. Len(q) - (n + 1) + 1 = Len(q) - n /\ \A m \in 1..(Len(q) - n) : n + 1 + m - 1 = n + m
    BY <1>1, <1>2
  <2> QED
    BY <1>1, <1>2, <2>3, <2>4
<1>7. \A m \in 1..Len(q) : m \notin 1..n => m - n \in 1..(Len(q) - n) /\ queue'[m - n] = q[m]
  BY <1>1, <1>2, <1>6
<1> DEFINE headOf == {q[m].agent : m \in 1..n}
<1>8. Working(running') = Working(jobs) \cup headOf
  BY <1>3, <1>5 DEF Working
<1>9. Waiting(q) = Waiting(queue') \cup headOf
  <2>1. Waiting(queue') = {q[n + m].agent : m \in 1..(Len(q) - n)}
    BY <1>6 DEF Waiting
  <2>2. Waiting(queue') \subseteq Waiting(q) /\ headOf \subseteq Waiting(q)
    BY <2>1, <1>5, <1>6 DEF Waiting
  <2>3. ASSUME NEW m \in 1..Len(q) PROVE q[m].agent \in Waiting(queue') \cup headOf
    <3>1. CASE m \in 1..n
      BY <3>1
    <3>2. CASE m \notin 1..n
      BY <3>2, <1>6, <1>7 DEF Waiting
    <3> QED
      BY <3>1, <3>2
  <2> QED
    BY <2>2, <2>3 DEF Waiting
<1>10. Waiting(queue') \cap headOf = {} /\ Waiting(queue') \subseteq Waiting(q) /\ headOf \subseteq Waiting(q)
  <2>1. ASSUME NEW m \in 1..(Len(q) - n), NEW k \in 1..n, queue'[m].agent = q[k].agent PROVE FALSE
    <3>1. n + m = k
      BY <1>5, <1>6, <2>1 DEF Once
    <3> QED
      BY <1>1, <1>2, <3>1
  <2>2. Waiting(queue') \cap headOf = {}
    BY <1>6, <2>1 DEF Waiting
  <2> QED
    BY <1>9, <2>2
<1>11. Once(queue', running')
  <2>1. \A m, k \in 1..Len(queue') : queue'[m].agent = queue'[k].agent => m = k
    <3> SUFFICES ASSUME NEW m \in 1..(Len(q) - n), NEW k \in 1..(Len(q) - n), queue'[m].agent = queue'[k].agent
                 PROVE  m = k
      BY <1>6
    <3>1. n + m = n + k
      BY <1>6 DEF Once
    <3> QED
      BY <1>1, <1>2, <3>1
  <2>2. \A i, j \in running' : i.agent = j.agent => i = j
    <3>1. ASSUME NEW i \in jobs, NEW m \in 1..n, i.agent = started(m).agent PROVE FALSE
      BY <1>5, <3>1 DEF Once, Waiting, Working
    <3>2. \A m, k \in 1..n : started(m).agent = started(k).agent => m = k
      BY <1>5 DEF Once
    <3> QED
      BY <1>3, <3>1, <3>2 DEF Once
  <2> QED
    BY <2>1, <2>2, <1>8, <1>10 DEF Once
<1>12. queue' # <<>> => Cardinality(running') = PoolSize
  <2> SUFFICES ASSUME queue' # <<>> PROVE Cardinality(running') = PoolSize
    OBVIOUS
  <2>1. n = free
    <3>1. Len(queue') # 0
      BY <1>6, EmptySeq
    <3> QED
      BY <1>1, <1>2, <1>6, <3>1
  <2> DEFINE f == [m \in 1..n |-> started(m)]
  <2>2. /\ f \in [1..n -> T] /\ \A z \in T : \E x \in 1..n : f[x] = z
        /\ \A x, y \in 1..n : f[x] = f[y] => x = y
    <3>1. ASSUME NEW m \in 1..n, NEW k \in 1..n, started(m) = started(k) PROVE m = k
      <4>1. q[m].agent = q[k].agent
        BY <3>1
      <4> QED
        BY <4>1, <1>5 DEF Once
    <3> QED
      BY <3>1
  <2>3. IsFiniteSet(1..n) /\ Cardinality(1..n) = n
    BY <1>2, CountTo
  <2> HIDE DEF f, T
  <2>4. IsFiniteSet(T) /\ Cardinality(T) = n
    BY <2>2, <2>3, OneToOne
  <2>5. jobs \cap T = {}
    <3>1. ASSUME NEW i \in jobs, NEW m \in 1..n, i = started(m) PROVE FALSE
      BY <1>5, <3>1, SMTT(30) DEF Once, Waiting, Working
    <3> QED
      BY <3>1 DEF T
  <2>6. Cardinality(jobs \cup T) = Cardinality(jobs) + n - 0
    BY <2>4, <2>5, FS_Union, FS_EmptySet
  <2> QED
    BY <1>1, <1>3, <1>4, <2>1, <2>6
<1> QED
  BY <1>8, <1>9, <1>11, <1>12

\* Every step keeps the pool exact.
LEMMA NextExact == TypeOK /\ PoolInv /\ ExactInv /\ [Next]_vars => ExactInv'
<1> SUFFICES ASSUME TypeOK, PoolInv, ExactInv, [Next]_vars PROVE ExactInv'
  OBVIOUS
<1>1. UNCHANGED pool => ExactInv'
  <2>1. CASE UNCHANGED pool
    <3>1. queue' = queue /\ running' = running /\ inFlight' = inFlight
      BY <2>1
    <3>2. Once(queue, running)' /\ Waiting(queue)' = Waiting(queue) /\ Working(running)' = Working(running)
      BY <3>1 DEF ExactInv, Once, Waiting, Working
    <3> QED
      BY <3>1, <3>2 DEF ExactInv
  <2> QED
    BY <2>1
<1>2. ASSUME NEW a \in Agents, NEW t \in Times, StageFiring(a, t) PROVE ExactInv'
  <2>1. CASE UNCHANGED pool
    BY <1>1, <2>1
  <2>2. CASE ~UNCHANGED pool
    <3> DEFINE item == [agent |-> a, at |-> t]
               q == Append(queue, item)
    <3>1. /\ a \notin inFlight /\ inFlight' = inFlight \cup {a}
          /\ Pump(q, running)
      BY <1>2, <2>2 DEF StageFiring, Enqueue
    <3>2. queue \in Seq(QueueItem) /\ item \in QueueItem /\ item.agent = a
      BY DEF TypeOK, QueueItem
    <3> HIDE DEF item
    <3>3. /\ q \in Seq(QueueItem) /\ Len(q) = Len(queue) + 1 /\ Len(queue) \in Nat
          /\ \A m \in 1..Len(queue) : q[m] = queue[m]
          /\ q[Len(queue) + 1] = item
      BY <3>2, AppendProperties, LenProperties
    <3> HIDE DEF q
    <3>4. Waiting(q) = Waiting(queue) \cup {a}
      BY <3>2, <3>3 DEF Waiting
    <3>5. \A m \in 1..Len(queue) : q[m].agent # a
      BY <3>1, <3>3 DEF ExactInv, Waiting
    <3>6. Once(q, running)
      <4>1. ASSUME NEW m \in 1..Len(q), NEW n \in 1..Len(q), q[m].agent = q[n].agent PROVE m = n
        <5>1. CASE m = Len(queue) + 1 \/ n = Len(queue) + 1
          BY <3>2, <3>3, <3>5, <4>1, <5>1
        <5>2. CASE m \in 1..Len(queue) /\ n \in 1..Len(queue)
          BY <3>3, <4>1, <5>2 DEF ExactInv, Once
        <5> QED
          BY <3>3, <5>1, <5>2
      <4> QED
        BY <3>1, <3>4, <4>1 DEF ExactInv, Once
    <3>7. running \in SUBSET Job
      BY DEF TypeOK
    <3> QED
      BY <3>1, <3>3, <3>4, <3>6, <3>7, PumpExact DEF PoolInv, ExactInv
  <2> QED
    BY <2>1, <2>2
<1>3. ASSUME NEW j \in running, ShadowReads(j) PROVE ExactInv'
  <2>1. PICK p : running' = (running \ {j}) \cup {[j EXCEPT !.pass = p]}
    BY <1>3 DEF ShadowReads
  <2> DEFINE i == [j EXCEPT !.pass = p]
  <2>2. i.agent = j.agent /\ queue' = queue /\ inFlight' = inFlight
    BY <1>3 DEF ShadowReads, TypeOK, Job
  <2> HIDE DEF i
  <2>3. running' = (running \ {j}) \cup {i} /\ i \notin running \ {j}
    BY <2>1, <2>2 DEF ExactInv, Once, i
  <2>4. Working(running') = Working(running)
    BY <2>2, <2>3 DEF Working
  <2>5. Cardinality(running') = Cardinality(running)
    <3>1. IsFiniteSet(running \ {j}) /\ Cardinality(running \ {j}) = Cardinality(running) - 1
      BY FS_RemoveElement DEF PoolInv
    <3>2. Cardinality(running') = Cardinality(running) - 1 + 1
      BY <2>3, <3>1, FS_AddElement
    <3>3. Cardinality(running) \in Nat
      BY FS_CardinalityType DEF PoolInv
    <3> QED
      BY <3>2, <3>3
  <2>6. \A k, l \in running' : k.agent = l.agent => k = l
    BY <2>2, <2>3 DEF ExactInv, Once
  <2> QED
    BY <2>2, <2>4, <2>5, <2>6 DEF ExactInv, Once
<1>4. ASSUME NEW j \in running, ShadowEnds(j) PROVE ExactInv'
  <2>1. inFlight' = inFlight \ {j.agent} /\ Pump(queue, running \ {j})
    BY <1>4 DEF ShadowEnds
  <2>2. Working(running \ {j}) = Working(running) \ {j.agent}
    BY DEF ExactInv, Once, Working
  <2>3. Once(queue, running \ {j}) /\ j.agent \notin Waiting(queue)
    BY <2>2 DEF ExactInv, Once, Working
  <2>4. IsFiniteSet(running \ {j}) /\ Cardinality(running \ {j}) <= PoolSize
    <3>1. IsFiniteSet(running \ {j}) /\ Cardinality(running \ {j}) = Cardinality(running) - 1
      BY FS_RemoveElement DEF PoolInv
    <3> QED
      BY <3>1, FS_CardinalityType, SizesAssumption DEF PoolInv
  <2>5. queue \in Seq(QueueItem) /\ running \ {j} \in SUBSET Job
    BY DEF TypeOK, QueueItem
  <2> QED
    BY <2>1, <2>2, <2>3, <2>4, <2>5, PumpExact DEF ExactInv
<1>5. \/ UNCHANGED pool
      \/ \E a \in Agents, t \in Times : StageFiring(a, t)
      \/ \E j \in running : ShadowReads(j) \/ ShadowEnds(j)
  <2>1. CASE UNCHANGED vars
    BY <2>1 DEF vars
  <2>2. ASSUME NEW a \in Agents, Shadows(a) PROVE \E j \in running : ShadowReads(j) \/ ShadowEnds(j)
    BY <2>2 DEF Shadows
  <2>3. ASSUME NEW n \in AnswerIds, Answering(n) PROVE UNCHANGED pool
    BY <2>3 DEF Answering, AnswerReads, AnswerLands
  <2>4. ASSUME NEW r \in RunIds, Executing(r) \/ LateWrite(r) \/ LateExpires(r) PROVE UNCHANGED pool
    BY <2>4 DEF Executing, LateWrite, LateExpires, RunReads, RunFails, RunAborts, RunProceeds, Landing,
       WriteUnavailable, WriteLands, WriteRefused, WriteTimesOut, StepVerified, Leave
  <2>5. CASE User
    BY <2>5 DEF User, GrantAutonomy, Answer, Approve, SetGranted
  <2>6. CASE World /\ ~\E a \in Agents, t \in Times : StageFiring(a, t)
    BY <2>4, <2>6 DEF World, EditPage, Tick
  <2> QED
    BY <2>1, <2>2, <2>3, <2>4, <2>5, <2>6 DEF Next
<1> QED
  BY <1>1, <1>2, <1>3, <1>4, <1>5

\* An agent is in flight while it is queued or running, once, no more than PoolSize jobs run and none
\* waits while a worker is free, whatever fires, reads and ends.
THEOREM PoolStaysExact == Spec => []PoolIsExact
<1>1. Init => ExactInv
  BY FS_EmptySet DEF Init, ExactInv, Once, Waiting, Working
<1>2. TypeOK /\ PoolInv /\ ExactInv => PoolIsExact
  <2> SUFFICES ASSUME TypeOK, PoolInv, ExactInv PROVE PoolIsExact
    OBVIOUS
  <2>1. Busy = Waiting(queue) \cup Working(running)
    BY DEF Busy, Waiting, Working
  <2>2. IsFiniteSet(Waiting(queue)) /\ Cardinality(Waiting(queue)) = Len(queue)
    BY WaitingCount DEF ExactInv, Once, TypeOK, QueueItem
  <2>3. IsFiniteSet(Working(running)) /\ Cardinality(Working(running)) = Cardinality(running)
    BY WorkingCount DEF ExactInv, Once, PoolInv
  <2>4. Cardinality(Waiting(queue) \cap Working(running)) = 0
    BY FS_EmptySet DEF ExactInv, Once
  <2>5. Len(queue) \in Nat /\ Cardinality(running) \in Nat
    BY FS_CardinalityType, LenProperties DEF TypeOK, PoolInv
  <2>6. Cardinality(Busy) = Len(queue) + Cardinality(running) - 0
    BY <2>1, <2>2, <2>3, <2>4, FS_Union
  <2> QED
    BY <2>1, <2>5, <2>6 DEF PoolIsExact, ExactInv, PoolInv
<1> QED
  BY <1>1, <1>2, NextExact, TypeCorrect, PTL DEF Spec

-----------------------------------------------------------------------------
(* The list of cards. *)

\* A card that is listed is listed once, and its id is used.
ListedOnce ==
  /\ \A m, n \in 1..Len(staged) : staged[m] = staged[n] => m = n
  /\ \A m \in 1..Len(staged) : card[staged[m]].kind # "none"

ListInv == ListedOnce /\ OneCardPerWindow

\* A step that lists no card: whose a card is and when it fired stay, and its id stays used.
SameCards ==
  /\ staged' = staged
  /\ \A i \in CardIds :
       /\ card'[i].agent = card[i].agent /\ card'[i].at = card[i].at
       /\ card[i].kind # "none" => card'[i].kind # "none"

\* Such a step keeps the list as it should be.
LEMMA SameCardsKeeps == ASSUME TypeOK, ListInv, SameCards PROVE ListInv'
<1>1. \A m \in 1..Len(staged) : staged[m] \in CardIds
  BY ElementOfSeq DEF TypeOK
<1>2. ListedOnce'
  BY <1>1 DEF ListInv, ListedOnce, SameCards
<1>3. OneCardPerWindow'
  BY <1>1 DEF ListInv, OneCardPerWindow, SameCards
<1> QED
  BY <1>2, <1>3 DEF ListInv

\* updateStaged gives a used card another kind.
LEMMA UpdateKeeps ==
  ASSUME TypeOK, NEW i, NEW kind \in Kinds \ {"none"}, NEW diff, NEW answer,
         Update(i, kind, diff, answer), staged' = staged
  PROVE  SameCards
BY DEF TypeOK, Update, SameCards, Card

\* pushStaged puts a card in front only where no card of its agent is within the cooldown.
LEMMA PushKeeps ==
  ASSUME TypeOK, ListInv, NEW a \in Agents, NEW t \in Times, NEW kind \in Kinds \ {"none"}, NEW diff \in Diff,
         Push(a, t, kind, diff)
  PROVE  ListInv'
<1>1. CASE Duplicate(a, t)
  <2>1. SameCards
    BY <1>1 DEF Push, SameCards
  <2> QED
    BY <2>1, SameCardsKeeps
<1>2. CASE ~Duplicate(a, t)
  <2> DEFINE n == IF Len(staged) < Cap THEN Len(staged) + 1 ELSE Cap
             new == [agent |-> a, at |-> t, kind |-> kind, diff |-> diff, answer |-> None]
  <2>1. PICK i \in Unused :
          staged' = SubSeq(<<i>> \o staged, 1, n) /\ card' = [card EXCEPT ![i] = new]
    BY <1>2 DEF Push
  <2> DEFINE s == <<i>> \o staged
  <2>2. /\ i \in CardIds /\ card[i].kind = "none" /\ <<i>> \in Seq(CardIds)
        /\ Len(<<i>>) = 1 /\ <<i>>[1] = i
    BY DEF Unused
  <2>3. staged \in Seq(CardIds) /\ Len(staged) \in Nat /\ Len(staged) <= Cap
    BY DEF TypeOK
  <2>4. /\ s \in Seq(CardIds) /\ Len(s) = Len(staged) + 1 /\ s[1] = i
        /\ \A m \in 2..(Len(staged) + 1) : s[m] = staged[m - 1]
    <3>1. /\ s \in Seq(CardIds) /\ Len(s) = 1 + Len(staged)
          /\ \A m \in 1..(1 + Len(staged)) : s[m] = IF m <= 1 THEN <<i>>[m] ELSE staged[m - 1]
      BY <2>2, <2>3, ConcatProperties
    <3> QED
      BY <2>2, <2>3, <3>1
  <2>5. n \in Nat /\ 1 <= n /\ n <= Len(staged) + 1
    BY <2>3, SizesAssumption
  <2>6. staged' = SubSeq(s, 1, n)
    BY <2>1
  <2>7. new.agent = a /\ new.at = t /\ new.kind = kind
    OBVIOUS
  <2> HIDE DEF s, n, new
  <2>8. Len(staged') = n /\ \A m \in 1..n : staged'[m] = s[m]
    <3>1. \A m \in 1..n : s[m] \in CardIds
      <4>1. \A m \in 1..n : m \in 1..Len(s)
        BY <2>3, <2>4, <2>5
      <4> QED
        BY <2>4, <4>1, ElementOfSeq
    <3>2. /\ Len(SubSeq(s, 1, n)) = IF 1 <= n THEN n - 1 + 1 ELSE 0
          /\ \A m \in 1..(n - 1 + 1) : SubSeq(s, 1, n)[m] = s[1 + m - 1]
      BY <2>5, <3>1, SubSeqProperties
    <3>3. \A m \in 1..n : 1 + m - 1 = m
      BY <2>5
    <3> QED
      BY <2>5, <2>6, <3>2, <3>3
  <2>9. /\ staged'[1] = i
        /\ \A m \in 2..n : m - 1 \in 1..Len(staged) /\ staged'[m] = staged[m - 1]
    BY <2>3, <2>4, <2>5, <2>8
  <2>10. \A m \in 1..Len(staged) : staged[m] \in CardIds /\ staged[m] # i
    BY <2>2, <2>3, ElementOfSeq DEF ListInv, ListedOnce
  <2>11. card'[i] = new /\ \A m \in 1..Len(staged) : card'[staged[m]] = card[staged[m]]
    BY <2>1, <2>2, <2>10 DEF TypeOK
  <2>12. ListedOnce'
    <3>1. ASSUME NEW m \in 1..n, NEW k \in 1..n, staged'[m] = staged'[k] PROVE m = k
      <4>1. CASE m = 1 \/ k = 1
        <5>1. \A l \in 2..n : staged'[l] # i
          BY <2>9, <2>10
        <5> QED
          BY <2>5, <2>9, <3>1, <4>1, <5>1
      <4>2. CASE m \in 2..n /\ k \in 2..n
        <5>1. m - 1 = k - 1
          BY <2>9, <3>1, <4>2 DEF ListInv, ListedOnce
        <5> QED
          BY <5>1
      <4> QED
        BY <2>5, <4>1, <4>2
    <3>2. ASSUME NEW m \in 1..n PROVE card'[staged'[m]].kind # "none"
      <4>1. CASE m = 1
        BY <2>7, <2>9, <2>11, <4>1
      <4>2. CASE m \in 2..n
        BY <2>9, <2>11, <4>2 DEF ListInv, ListedOnce
      <4> QED
        BY <2>5, <4>1, <4>2
    <3> QED
      BY <2>8, <3>1, <3>2 DEF ListedOnce
  <2>13. \A m \in 1..Len(staged) : card[staged[m]].agent = a =>
           t - card[staged[m]].at >= Cooldown \/ card[staged[m]].at - t >= Cooldown
    <3> SUFFICES ASSUME NEW m \in 1..Len(staged), card[staged[m]].agent = a
                 PROVE  t - card[staged[m]].at >= Cooldown \/ card[staged[m]].at - t >= Cooldown
      OBVIOUS
    <3>1. card[staged[m]].at \in Int /\ t \in Int /\ Cooldown \in Int
      BY <2>10, SizesAssumption, SMTT(30) DEF TypeOK, Card
    <3>2. ~(t - card[staged[m]].at < Cooldown /\ card[staged[m]].at - t < Cooldown)
      BY <1>2 DEF Duplicate
    <3> QED
      BY <3>1, <3>2
  <2>14. ASSUME NEW m \in 1..n, NEW k \in 1..n, m # k,
                card'[staged'[m]].agent = card'[staged'[k]].agent
         PROVE  \/ card'[staged'[m]].at - card'[staged'[k]].at >= Cooldown
                \/ card'[staged'[k]].at - card'[staged'[m]].at >= Cooldown
    <3>1. CASE m = 1
      <4>1. k \in 2..n
        BY <2>5, <2>14, <3>1
      <4> QED
        BY <2>7, <2>9, <2>11, <2>13, <2>14, <3>1, <4>1
    <3>2. CASE k = 1
      <4>1. m \in 2..n
        BY <2>5, <2>14, <3>2
      <4> QED
        BY <2>7, <2>9, <2>11, <2>13, <2>14, <3>2, <4>1
    <3>3. CASE m \in 2..n /\ k \in 2..n
      <4>1. m - 1 # k - 1
        BY <2>14, <3>3
      <4> QED
        BY <2>9, <2>11, <2>14, <3>3, <4>1 DEF ListInv, OneCardPerWindow
    <3> QED
      BY <2>5, <3>1, <3>2, <3>3
  <2>15. OneCardPerWindow'
    BY <2>8, <2>14 DEF OneCardPerWindow
  <2> QED
    BY <2>12, <2>15 DEF ListInv
<1> QED
  BY <1>1, <1>2

\* Every step either pushes a card or leaves whose cards there are as it is.
LEMMA NextList == TypeOK /\ ListInv /\ [Next]_vars => ListInv'
<1> SUFFICES ASSUME TypeOK, ListInv, [Next]_vars PROVE ListInv'
  OBVIOUS
<1>1. UNCHANGED cards => SameCards
  BY DEF SameCards
<1>2. ASSUME NEW a \in Agents, NEW t \in Times, StageFiring(a, t) PROVE ListInv'
  <2>1. CASE autonomy[a]
    BY <1>1, <1>2, <2>1, SameCardsKeeps DEF StageFiring, Enqueue
  <2>2. CASE ~autonomy[a]
    <3>1. Push(a, t, "suggested", NoDiff) /\ "suggested" \in Kinds \ {"none"}
      BY <1>2, <2>2 DEF StageFiring, Kinds
    <3> QED
      BY <3>1, PushKeeps, FreshType
  <2> QED
    BY <2>1, <2>2
<1>3. ASSUME NEW j \in running, ShadowEnds(j) PROVE ListInv'
  <2>1. j.agent \in Agents /\ j.at \in Times /\ j.pass.diff \in Diff
    BY DEF TypeOK, Job, Pass
  <2>2. \E kind \in Kinds \ {"none"}, diff \in Diff : Push(j.agent, j.at, kind, diff)
    BY <1>3, <2>1, FreshType DEF ShadowEnds, Kinds
  <2> QED
    BY <2>1, <2>2, PushKeeps
<1>4. ASSUME NEW j \in running, ShadowReads(j) PROVE SameCards
  BY <1>1, <1>4 DEF ShadowReads
<1>5. ASSUME NEW n \in AnswerIds, Answering(n) PROVE SameCards
  <2>1. CASE AnswerReads(n)
    BY <1>1, <2>1 DEF AnswerReads
  <2>2. CASE AnswerLands(n)
    BY <2>2, UpdateKeeps DEF AnswerLands, Kinds
  <2> QED
    BY <1>5, <2>1, <2>2 DEF Answering
<1>6. ASSUME NEW r \in RunIds, Executing(r) \/ LateWrite(r) \/ LateExpires(r) PROVE SameCards
  <2>1. CASE UNCHANGED cards
    BY <1>1, <2>1
  <2>2. CASE RunFails(r) \/ RunAborts(r) \/ WriteUnavailable(r)
    BY <2>2, UpdateKeeps DEF RunFails, RunAborts, WriteUnavailable, Leave, Kinds
  <2>3. CASE StepVerified(r) /\ ~UNCHANGED cards
    <3>1. /\ staged' = staged
          /\ Update(run[r].card, "completed", run[r].approved, card[run[r].card].answer)
      BY <2>3 DEF StepVerified, Verified, Leave
    <3> QED
      BY <3>1, UpdateKeeps DEF Kinds
  <2> QED
    BY <1>6, <2>1, <2>2, <2>3 DEF Executing, RunReads, RunProceeds, WriteLands, WriteRefused, WriteTimesOut,
       LateWrite, LateExpires, Landing, Leave
<1>7. CASE User
  <2>1. ASSUME NEW r \in RunIds, NEW i \in CardIds, Approve(r, i) PROVE SameCards
    BY <2>1, UpdateKeeps DEF Approve, Kinds
  <2>2. CASE UNCHANGED cards
    BY <1>1, <2>2, SameCardsKeeps
  <2> QED
    BY <1>7, <2>1, <2>2, SameCardsKeeps DEF User, GrantAutonomy, Answer, SetGranted
<1>8. CASE UNCHANGED vars
  BY <1>1, <1>8, SameCardsKeeps DEF vars
<1>9. CASE World
  <2>1. CASE UNCHANGED cards
    BY <1>1, <2>1, SameCardsKeeps
  <2> QED
    BY <1>2, <1>6, <1>9, <2>1, SameCardsKeeps DEF World, EditPage, Tick
<1> QED
  BY <1>3, <1>4, <1>5, <1>6, <1>7, <1>8, <1>9, SameCardsKeeps DEF Next, Shadows

\* Whatever the order in which firings arrive, the list shows one card of an agent per cooldown window
\* (agentService.ts, pushStaged).
THEOREM CardsAreApart == Spec => []OneCardPerWindow
<1>1. Init => ListInv
  BY DEF Init, ListInv, ListedOnce, OneCardPerWindow
<1>2. ListInv => OneCardPerWindow
  BY DEF ListInv
<1>3. Spec => []TypeOK
  BY TypeCorrect, PTL
<1> QED
  BY <1>1, <1>2, <1>3, NextList, PTL DEF Spec

=============================================================================
