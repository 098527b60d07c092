--------------------------- MODULE AgentRunProofs ---------------------------
(***************************************************************************)
(* For every number of steps, spec, set of changes and retry limit:        *)
(* type correctness of AgentRun, its write-safety invariants, the         *)
(* completeness of a clean run, and the contract AgentRun implements.      *)
(***************************************************************************)
EXTENDS AgentRun, FiniteSetTheorems, TLAPS

-----------------------------------------------------------------------------
(* The inductive invariant, by parts. *)

Gate == {"bk_gate", "bk_approval", "waiting"}
Cleared == {"recheck", "bk_apply", "exec_write"}
Ended == {"finalize", "done", "aborted"}

\* Inside a step there is a current step; at and past the gate, a diff.
StepInv ==
  /\ pc \in BeforeWrite \cup Cleared \cup {"bk_verify", "bk_written"} => step \in Steps
  /\ pc \in Gate \cup Cleared => lastDiff # None

\* A step parked at the gate offers the last proposed diff of a real write.
GateInv ==
  /\ pending # None => pc \in Gate \cup {"aborted"}
  /\ pc \in Gate => /\ mode # "shadow"
                    /\ pending = <<step, lastDiff>>
                    /\ approval # None => approval = pending /\ approval \in consents

\* A step let through to its write holds the consent it needs.
ClearedInv ==
  pc \in Cleared => /\ mode # "shadow"
                    /\ plan[step].approval => <<step, lastDiff>> \in consents

\* No diff is handed to a write before its one attempt starts.
FreshInv ==
  /\ attempt >= 1
  /\ inflight => pc = "exec_write"
  /\ \A i \in Steps : i > step => bound[i] = None
  /\ step \in Steps /\ (pc \in BeforeWrite \cup (Cleared \ {"exec_write"})
                         \/ (pc = "exec_write" /\ ~inflight)) => bound[step] = None

\* What is bound was authorised; what is applied is bound, and applied once.
BoundInv ==
  \A i \in Steps :
    /\ bound[i] = None => ~Touched(i)
    /\ bound[i] # None => /\ mode # "shadow"
                          /\ plan[i].approval => <<i, bound[i]>> \in consents
    /\ \A c \in Changes : patched[i][c] > 0 => c \in bound[i] /\ patched[i][c] = 1

\* The attempt in the worker works on a bound diff; what it has yet to do is undone.
WriterInv ==
  wphase # "idle" =>
    /\ bound[wstep] = wdiff
    /\ wtodo \subseteq wdiff
    /\ \A c \in wtodo : patched[wstep][c] = 0

\* After a cancel no later step is ever let through.
CancelInv ==
  /\ \A i \in Steps : i > lastWritable => bound[i] = None
  /\ ~cancellation => lastWritable = N
  /\ cancellation =>
       step <= lastWritable \/ pc \in BeforeWrite \cup Ended \cup {"loop"}

\* After a rejection or an expiry the run only finishes.
RefusalInv ==
  /\ rejection => pc \in Gate \cup Ended /\ step \in Steps /\ bound[step] = None
  /\ status = "expired" => pc \in Ended /\ step \in Steps /\ bound[step] = None
  /\ status \in Final => pc \in Ended

Inv == /\ TypeOK /\ StepInv /\ GateInv /\ ClearedInv /\ FreshInv /\ BoundInv /\ WriterInv
       /\ CancelInv /\ RefusalInv

-----------------------------------------------------------------------------
(* Type correctness. *)

USE DEF Steps, Diffs, MaybeDiff, durable, flow, gate, data, worker, writer, world,
        people, Goto, Finish, Mark

\* The receipt finalizeRun builds is well formed.
LEMMA ReceiptType == TypeOK => BuildReceipt \in Receipts
<1> SUFFICES ASSUME TypeOK PROVE BuildReceipt \in Receipts
  OBVIOUS
<1>1. Proposed \in Nat
  <2>1. CASE cache = None
    BY <2>1 DEF Proposed
  <2>2. CASE cache # None
    <3>1. cache \subseteq Changes
      BY <2>2 DEF TypeOK
    <3>2. IsFiniteSet(cache)
      BY <3>1, ChangesAssumption, FS_Subset
    <3>3. Cardinality(cache) \in Nat
      BY <3>2, FS_CardinalityType
    <3> QED
      BY <3>3 DEF Proposed
  <2> QED
    BY <2>1, <2>2
<1>2. Outcome \in {"completed", "completed_with_warnings", "cancelled", "failed"}
  BY DEF Outcome
<1> QED
  BY <1>1, <1>2 DEF BuildReceipt, Receipts

\* The parameters and the initial state are well typed.
LEMMA InitType == Init => TypeOK /\ StepInv
<1> SUFFICES ASSUME Init PROVE TypeOK /\ StepInv
  OBVIOUS
<1> USE NAssumption DEF Init
<1>1. pc \in Pcs /\ status \in Statuses /\ wphase = "idle"
  BY DEF Pcs, BookPcs, Statuses, Final
<1>2. step \in 0..N /\ lastWritable \in 0..N /\ wstep \in Steps
  OBVIOUS
<1>3. /\ summaries \in [Steps -> {"none"}] /\ bound \in [Steps -> MaybeDiff]
      /\ checked \in [Steps -> {"none"}] /\ patched \in [Steps -> [Changes -> Nat]]
  OBVIOUS
<1> QED
  BY <1>1, <1>2, <1>3 DEF TypeOK, StepInv, BeforeWrite, Cleared, Gate

\* Every step keeps the types.
LEMMA NextType == TypeOK /\ StepInv /\ [Next]_vars => TypeOK' /\ StepInv'
<1> SUFFICES ASSUME TypeOK, StepInv, [Next]_vars PROVE TypeOK' /\ StepInv'
  OBVIOUS
<1> USE NAssumption, AttemptsAssumption
    DEF TypeOK, StepInv, BeforeWrite, Cleared, Gate, Pcs, BookPcs, Statuses, Final
<1>1. CASE Cancel
  BY <1>1 DEF Cancel
<1>2. ASSUME NEW i \in Steps, Reject(i) PROVE TypeOK' /\ StepInv'
  BY <1>2 DEF Reject
<1>3. ASSUME NEW i \in Steps, NEW d \in Diffs, Approve(i, d) PROVE TypeOK' /\ StepInv'
  BY <1>3 DEF Approve
<1>4. CASE LoopCancelled
  BY <1>4 DEF LoopCancelled
<1>5. CASE LoopDone
  BY <1>5 DEF LoopDone
<1>6. CASE BeginRead
  BY <1>6 DEF BeginRead, Enter, Upcoming
<1>7. CASE SkipShadowWrite
  BY <1>7 DEF SkipShadowWrite, Enter, Upcoming
<1>8. CASE WriteWithoutProposal
  BY <1>8 DEF WriteWithoutProposal, Enter, Upcoming
<1>9. CASE OpenGate
  <2>1. step + 1 \in Steps /\ step' = step + 1 /\ lastDiff \in Diffs
    BY <1>9 DEF OpenGate, Enter, Upcoming
  <2>2. pending' \in Steps \X Diffs
    BY <1>9, <2>1 DEF OpenGate, Upcoming
  <2>3. rejection' \in BOOLEAN
    BY <1>9 DEF OpenGate
  <2>4. pc' = "bk_gate" /\ status' = "waiting_approval" /\ lastDiff' # None
    BY <1>9 DEF OpenGate
  <2> QED
    BY <1>9, <2>1, <2>2, <2>3, <2>4 DEF OpenGate, Upcoming
<1>10. CASE BeginUngatedWrite
  BY <1>10 DEF BeginUngatedWrite, Enter, Upcoming
<1>11. CASE Bookkept
  BY <1>11 DEF Bookkept
<1>12. CASE ReadFailureRecorded
  BY <1>12 DEF ReadFailureRecorded
<1>13. CASE WriteCompleted
  BY <1>13 DEF WriteCompleted
<1>14. CASE BookLost
  BY <1>14 DEF BookLost
<1>15. CASE PolicyEvaluated
  BY <1>15 DEF PolicyEvaluated
<1>16. CASE PolicyRechecked
  BY <1>16 DEF PolicyRechecked
<1>17. CASE PolicyLost
  BY <1>17 DEF PolicyLost
<1>18. CASE GateWake
  BY <1>18 DEF GateWake
<1>19. CASE GateExpire
  BY <1>19 DEF GateExpire
<1>20. CASE ReadCompletes
  BY <1>20 DEF ReadCompletes, Merged
<1>21. CASE ReadFails
  BY <1>21 DEF ReadFails, Merged
<1>22. CASE ReadLost
  BY <1>22 DEF ReadLost, LostReadEffects, Merged
<1>23. ASSUME NEW d \in Diffs, ProposalCompletes(d) PROVE TypeOK' /\ StepInv'
  BY <1>23 DEF ProposalCompletes, Merged
<1>24. CASE RunFinalized
  BY ReceiptType, <1>24 DEF RunFinalized
<1>25. CASE FinalizeLost
  BY <1>25 DEF FinalizeLost
<1>26. CASE StartWrite
  BY <1>26 DEF StartWrite, Merged, Key
<1>27. CASE WriteThrows
  BY <1>27 DEF WriteThrows
<1>28. CASE WriteApplied
  BY <1>28 DEF WriteApplied
<1>29. ASSUME NEW c \in Changes, Patch(c) PROVE TypeOK' /\ StepInv'
  BY <1>29 DEF Patch
<1>30. ASSUME NEW found \in {"passed", "failed", "threw"}, Verify(found)
      PROVE TypeOK' /\ StepInv'
  BY <1>30 DEF Verify
<1>31. CASE WriteReported
  <2>1. pc = "exec_write"
    BY <1>31 DEF WriteReported, Awaited
  <2>2. inflight' \in BOOLEAN
    BY <1>31 DEF WriteReported
  <2> QED
    BY <1>31, <2>1, <2>2 DEF WriteReported, NoWriter
<1>32. CASE WriteFailed
  <2>1. pc = "exec_write"
    BY <1>32 DEF WriteFailed, Awaited
  <2>2. inflight' \in BOOLEAN
    BY <1>32 DEF WriteFailed
  <2> QED
    BY <1>32, <2>1, <2>2 DEF WriteFailed, NoWriter
<1>33. CASE WriteTimeout
  <2>1. pc = "exec_write"
    BY <1>33 DEF WriteTimeout, Awaited
  <2>2. inflight' \in BOOLEAN
    BY <1>33 DEF WriteTimeout
  <2> QED
    BY <1>33, <2>1, <2>2 DEF WriteTimeout
<1>34. CASE LateWriteEnds
  BY <1>34 DEF LateWriteEnds, NoWriter
<1>35. CASE WorkerRestart
  BY <1>35 DEF WorkerRestart, NoWriter
<1>36. CASE UNCHANGED vars
  BY <1>36 DEF vars
<1> QED
  BY <1>1, <1>2, <1>3, <1>4, <1>5, <1>6, <1>7, <1>8, <1>9, <1>10, <1>11,
     <1>12, <1>13, <1>14, <1>15, <1>16, <1>17, <1>18, <1>19, <1>20, <1>21,
     <1>22, <1>23, <1>24, <1>25, <1>26, <1>27, <1>28, <1>29, <1>30, <1>31,
     <1>32, <1>33, <1>34, <1>35, <1>36
  DEF Next, User, Loop, Workflow, Writing

\* Every variable of a durable run keeps its type, whatever the spec, the number
\* of steps and the retry limits.
THEOREM TypeCorrect == Spec => []TypeOK
<1>1. Init => TypeOK /\ StepInv
  BY InitType
<1>2. TypeOK /\ StepInv /\ [Next]_vars => TypeOK' /\ StepInv'
  BY NextType
<1> QED
  BY <1>1, <1>2, PTL DEF Spec

-----------------------------------------------------------------------------
(* The write-safety invariant. *)

\* It holds when the run starts.
LEMMA InitInv == Init => Inv
<1> SUFFICES ASSUME Init PROVE Inv
  OBVIOUS
<1>1. TypeOK /\ StepInv
  BY InitType
<1>2. GateInv /\ ClearedInv /\ WriterInv
  BY DEF Init, GateInv, ClearedInv, WriterInv, Gate, Cleared
<1>3. FreshInv
  BY DEF Init, FreshInv
<1>4. BoundInv
  BY DEF Init, BoundInv, Touched
<1>5. CancelInv /\ RefusalInv
  BY NAssumption DEF Init, CancelInv, RefusalInv, Final
<1> QED
  BY <1>1, <1>2, <1>3, <1>4, <1>5 DEF Inv

\* Every step keeps it.
LEMMA NextInv == Inv /\ [Next]_vars => Inv'
<1> SUFFICES ASSUME Inv, [Next]_vars PROVE Inv'
  OBVIOUS
<1>0. TypeOK /\ StepInv /\ TypeOK' /\ StepInv'
  BY NextType DEF Inv
<1> USE <1>0, NAssumption, AttemptsAssumption, NoneAssumption
    DEF Inv, StepInv, GateInv, ClearedInv, FreshInv, BoundInv, WriterInv, CancelInv,
        RefusalInv, Touched, BeforeWrite, Cleared, Gate, Ended, Final
<1>1. CASE Cancel
  BY <1>1 DEF TypeOK, Cancel
<1>2. ASSUME NEW i \in Steps, Reject(i) PROVE Inv'
  BY <1>2 DEF TypeOK, Reject, Open
<1>3. ASSUME NEW i \in Steps, NEW d \in Diffs, Approve(i, d) PROVE Inv'
  BY <1>3 DEF TypeOK, Approve
<1>4. CASE LoopCancelled
  BY <1>4 DEF TypeOK, LoopCancelled
<1>5. CASE LoopDone
  BY <1>5 DEF TypeOK, LoopDone
<1>6. CASE BeginRead
  BY <1>6 DEF TypeOK, BeginRead, Enter, Upcoming
<1>7. CASE SkipShadowWrite
  BY <1>7 DEF TypeOK, SkipShadowWrite, Enter, Upcoming
<1>8. CASE WriteWithoutProposal
  BY <1>8 DEF TypeOK, WriteWithoutProposal, Enter, Upcoming
<1>9. CASE OpenGate
  BY <1>9 DEF TypeOK, OpenGate, Enter, Upcoming
<1>10. CASE BeginUngatedWrite
  BY <1>10 DEF TypeOK, BeginUngatedWrite, Enter, Upcoming
<1>11. CASE Bookkept
  BY <1>11 DEF TypeOK, Bookkept
<1>12. CASE ReadFailureRecorded
  BY <1>12 DEF TypeOK, ReadFailureRecorded
<1>13. CASE WriteCompleted
  BY <1>13 DEF TypeOK, WriteCompleted
<1>14. CASE BookLost
  BY <1>14 DEF TypeOK, BookLost, BookPcs
<1>15. CASE PolicyEvaluated
  BY <1>15 DEF TypeOK, PolicyEvaluated
<1>16. CASE PolicyRechecked
  BY <1>16 DEF TypeOK, PolicyRechecked
<1>17. CASE PolicyLost
  BY <1>17 DEF TypeOK, PolicyLost
<1>18. CASE GateWake
  <2>1. CASE cancellation \/ rejection
    BY <1>18, <2>1 DEF TypeOK, GateWake
  <2>2. CASE ~cancellation /\ ~rejection
    <3>1. approval # None /\ pc = "waiting" /\ pc' = "recheck" /\ pending' = None
      BY <1>18, <2>2 DEF GateWake, Decided
    <3>2. approval = <<step, lastDiff>> /\ approval \in consents
      BY <3>1
    <3> QED
      BY <1>18, <2>2, <3>1, <3>2 DEF TypeOK, GateWake
  <2> QED
    BY <2>1, <2>2
<1>19. CASE GateExpire
  BY <1>19 DEF TypeOK, GateExpire
<1>20. CASE ReadCompletes
  BY <1>20 DEF TypeOK, ReadCompletes, Merged
<1>21. CASE ReadFails
  BY <1>21 DEF TypeOK, ReadFails, Merged
<1>22. CASE ReadLost
  BY <1>22 DEF TypeOK, ReadLost, LostReadEffects, Merged
<1>23. ASSUME NEW d \in Diffs, ProposalCompletes(d) PROVE Inv'
  BY <1>23 DEF TypeOK, ProposalCompletes, Merged
<1>24. CASE RunFinalized
  BY <1>24 DEF TypeOK, RunFinalized
<1>25. CASE FinalizeLost
  BY <1>25 DEF TypeOK, FinalizeLost
<1>26. CASE StartWrite
  <2>1. /\ pc = "exec_write" /\ step \in Steps /\ lastDiff \in Diffs /\ ~inflight
        /\ bound' = [bound EXCEPT ![step] = lastDiff]
        /\ UNCHANGED <<durable, flow, gate, data, patched, people>>
    BY <1>26 DEF TypeOK, StartWrite
  <2>2. bound'[step] = lastDiff /\ \A i \in Steps \ {step} : bound'[i] = bound[i]
    BY <2>1 DEF TypeOK
  <2>3. \A c \in Changes : patched[step][c] = 0
    <3>1. bound[step] = None
      BY <2>1
    <3>2. \A c \in Changes : patched[step][c] \in Nat
      BY <2>1 DEF TypeOK
    <3>3. ~ \E c \in Changes : patched[step][c] > 0
      BY <2>1, <3>1
    <3> QED
      BY ONLY <3>2, <3>3
  <2>4. GateInv' /\ ClearedInv' /\ FreshInv' /\ CancelInv' /\ RefusalInv'
    BY <2>1, <2>2, <1>26 DEF TypeOK, StartWrite
  <2>5. BoundInv'
    BY <2>1, <2>2, <2>3
  <2>6. WriterInv'
    <3>1. wstep' = step /\ wdiff' = lastDiff /\ wtodo' \subseteq lastDiff
      BY <1>26 DEF StartWrite
    <3> QED
      BY <2>1, <2>2, <2>3, <3>1 DEF TypeOK
  <2> QED
    BY <2>4, <2>5, <2>6
<1>27. CASE WriteThrows
  BY <1>27 DEF TypeOK, WriteThrows
<1>28. CASE WriteApplied
  BY <1>28 DEF TypeOK, WriteApplied
<1>29. ASSUME NEW c \in Changes, Patch(c) PROVE Inv'
  <2>1. /\ wphase = "patching" /\ c \in wtodo /\ wtodo' = wtodo \ {c}
        /\ wstep \in Steps /\ bound[wstep] = wdiff /\ c \in wdiff /\ wdiff \in Diffs
        /\ patched[wstep][c] = 0
        /\ UNCHANGED <<durable, flow, gate, data, inflight, wphase, wstep, wdiff, bound,
                       people>>
    BY <1>29 DEF TypeOK, Patch
  <2>2. /\ patched'[wstep][c] = 1
        /\ \A i \in Steps, x \in Changes :
             i # wstep \/ x # c => patched'[i][x] = patched[i][x]
    BY <2>1, <1>29 DEF TypeOK, Patch
  <2>3. GateInv' /\ ClearedInv' /\ FreshInv' /\ CancelInv' /\ RefusalInv'
    BY <2>1
  <2>4. BoundInv'
    <3> SUFFICES ASSUME NEW i \in Steps
                 PROVE  /\ bound'[i] = None => ~Touched(i)'
                        /\ bound'[i] # None =>
                             /\ mode' # "shadow"
                             /\ plan'[i].approval => <<i, bound'[i]>> \in consents'
                        /\ \A x \in Changes : patched'[i][x] > 0
                             => x \in bound'[i] /\ patched'[i][x] = 1
      OBVIOUS
    <3>1. CASE i = wstep
      BY <2>1, <2>2, <3>1
    <3>2. CASE i # wstep
      BY <2>1, <2>2, <3>2
    <3> QED
      BY <3>1, <3>2
  <2>5. WriterInv'
    BY <2>1, <2>2 DEF TypeOK
  <2> QED
    BY <2>3, <2>4, <2>5
<1>30. ASSUME NEW found \in {"passed", "failed", "threw"}, Verify(found) PROVE Inv'
  BY <1>30 DEF TypeOK, Verify
<1>31. CASE WriteReported
  BY <1>31 DEF TypeOK, WriteReported, NoWriter, Awaited
<1>32. CASE WriteFailed
  BY <1>32 DEF TypeOK, WriteFailed, NoWriter, Awaited
<1>33. CASE WriteTimeout
  BY <1>33 DEF TypeOK, WriteTimeout, WriteAttempts, Awaited
<1>34. CASE LateWriteEnds
  BY <1>34 DEF TypeOK, LateWriteEnds, NoWriter
<1>35. CASE WorkerRestart
  BY <1>35 DEF TypeOK, WorkerRestart, NoWriter
<1>36. CASE UNCHANGED vars
  BY <1>36 DEF vars
<1> QED
  BY <1>1, <1>2, <1>3, <1>4, <1>5, <1>6, <1>7, <1>8, <1>9, <1>10, <1>11,
     <1>12, <1>13, <1>14, <1>15, <1>16, <1>17, <1>18, <1>19, <1>20, <1>21,
     <1>22, <1>23, <1>24, <1>25, <1>26, <1>27, <1>28, <1>29, <1>30, <1>31,
     <1>32, <1>33, <1>34, <1>35, <1>36
  DEF Next, User, Loop, Workflow, Writing

\* The inductive invariant holds throughout every run.
LEMMA Invariance == Spec => []Inv
  BY InitInv, NextInv, PTL DEF Spec

-----------------------------------------------------------------------------
(* What it implies. *)

\* For every spec: what reaches the provider was bound to its step and, where the
\* step requires approval, approved as exactly that step with exactly that diff.
THEOREM WritesAuthorised == Spec => []WritesAreAuthorised
<1>1. Inv => WritesAreAuthorised
  BY DEF Inv, BoundInv, WritesAreAuthorised, Touched
<1> QED
  BY <1>1, Invariance, PTL

\* For every spec and any number of worker restarts: no change is applied twice,
\* because the one attempt of a write is what finds its step unbound.
THEOREM WritesOnce == Spec => []WritesAtMostOnce
<1>1. Inv => WritesAtMostOnce
  <2> SUFFICES ASSUME Inv, NEW i \in Steps, NEW c \in Changes PROVE patched[i][c] <= 1
    BY DEF WritesAtMostOnce
  <2>1. patched[i][c] \in Nat
    BY DEF Inv, TypeOK
  <2>2. patched[i][c] > 0 => patched[i][c] = 1
    BY DEF Inv, BoundInv
  <2> QED
    BY <2>1, <2>2
<1> QED
  BY <1>1, Invariance, PTL

\* For every spec: a cancel stops every write not yet let through the gate.
THEOREM CancelStops == Spec => []CancelStopsLaterWrites
<1>1. Inv => CancelStopsLaterWrites
  BY DEF Inv, CancelInv, BoundInv, CancelStopsLaterWrites
<1> QED
  BY <1>1, Invariance, PTL

\* For every spec: a rejected or expired step is never written.
THEOREM RefusalHolds == Spec => []RefusedStepsStayUnwritten
<1>1. Inv => RefusedStepsStayUnwritten
  <2> SUFFICES ASSUME Inv, rejection \/ status = "expired"
               PROVE  step > 0 /\ ~Touched(step)
    BY DEF RefusedStepsStayUnwritten
  <2>1. step \in Steps /\ bound[step] = None
    BY DEF Inv, RefusalInv
  <2>2. ~Touched(step)
    BY <2>1 DEF Inv, BoundInv
  <2> QED
    BY <2>1, <2>2, NAssumption
<1> QED
  BY <1>1, Invariance, PTL

\* Past a final status no step changes the status or binds a diff.
LEMMA FinalStep == Inv /\ Next /\ status \in Final => status' = status /\ bound' = bound
<1> SUFFICES ASSUME Inv, Next, status \in Final
             PROVE  status' = status /\ bound' = bound
  OBVIOUS
<1>1. pc \in Ended
  BY DEF Inv, RefusalInv
<1>2. CASE User
  BY <1>2 DEF User, Cancel, Reject, Approve
<1>3. CASE Workflow
  BY <1>1, <1>3 DEF Ended, Workflow, Bookkept, ReadFailureRecorded, WriteCompleted,
     BookLost, BookPcs, PolicyEvaluated, PolicyRechecked, PolicyLost, Loop, LoopCancelled,
     LoopDone, BeginRead, SkipShadowWrite, WriteWithoutProposal, OpenGate,
     BeginUngatedWrite, Enter, GateWake, GateExpire, ReadCompletes, ReadFails, ReadLost,
     ProposalCompletes, RunFinalized, FinalizeLost
<1>4. CASE Writing
  BY <1>1, <1>4 DEF Ended, Writing, StartWrite, WriteThrows, WriteApplied, Patch, Verify,
     WriteReported, WriteFailed, WriteTimeout, LateWriteEnds, Awaited
<1>5. CASE WorkerRestart
  BY <1>5 DEF WorkerRestart
<1> QED
  BY <1>2, <1>3, <1>4, <1>5 DEF Next

\* For every spec: once a final status is published it never changes and no write
\* attempt starts.
THEOREM FinalStays == Spec => FinalIsFinal
<1>1. Inv /\ [Next]_vars
        => [(status \in Final) => (status' = status /\ bound' = bound)]_vars
  BY FinalStep
<1> QED
  BY <1>1, Invariance, PTL DEF Spec, FinalIsFinal

-----------------------------------------------------------------------------
(* A run that completes without a warning wrote all of it. *)

\* The adapter's own changes of step i's diff are all applied, and then the whole diff is, exactly once.
OwnApplied(i) == bound[i] # None /\ \A c \in Owned : c \in bound[i] => patched[i][c] = 1
Whole(i) == bound[i] # None /\ \A c \in Changes : patched[i][c] = IF c \in bound[i] THEN 1 ELSE 0

\* What the idempotency store knows of, and what the attempt in the worker has done, is done; a step whose
\* read-back passed is whole.
WorkInv ==
  /\ \A k \in ledger : bound[k[1]] = k[2] /\ OwnApplied(k[1])
  /\ wphase = "patching" => \A c \in Owned : c \in wdiff => c \in wtodo \/ patched[wstep][c] = 1
  /\ wphase \in {"verify", "done"} => OwnApplied(wstep)
  /\ \A i \in Steps : checked[i] = "passed" => Whole(i)

\* Whatever a write was handed is whole, or the run carries a warning, or is still at that write, or ends in
\* another way.
SettledInv ==
  \A i \in Steps : bound[i] # None =>
    \/ Whole(i)
    \/ warnings /\ status # "completed"
    \/ i = step /\ pc \in {"exec_write", "bk_verify"}
    \/ pc \in Ended /\ status # "completed"

CompleteInv == WorkInv /\ SettledInv

\* What is whole stays so: the attempt in the worker has nothing left to do on it.
LEMMA WholeStays ==
  ASSUME Inv, NEW c \in Changes, Patch(c), NEW i \in Steps, Whole(i)
  PROVE  Whole(i)'
<1>1. /\ wphase = "patching" /\ c \in wtodo /\ wstep \in Steps /\ bound' = bound
      /\ patched' = [patched EXCEPT ![wstep][c] = @ + 1] /\ patched \in [Steps -> [Changes -> Nat]]
  BY DEF Inv, TypeOK, Patch
<1>2. patched[wstep][c] = 0 /\ c \in bound[wstep]
  BY <1>1 DEF Inv, WriterInv
<1>3. i # wstep
  BY <1>2 DEF Whole
<1> QED
  BY <1>1, <1>3 DEF Whole

\* Nothing that leaves the writes, the warnings and the status of a run alone takes its completeness away.
LEMMA RunGoesOn ==
  ASSUME Inv, SettledInv, UNCHANGED <<bound, patched>>, warnings => warnings',
         status' = "completed" => status = "completed" \/ ~warnings,
         \/ pc \notin Ended \cup {"exec_write", "bk_verify"}
         \/ pc' = pc /\ step' = step /\ status' = status
         \/ pc \in Ended /\ pc' \in Ended /\ status' = status
         \/ pc' \in Ended /\ status' # "completed"
  PROVE  SettledInv'
<1> SUFFICES ASSUME NEW i \in Steps, bound[i] # None
             PROVE  \/ Whole(i)'
                    \/ warnings' /\ status' # "completed"
                    \/ i = step' /\ pc' \in {"exec_write", "bk_verify"}
                    \/ pc' \in Ended /\ status' # "completed"
  BY DEF SettledInv
<1>1. Whole(i) => Whole(i)'
  BY DEF Whole
<1>2. \/ Whole(i)
      \/ warnings /\ status # "completed"
      \/ i = step /\ pc \in {"exec_write", "bk_verify"}
      \/ pc \in Ended /\ status # "completed"
  BY DEF SettledInv
<1> QED
  BY <1>1, <1>2 DEF Ended

\* The actions of the workflow and the signals.
LEMMA WorkflowComplete ==
  ASSUME Inv, CompleteInv, User \/ Workflow \/ WriteTimeout
  PROVE  CompleteInv'
<1>1. UNCHANGED <<ledger, writer, world>>
  BY DEF User, Cancel, Reject, Approve, Workflow, Bookkept, ReadFailureRecorded, WriteCompleted, BookLost,
     PolicyEvaluated, PolicyRechecked, PolicyLost, Loop, LoopCancelled, LoopDone, BeginRead, SkipShadowWrite,
     WriteWithoutProposal, OpenGate, BeginUngatedWrite, GateWake, GateExpire, ReadCompletes, ReadFails, ReadLost,
     ProposalCompletes, RunFinalized, FinalizeLost, WriteTimeout
<1>2. WorkInv'
  BY <1>1 DEF CompleteInv, WorkInv, OwnApplied, Whole
<1>3. status \in Final => pc \in Ended
  BY DEF Inv, RefusalInv
<1>4. SettledInv'
  <2> USE <1>1, RunGoesOn DEF CompleteInv, Ended
  <2>1. CASE User
    BY <2>1 DEF User, Cancel, Reject, Approve
  <2>2. CASE Bookkept \/ ReadFailureRecorded
    BY <2>2 DEF Bookkept, ReadFailureRecorded
  <2>3. CASE WriteCompleted
    <3>1. pc = "bk_verify" /\ warnings' = (warnings \/ checked[step] # "passed") /\ pc' = "bk_written" /\ step' = step /\ status' = status
      BY <2>3 DEF WriteCompleted
    <3>2. ASSUME NEW i \in Steps, bound[i] # None, ~warnings' PROVE Whole(i)
      <4>1. Whole(i) \/ i = step
        BY <3>1, <3>2 DEF SettledInv
      <4>2. i = step => Whole(i)
        BY <3>1, <3>2 DEF WorkInv
      <4> QED
        BY <4>1, <4>2
    <3>3. \A i \in Steps : Whole(i) => Whole(i)'
      BY DEF Whole
    <3> QED
      BY <1>3, <3>1, <3>2, <3>3 DEF SettledInv, Final
  <2>4. CASE BookLost
    BY <1>3, <2>4 DEF BookLost, BookPcs, Final
  <2>5. CASE PolicyEvaluated \/ PolicyRechecked \/ PolicyLost
    BY <2>5 DEF PolicyEvaluated, PolicyRechecked, PolicyLost
  <2>6. CASE Loop
    BY <2>6 DEF Loop, LoopCancelled, LoopDone, BeginRead, SkipShadowWrite, WriteWithoutProposal, OpenGate,
       BeginUngatedWrite, Enter
  <2>7. CASE GateWake \/ GateExpire
    BY <2>7 DEF GateWake, GateExpire
  <2>8. CASE ReadCompletes \/ ReadFails \/ ReadLost \/ \E d \in Diffs : ProposalCompletes(d)
    BY <2>8 DEF ReadCompletes, ReadFails, ReadLost, ProposalCompletes
  <2>9. CASE RunFinalized \/ FinalizeLost
    BY <2>9 DEF RunFinalized, FinalizeLost
  <2>10. CASE WriteTimeout
    BY <2>10 DEF WriteTimeout, WriteAttempts
  <2> QED
    BY <2>1, <2>2, <2>3, <2>4, <2>5, <2>6, <2>7, <2>8, <2>9, <2>10 DEF Workflow
<1> QED
  BY <1>2, <1>4 DEF CompleteInv

\* The write attempt in the worker, and what becomes of it.
LEMMA WritingComplete ==
  ASSUME Inv, CompleteInv, Writing \/ WorkerRestart
  PROVE  CompleteInv'
<1>0. TypeOK /\ WriterInv /\ BoundInv /\ FreshInv /\ WorkInv /\ SettledInv
  BY DEF Inv, CompleteInv
<1>1. CASE StartWrite
  <2>1. /\ pc = "exec_write" /\ ~inflight /\ wphase = "idle" /\ step \in Steps /\ lastDiff \in Diffs
        /\ bound' = [bound EXCEPT ![step] = lastDiff] /\ wstep' = step /\ wdiff' = lastDiff
        /\ UNCHANGED <<flow, data, patched, checked, ledger>>
    BY <1>1 DEF StartWrite, Inv, TypeOK, StepInv, Cleared, Gate
  <2>2. bound[step] = None
    BY <1>0, <2>1 DEF FreshInv, Cleared
  <2>3. bound'[step] = lastDiff /\ \A i \in Steps : i # step => bound'[i] = bound[i]
    BY <1>0, <2>1 DEF TypeOK
  <2>4. Key \notin ledger
    BY <1>0, <2>2 DEF WorkInv, OwnApplied, Key
  <2>5. wphase' = "patching" /\ wtodo' = lastDiff \cap Owned
    BY <1>1, <2>4 DEF StartWrite
  <2>6. \A i \in Steps : (OwnApplied(i) => i # step /\ OwnApplied(i)') /\ (Whole(i) => i # step /\ Whole(i)')
    BY <2>1, <2>2, <2>3 DEF OwnApplied, Whole
  <2>7. WorkInv'
    <3>1. \A k \in ledger' : bound'[k[1]] = k[2] /\ OwnApplied(k[1])'
      <4>1. \A k \in ledger : k[1] \in Steps
        BY <1>0 DEF TypeOK
      <4> QED
        BY <1>0, <2>1, <2>3, <2>6, <4>1 DEF WorkInv
    <3>2. \A i \in Steps : checked'[i] = "passed" => Whole(i)'
      BY <1>0, <2>1, <2>6 DEF WorkInv
    <3>3. \A c \in Owned : c \in wdiff' => c \in wtodo'
      BY <2>1, <2>5
    <3> QED
      BY <2>5, <3>1, <3>2, <3>3 DEF WorkInv
  <2>8. SettledInv'
    BY <1>0, <2>1, <2>3, <2>6 DEF SettledInv, Ended
  <2> QED
    BY <2>7, <2>8 DEF CompleteInv
<1>2. ASSUME NEW c \in Changes, Patch(c) PROVE CompleteInv'
  <2>1. /\ wphase = "patching" /\ c \in wtodo /\ wtodo' = wtodo \ {c} /\ wstep \in Steps
        /\ patched' = [patched EXCEPT ![wstep][c] = @ + 1] /\ patched[wstep][c] = 0
        /\ UNCHANGED <<flow, data, ledger, wphase, wstep, wdiff, bound, checked>>
    BY <1>0, <1>2 DEF Patch, TypeOK, WriterInv
  <2>2. /\ patched'[wstep][c] = 1
        /\ \A i \in Steps, x \in Changes : patched[i][x] = 1 => patched'[i][x] = 1
    BY <1>0, <2>1 DEF TypeOK
  <2>3. \A i \in Steps : OwnApplied(i) => OwnApplied(i)'
    BY <2>1, <2>2, ChangesAssumption DEF OwnApplied
  <2>4. \A i \in Steps : Whole(i) => Whole(i)'
    BY <1>2, WholeStays
  <2>5. WorkInv'
    <3>1. \A k \in ledger : k[1] \in Steps
      BY <1>0 DEF TypeOK
    <3>2. \A k \in ledger' : bound'[k[1]] = k[2] /\ OwnApplied(k[1])'
      BY <1>0, <2>1, <2>3, <3>1 DEF WorkInv
    <3>3. \A x \in Owned : x \in wdiff' => x \in wtodo' \/ patched'[wstep'][x] = 1
      BY <1>0, <2>1, <2>2, ChangesAssumption DEF WorkInv
    <3>4. \A i \in Steps : checked'[i] = "passed" => Whole(i)'
      BY <1>0, <2>1, <2>4 DEF WorkInv
    <3> QED
      BY <2>1, <3>2, <3>3, <3>4 DEF WorkInv
  <2>6. SettledInv'
    BY <1>0, <2>1, <2>4 DEF SettledInv
  <2> QED
    BY <2>5, <2>6 DEF CompleteInv
<1>3. CASE WriteThrows \/ WriteApplied
  <2>1. /\ wphase = "patching" /\ UNCHANGED <<flow, data, wstep, wdiff, wtodo, world>> /\ wstep \in Steps
    BY <1>0, <1>3 DEF WriteThrows, WriteApplied, TypeOK
  <2>2. bound[wstep] = wdiff /\ wdiff # None
    BY <1>0, <2>1, NoneAssumption DEF WriterInv, TypeOK
  <2>3. \A i \in Steps : (OwnApplied(i) => OwnApplied(i)') /\ (Whole(i) => Whole(i)')
    BY <2>1 DEF OwnApplied, Whole
  <2>4. WriteApplied => OwnApplied(wstep)
    <3>1. WriteApplied => wtodo = {}
      BY DEF WriteApplied
    <3> QED
      BY <1>0, <2>1, <2>2, <3>1 DEF WorkInv, OwnApplied
  <2>5. \A k \in ledger' : k[1] \in Steps /\ bound[k[1]] = k[2] /\ OwnApplied(k[1])
    <3>1. \A k \in ledger : k[1] \in Steps
      BY <1>0 DEF TypeOK
    <3>2. WriteThrows => ledger' = ledger
      BY DEF WriteThrows
    <3>3. WriteApplied => ledger' = ledger \cup {<<wstep, wdiff>>}
      BY DEF WriteApplied
    <3> QED
      BY <1>0, <1>3, <2>1, <2>2, <2>4, <3>1, <3>2, <3>3 DEF WorkInv
  <2>6. wphase' = "failed" \/ (wphase' = "verify" /\ OwnApplied(wstep))
    BY <1>3, <2>4 DEF WriteThrows, WriteApplied
  <2>7. WorkInv'
    <3>1. \A k \in ledger' : bound'[k[1]] = k[2] /\ OwnApplied(k[1])'
      BY <2>1, <2>3, <2>5
    <3>2. \A i \in Steps : checked'[i] = "passed" => Whole(i)'
      BY <1>0, <2>1, <2>3 DEF WorkInv
    <3>3. wphase' \in {"verify", "done"} => OwnApplied(wstep)'
      BY <2>1, <2>3, <2>6
    <3> QED
      BY <2>6, <3>1, <3>2, <3>3 DEF WorkInv
  <2>8. SettledInv'
    BY <1>0, <2>1, RunGoesOn DEF Inv
  <2> QED
    BY <2>7, <2>8 DEF CompleteInv
<1>4. ASSUME NEW found \in {"passed", "failed", "threw"}, Verify(found) PROVE CompleteInv'
  <2>1. /\ wphase = "verify" /\ wstep \in Steps /\ checked' = [checked EXCEPT ![wstep] = found]
        /\ wphase' \in {"failed", "done"} /\ (found = "passed" => wdiff \subseteq Owned)
        /\ UNCHANGED <<flow, data, ledger, wstep, wdiff, wtodo, patched, bound>>
    BY <1>0, <1>4 DEF Verify, TypeOK
  <2>2. /\ checked'[wstep] = found
        /\ \A i \in Steps : i # wstep => checked'[i] = checked[i]
    BY <1>0, <2>1 DEF TypeOK
  <2>3. bound[wstep] = wdiff /\ OwnApplied(wstep)
    BY <1>0, <2>1 DEF WriterInv, WorkInv
  <2>4. found = "passed" => Whole(wstep)
    <3>1. ASSUME found = "passed", NEW c \in Changes PROVE patched[wstep][c] = IF c \in bound[wstep] THEN 1 ELSE 0
      <4>1. CASE c \in bound[wstep]
        BY <2>1, <2>3, <3>1, <4>1 DEF OwnApplied
      <4>2. CASE c \notin bound[wstep]
        <5>1. patched[wstep][c] \in Nat
          BY <1>0, <2>1 DEF TypeOK
        <5>2. ~(patched[wstep][c] > 0)
          BY <1>0, <2>1, <4>2 DEF BoundInv
        <5>3. patched[wstep][c] = 0
          BY <5>1, <5>2
        <5> QED
          BY <4>2, <5>3
      <4> QED
        BY <4>1, <4>2
    <3> QED
      BY <2>3, <3>1 DEF Whole, OwnApplied
  <2>5. \A i \in Steps : (OwnApplied(i) => OwnApplied(i)') /\ (Whole(i) => Whole(i)')
    BY <2>1 DEF OwnApplied, Whole
  <2>6. WorkInv'
    <3>1. \A k \in ledger : k[1] \in Steps
      BY <1>0 DEF TypeOK
    <3>2. \A k \in ledger' : bound'[k[1]] = k[2] /\ OwnApplied(k[1])'
      BY <1>0, <2>1, <2>5, <3>1 DEF WorkInv
    <3>3. \A i \in Steps : checked'[i] = "passed" => Whole(i)'
      BY <1>0, <2>2, <2>4, <2>5 DEF WorkInv
    <3>4. wphase' \in {"verify", "done"} => OwnApplied(wstep)'
      BY <2>1, <2>3, <2>5
    <3> QED
      BY <2>1, <3>2, <3>3, <3>4 DEF WorkInv
  <2>7. SettledInv'
    BY <1>0, <2>1, RunGoesOn DEF Inv
  <2> QED
    BY <2>6, <2>7 DEF CompleteInv
<1>5. CASE WriteReported \/ WriteFailed \/ LateWriteEnds \/ WorkerRestart
  <2>1. wphase' = "idle" /\ ledger' \subseteq ledger /\ UNCHANGED world /\ step' = step /\ warnings' = warnings
    BY <1>5 DEF WriteReported, WriteFailed, LateWriteEnds, WorkerRestart, NoWriter
  <2>2. \A i \in Steps : (OwnApplied(i) => OwnApplied(i)') /\ (Whole(i) => Whole(i)')
    BY <2>1 DEF OwnApplied, Whole
  <2>3. WorkInv'
    <3>1. \A k \in ledger : k[1] \in Steps
      BY <1>0 DEF TypeOK
    <3>2. \A k \in ledger' : bound'[k[1]] = k[2] /\ OwnApplied(k[1])'
      BY <1>0, <2>1, <2>2, <3>1 DEF WorkInv
    <3>3. \A i \in Steps : checked'[i] = "passed" => Whole(i)'
      BY <1>0, <2>1, <2>2 DEF WorkInv
    <3> QED
      BY <2>1, <3>2, <3>3 DEF WorkInv
  <2>4. SettledInv'
    <3>1. CASE WriteReported
      <4>1. pc = "exec_write" /\ pc' = "bk_verify" /\ status' = "verifying"
        BY <3>1 DEF WriteReported, Awaited
      <4> QED
        BY <1>0, <2>1, <2>2, <4>1 DEF SettledInv, Ended
    <3>2. CASE WriteFailed
      BY <1>0, <2>1, <3>2, RunGoesOn DEF WriteFailed, Inv, Ended
    <3>3. CASE LateWriteEnds \/ WorkerRestart
      BY <1>0, <2>1, <3>3, RunGoesOn DEF LateWriteEnds, WorkerRestart, Inv
    <3> QED
      BY <1>5, <3>1, <3>2, <3>3
  <2> QED
    BY <2>3, <2>4 DEF CompleteInv
<1>6. CASE WriteTimeout
  BY <1>6, WorkflowComplete
<1> QED
  BY <1>1, <1>2, <1>3, <1>4, <1>5, <1>6 DEF Writing

\* For every spec, diff and number of worker restarts: a run that ends "completed", without a warning, applied the
\* whole diff of every write it made, exactly once (the read-back of executeWriteStep and the warnings of workflow.ts).
THEOREM CompletedIsWhole == Spec => []CleanCompletionIsComplete
<1>1. Init => CompleteInv
  BY DEF Init, CompleteInv, WorkInv, SettledInv
<1>2. Inv /\ CompleteInv /\ [Next]_vars => CompleteInv'
  <2> SUFFICES ASSUME Inv, CompleteInv, [Next]_vars PROVE CompleteInv'
    OBVIOUS
  <2>1. CASE UNCHANGED vars
    BY <2>1 DEF vars, CompleteInv, WorkInv, SettledInv, OwnApplied, Whole
  <2>2. CASE User \/ Workflow
    BY <2>2, WorkflowComplete
  <2>3. CASE Writing \/ WorkerRestart
    BY <2>3, WritingComplete
  <2> QED
    BY <2>1, <2>2, <2>3 DEF Next
<1>3. Inv /\ CompleteInv => CleanCompletionIsComplete
  <2> SUFFICES ASSUME Inv, CompleteInv, status = "completed", NEW i \in Steps, bound[i] # None
               PROVE  \A c \in Changes : patched[i][c] = IF c \in bound[i] THEN 1 ELSE 0
    BY DEF CleanCompletionIsComplete
  <2>1. pc \in Ended
    BY DEF Inv, RefusalInv, Final
  <2>2. Whole(i)
    BY <2>1 DEF CompleteInv, SettledInv, Ended
  <2> QED
    BY <2>2 DEF Whole
<1> QED
  BY <1>1, <1>2, <1>3, Invariance, PTL DEF Spec

-----------------------------------------------------------------------------
(* The run implements the abstract contract. *)

\* The initial states of the run map to initial states of the contract.
LEMMA InitRefines == Init => Authorised!Init
<1> SUFFICES ASSUME Init PROVE Authorised!Init
  OBVIOUS
<1>1. [i \in Steps |-> plan[i].approval] \in [Steps -> BOOLEAN]
  BY PlansAssumption DEF Init, StepType
<1>2. (status \in Final) = FALSE
  BY DEF Init, Final
<1> QED
  BY <1>1, <1>2 DEF Init, Authorised!Init, Authorised!Steps

\* A step that writes nothing, binds nothing and hears no approval closes the run
\* or stutters.
LEMMA QuietRefines ==
  ASSUME Inv, Next, UNCHANGED <<plan, consents, bound, patched>>
  PROVE  [Authorised!Next]_(Authorised!vars)
<1>1. CASE (status \in Final)' = (status \in Final)
  BY <1>1 DEF Authorised!vars
<1>2. CASE (status \in Final)' # (status \in Final)
  <2>1. status \notin Final /\ (status \in Final)'
    BY <1>2, FinalStep
  <2>2. Authorised!Close
    BY <2>1 DEF Authorised!Close
  <2> QED
    BY <2>2 DEF Authorised!Next
<1> QED
  BY <1>1, <1>2

\* Every step of the run is a step of the contract, or stutters there.
LEMMA NextRefines == Inv /\ [Next]_vars => [Authorised!Next]_(Authorised!vars)
<1> SUFFICES ASSUME Inv, [Next]_vars PROVE [Authorised!Next]_(Authorised!vars)
  OBVIOUS
<1> DEFINE Quiet == UNCHANGED <<plan, consents, bound, patched>>
<1>1. CASE Cancel \/ \E i \in Steps : Reject(i)
  <2>1. Quiet
    BY <1>1 DEF Cancel, Reject
  <2> QED
    BY <1>1, <2>1, QuietRefines DEF Next, User
<1>2. ASSUME NEW i \in Steps, NEW d \in Diffs, Approve(i, d)
      PROVE  [Authorised!Next]_(Authorised!vars)
  <2>1. Authorised!Consent(i, d)
    BY <1>2 DEF Approve, Authorised!Consent
  <2> QED
    BY <2>1 DEF Authorised!Next, Authorised!Steps, Authorised!Diffs
<1>3. CASE Workflow
  <2>1. Quiet
    BY <1>3 DEF Workflow, Bookkept, ReadFailureRecorded, WriteCompleted, BookLost,
       PolicyEvaluated, PolicyRechecked, PolicyLost, Loop, LoopCancelled, LoopDone,
       BeginRead, SkipShadowWrite, WriteWithoutProposal, OpenGate, BeginUngatedWrite,
       GateWake, GateExpire, ReadCompletes, ReadFails, ReadLost, ProposalCompletes,
       RunFinalized, FinalizeLost
  <2> QED
    BY <1>3, <2>1, QuietRefines DEF Next
<1>4. CASE StartWrite
  <2>1. /\ pc = "exec_write" /\ step \in Steps /\ lastDiff \in Diffs
        /\ bound' = [bound EXCEPT ![step] = lastDiff]
        /\ UNCHANGED <<plan, status, patched, consents>>
        /\ plan[step].approval => <<step, lastDiff>> \in consents
        /\ bound[step] = None
    BY <1>4 DEF StartWrite, Inv, TypeOK, StepInv, ClearedInv, FreshInv, Cleared, Gate
  <2>2. status \notin Final
    BY <2>1 DEF Inv, RefusalInv, Ended
  <2>3. \A j \in Steps : j >= step => bound[j] = None
    BY <2>1 DEF Inv, FreshInv
  <2>4. Authorised!Grant(step, lastDiff)
    BY <2>1, <2>2, <2>3 DEF Authorised!Grant, Authorised!Steps
  <2> QED
    BY <2>1, <2>4 DEF Authorised!Next, Authorised!Steps, Authorised!Diffs
<1>5. ASSUME NEW c \in Changes, Patch(c)
      PROVE  [Authorised!Next]_(Authorised!vars)
  <2>1. /\ wstep \in Steps /\ bound[wstep] = wdiff /\ c \in wdiff /\ wdiff # None
        /\ patched[wstep][c] = 0
        /\ UNCHANGED <<plan, status, bound, consents>>
    BY <1>5, NoneAssumption DEF Patch, Inv, TypeOK, WriterInv
  <2>2. patched' = [patched EXCEPT ![wstep][c] = 1]
    BY <1>5, <2>1 DEF Patch, Inv, TypeOK
  <2>3. Authorised!Apply(wstep, c)
    BY <2>1, <2>2 DEF Authorised!Apply
  <2> QED
    BY <2>1, <2>3 DEF Authorised!Next, Authorised!Steps
<1>6. CASE \/ WriteThrows \/ WriteApplied \/ WriteReported \/ WriteFailed
           \/ WriteTimeout \/ LateWriteEnds \/ WorkerRestart
           \/ \E found \in {"passed", "failed", "threw"} : Verify(found)
  <2>1. Quiet
    BY <1>6 DEF WriteThrows, WriteApplied, WriteReported, WriteFailed, WriteTimeout,
       LateWriteEnds, WorkerRestart, Verify
  <2> QED
    BY <1>6, <2>1, QuietRefines DEF Next, Writing
<1>7. CASE UNCHANGED vars
  BY <1>7 DEF vars, Authorised!vars
<1> QED
  BY <1>1, <1>2, <1>3, <1>4, <1>5, <1>6, <1>7 DEF Next, User, Writing

\* For every spec, number of restarts and retry limit, the durable run implements
\* the contract AuthorisedWrites.
THEOREM RunImplementsContract == Spec => ImplementsAuthorisedWrites
<1>1. Inv /\ [Next]_vars => [Authorised!Next]_(Authorised!vars)
  BY NextRefines
<1> QED
  BY <1>1, InitRefines, Invariance, PTL
  DEF Spec, ImplementsAuthorisedWrites, Authorised!Spec
=============================================================================
