-------------------------- MODULE RunControlProofs --------------------------
(***************************************************************************)
(* For every set of agents, trigger keys and requests and any number of    *)
(* crashes: the trigger's idempotency and the honesty of cancelled rows.   *)
(***************************************************************************)
EXTENDS RunControl, TLAPS

USE DEF tables, trigger, handlers, signals, history, Live

-----------------------------------------------------------------------------
(* The inductive invariant. *)

\* A key is held by at most one row; only a run with a row is started.
KeyInv ==
  /\ \A r, s \in Runs : row[r] # "none" /\ row[s] # "none" /\ key[r] = key[s] => r = s
  /\ \A r \in Runs : wf[r] # "none" \/ phase[r] = "created" => row[r] # "none"

\* Every answer names the holder of the request's key.
AnswerInv ==
  \A r \in Runs : answer[r] # None =>
    row[answer[r]] # "none" /\ key[answer[r]] = key[r]

\* A cancel request about to update a row found the row and signalled the workflow.
CancelInv ==
  /\ \A r \in cancelling : r \in cancelled /\ row[r] # "none"
  /\ CancelledRowsWereSignalled

Inv == TypeOK /\ KeyInv /\ AnswerInv /\ CancelInv

-----------------------------------------------------------------------------
(* Type correctness. *)

\* Every step keeps the types.
LEMMA NextType == TypeOK /\ [Next]_vars => TypeOK'
<1> SUFFICES ASSUME TypeOK, [Next]_vars PROVE TypeOK'
  OBVIOUS
<1> USE PublishAssumption, CrashAssumption DEF TypeOK, AgentStates
<1>1. ASSUME NEW a \in Agents, NEW s \in PublishStates, Publish(a, s) PROVE TypeOK'
  BY <1>1 DEF Publish
<1>2. ASSUME NEW r \in Runs, Lookup(r) PROVE TypeOK'
  BY <1>2 DEF Lookup, Move
<1>3. ASSUME NEW r \in Runs, CreateRun(r) PROVE TypeOK'
  <2>1. CASE Holders(key[r]) = {}
    BY <1>3, <2>1 DEF CreateRun, Move
  <2>2. CASE Holders(key[r]) # {}
    <3> DEFINE h == CHOOSE h \in Holders(key[r]) : TRUE
    <3>1. h \in Runs
      BY <2>2 DEF Holders
    <3>2. /\ answer' = [answer EXCEPT ![r] = h]
          /\ phase' = [phase EXCEPT ![r] = "duplicate"]
          /\ UNCHANGED <<tables, key, target, handlers, wf, signals, history, crashes>>
      BY <1>3, <2>2 DEF CreateRun, Move
    <3> HIDE DEF h
    <3> QED
      BY <3>1, <3>2
  <2> QED
    BY <2>1, <2>2
<1>4. ASSUME NEW r \in Runs, StartRun(r) PROVE TypeOK'
  BY <1>4 DEF StartRun, Move
<1>5. ASSUME NEW r \in Runs, StartRunThrows(r) PROVE TypeOK'
  BY <1>5 DEF StartRunThrows, Move
<1>6. ASSUME NEW r \in Runs, ApproveMatches(r) PROVE TypeOK'
  BY <1>6 DEF ApproveMatches
<1>7. ASSUME NEW r \in Runs, ApproveSignals(r) PROVE TypeOK'
  BY <1>7 DEF ApproveSignals
<1>8. ASSUME NEW r \in Runs, Reject(r) PROVE TypeOK'
  BY <1>8 DEF Reject
<1>9. ASSUME NEW r \in Runs, CancelSignals(r) PROVE TypeOK'
  BY <1>9 DEF CancelSignals
<1>10. ASSUME NEW r \in Runs, CancelUpdatesRow(r) PROVE TypeOK'
  BY <1>10 DEF CancelUpdatesRow
<1>11. ASSUME NEW r \in Runs, OpensGate(r) PROVE TypeOK'
  BY <1>11 DEF OpensGate, Advance
<1>12. ASSUME NEW r \in Runs, EndsEarly(r) PROVE TypeOK'
  BY <1>12 DEF EndsEarly, Advance
<1>13. ASSUME NEW r \in Runs, PassesGate(r) PROVE TypeOK'
  BY <1>13 DEF PassesGate, Advance
<1>14. ASSUME NEW r \in Runs, Writes(r) PROVE TypeOK'
  BY <1>14 DEF Writes, Advance
<1>15. CASE KillSwitch
  BY <1>15 DEF KillSwitch, Haltable
<1>16. CASE ApiCrash
  BY <1>16 DEF ApiCrash
<1>17. CASE UNCHANGED vars
  BY <1>17 DEF vars
<1> QED
  BY <1>1, <1>2, <1>3, <1>4, <1>5, <1>6, <1>7, <1>8, <1>9, <1>10, <1>11,
     <1>12, <1>13, <1>14, <1>15, <1>16, <1>17
  DEF Next, Handler, Request, Workflow

-----------------------------------------------------------------------------
(* Trigger idempotency. *)

\* The invariant holds initially.
LEMMA InitInv == Init => Inv
  BY DEF Init, Inv, TypeOK, KeyInv, AnswerInv, CancelInv, CancelledRowsWereSignalled

\* Every step keeps it.
LEMMA NextInv == Inv /\ [Next]_vars => Inv'
<1> SUFFICES ASSUME Inv, [Next]_vars PROVE Inv'
  OBVIOUS
<1>0. TypeOK /\ TypeOK'
  BY NextType DEF Inv
<1> SUFFICES KeyInv' /\ AnswerInv' /\ CancelInv'
  BY <1>0 DEF Inv
<1> USE <1>0, NoneIsNoRun
    DEF Inv, TypeOK, KeyInv, AnswerInv, CancelInv, CancelledRowsWereSignalled
<1>1. ASSUME NEW a \in Agents, NEW s \in PublishStates, Publish(a, s)
      PROVE  KeyInv' /\ AnswerInv' /\ CancelInv'
  BY <1>1 DEF Publish
<1>2. ASSUME NEW r \in Runs, Lookup(r) PROVE KeyInv' /\ AnswerInv' /\ CancelInv'
  BY <1>2 DEF Lookup, Move
<1>3. ASSUME NEW r \in Runs, CreateRun(r) PROVE KeyInv' /\ AnswerInv' /\ CancelInv'
  <2>1. CASE Holders(key[r]) = {}
    <3>1. /\ row' = [row EXCEPT ![r] = "queued"]
          /\ UNCHANGED <<answer, key, wf, handlers, signals, halted>>
      BY <1>3, <2>1 DEF CreateRun
    <3>2. \A s \in Runs : row[s] # "none" => key[s] # key[r]
      BY <2>1 DEF Holders
    <3>3. phase' = [phase EXCEPT ![r] = "created"]
      BY <1>3, <2>1 DEF CreateRun, Move
    <3> QED
      BY <3>1, <3>2, <3>3
  <2>2. CASE Holders(key[r]) # {}
    <3> DEFINE h == CHOOSE h \in Holders(key[r]) : TRUE
    <3>1. h \in Runs /\ row[h] # "none" /\ key[h] = key[r]
      BY <2>2 DEF Holders
    <3>2. /\ answer' = [answer EXCEPT ![r] = h]
          /\ phase' = [phase EXCEPT ![r] = "duplicate"]
          /\ UNCHANGED <<row, key, wf, handlers, signals, halted>>
      BY <1>3, <2>2 DEF CreateRun, Move
    <3> HIDE DEF h
    <3> QED
      BY <3>1, <3>2
  <2> QED
    BY <2>1, <2>2
<1>4. ASSUME NEW r \in Runs, StartRun(r) PROVE KeyInv' /\ AnswerInv' /\ CancelInv'
  BY <1>4 DEF StartRun, Move
<1>5. ASSUME NEW r \in Runs, StartRunThrows(r)
      PROVE  KeyInv' /\ AnswerInv' /\ CancelInv'
  BY <1>5 DEF StartRunThrows, Move
<1>6. ASSUME NEW r \in Runs, ApproveMatches(r)
      PROVE  KeyInv' /\ AnswerInv' /\ CancelInv'
  BY <1>6 DEF ApproveMatches
<1>7. ASSUME NEW r \in Runs, ApproveSignals(r)
      PROVE  KeyInv' /\ AnswerInv' /\ CancelInv'
  BY <1>7 DEF ApproveSignals
<1>8. ASSUME NEW r \in Runs, Reject(r) PROVE KeyInv' /\ AnswerInv' /\ CancelInv'
  BY <1>8 DEF Reject
<1>9. ASSUME NEW r \in Runs, CancelSignals(r)
      PROVE  KeyInv' /\ AnswerInv' /\ CancelInv'
  BY <1>9 DEF CancelSignals
<1>10. ASSUME NEW r \in Runs, CancelUpdatesRow(r)
      PROVE  KeyInv' /\ AnswerInv' /\ CancelInv'
  <2>1. /\ r \in cancelled /\ row[r] # "none"
        /\ row' = [row EXCEPT ![r] = "cancelled"]
        /\ cancelling' \subseteq cancelling
        /\ UNCHANGED <<key, wf, phase, answer, cancelled, halted>>
    BY <1>10 DEF CancelUpdatesRow
  <2>2. KeyInv' /\ AnswerInv'
    BY <2>1
  <2>3. CancelInv'
    BY <2>1
  <2> QED
    BY <2>2, <2>3
<1>11. ASSUME NEW r \in Runs, OpensGate(r) PROVE KeyInv' /\ AnswerInv' /\ CancelInv'
  BY <1>11 DEF OpensGate, Advance
<1>12. ASSUME NEW r \in Runs, EndsEarly(r) PROVE KeyInv' /\ AnswerInv' /\ CancelInv'
  BY <1>12 DEF EndsEarly, Advance
<1>13. ASSUME NEW r \in Runs, PassesGate(r)
      PROVE  KeyInv' /\ AnswerInv' /\ CancelInv'
  BY <1>13 DEF PassesGate, Advance
<1>14. ASSUME NEW r \in Runs, Writes(r) PROVE KeyInv' /\ AnswerInv' /\ CancelInv'
  BY <1>14 DEF Writes, Advance
<1>15. CASE KillSwitch
  BY <1>15 DEF KillSwitch, Haltable
<1>16. CASE ApiCrash
  BY <1>16 DEF ApiCrash
<1>17. CASE UNCHANGED vars
  BY <1>17 DEF vars
<1> QED
  BY <1>1, <1>2, <1>3, <1>4, <1>5, <1>6, <1>7, <1>8, <1>9, <1>10, <1>11,
     <1>12, <1>13, <1>14, <1>15, <1>16, <1>17
  DEF Next, Handler, Request, Workflow

\* The inductive invariant holds in every reachable state.
LEMMA Invariance == Spec => []Inv
  BY InitInv, NextInv, PTL DEF Spec

\* Every variable of run control keeps its type.
THEOREM ControlTypeCorrect == Spec => []TypeOK
<1>1. Inv => TypeOK
  BY DEF Inv
<1> QED
  BY <1>1, Invariance, PTL

\* For any number of concurrent, repeated and crashed trigger requests, a key
\* starts at most one workflow.
THEOREM TriggerOnce == Spec => []OneWorkflowPerKey
<1>1. Inv => OneWorkflowPerKey
  BY DEF Inv, KeyInv, OneWorkflowPerKey
<1> QED
  BY <1>1, Invariance, PTL

\* All answers to a key name the one run that can be started for it.
THEOREM OneAnswer == Spec => []AnswersAgree
<1>1. Inv => AnswersAgree
  BY DEF Inv, TypeOK, KeyInv, AnswerInv, AnswersAgree
<1> QED
  BY <1>1, Invariance, PTL

\* A cancelled row was signalled or halted, however cancel requests are cut off.
THEOREM CancelledRowsHonest == Spec => []CancelledRowsWereSignalled
<1>1. Inv => CancelledRowsWereSignalled
  BY DEF Inv, CancelInv
<1> QED
  BY <1>1, Invariance, PTL
=============================================================================
