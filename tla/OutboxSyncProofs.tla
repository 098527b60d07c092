-------------------------- MODULE OutboxSyncProofs --------------------------
(***************************************************************************)
(* For every set of events, applications and tokens, every batch limit and *)
(* any number of store errors and crashes: nothing enqueued is lost, and   *)
(* nothing whose deletion was answered is queued or being uploaded.        *)
(***************************************************************************)
EXTENDS OutboxSync, TLAPS

USE DEF store, mutex, device, api, bounds, history, Uploading, Syncers

-----------------------------------------------------------------------------
(* The inductive invariant. *)

\* An upload runs under a token and works on rows that are still queued; an answer
\* is kept only while it is waited for.
HolderInv ==
  /\ Uploading => /\ who \in Syncers /\ held[who] \in Tokens
                  /\ target \subseteq outbox
  /\ lock # "pushing" => answer = "none"

\* Rows are acknowledged only after the API stored them.
StoredInv ==
  /\ lock = "acking" \/ (lock = "pushing" /\ answer = "accepted") =>
       \A e \in target : rows[e] > 0
  /\ NothingLost

\* An event being enqueued was just stored; a deletion of everything that has only
\* its tombstone left has emptied the queue.
ErasedInv ==
  /\ erased \cap outbox = {}
  /\ lock = "enqueue" => target \cap erased = {}
  /\ lock = "mark" /\ kind = "all" => target \cap outbox = {}

Inv == TypeOK /\ HolderInv /\ StoredInv /\ ErasedInv

\* The invariant holds initially.
LEMMA InitInv == Init => Inv
  BY DEF Init, Inv, TypeOK, HolderInv, StoredInv, NothingLost, ErasedInv, Locks

-----------------------------------------------------------------------------
(* Types, and the upload's hold on its rows. *)

\* Every step keeps the types and the upload's hold.
LEMMA NextType == TypeOK /\ HolderInv /\ [Next]_vars => TypeOK' /\ HolderInv'
<1> SUFFICES ASSUME TypeOK, HolderInv, [Next]_vars PROVE TypeOK' /\ HolderInv'
  OBVIOUS
<1> USE TokensAssumption, LimitAssumption DEF TypeOK, HolderInv, Locks
<1>1. ASSUME NEW e \in Events, Insert(e) PROVE TypeOK' /\ HolderInv'
  BY <1>1 DEF Insert, Take
<1>2. CASE Enqueue
  BY <1>2 DEF Enqueue, Release
<1>3. ASSUME NEW e \in Events, DeleteEvent(e) PROVE TypeOK' /\ HolderInv'
  BY <1>3 DEF DeleteEvent, Take
<1>4. ASSUME NEW a \in Apps, NEW traces \in BOOLEAN,
             DeleteAppHistory(a, traces)
      PROVE  TypeOK' /\ HolderInv'
  BY <1>4 DEF DeleteAppHistory, Of, Take
<1>5. CASE DeleteAllEvents
  BY <1>5 DEF DeleteAllEvents, Take
<1>6. CASE Tombstone
  BY <1>6 DEF Tombstone, Release
<1>7. CASE Purge
  BY <1>7 DEF Purge, Release
<1>8. ASSUME NEW s \in Syncers, WantSync(s) PROVE TypeOK' /\ HolderInv'
  BY <1>8 DEF WantSync
<1>9. ASSUME NEW s \in Syncers, NEW batch \in SUBSET Events,
             Drain(s, batch)
      PROVE  TypeOK' /\ HolderInv'
  BY <1>9 DEF Drain, Take, Done
<1>10. CASE ApiAnswers
  BY <1>10 DEF ApiAnswers, Ingest, Accepts
<1>11. CASE PushSucceeds
  BY <1>11 DEF PushSucceeds
<1>12. CASE PushFails
  BY <1>12 DEF PushFails, Abandoned
<1>13. ASSUME NEW r \in late, LateIngest(r) PROVE TypeOK' /\ HolderInv'
  BY <1>13 DEF LateIngest, Ingest
<1>14. ASSUME NEW e \in Events, Ack(e) PROVE TypeOK' /\ HolderInv'
  BY <1>14 DEF Ack, Advance, Done, Release
<1>15. ASSUME NEW e \in Events, Defer(e) PROVE TypeOK' /\ HolderInv'
  BY <1>15 DEF Defer, Advance, Done, Release
<1>16. ASSUME NEW e \in Events, BackoffElapses(e) PROVE TypeOK' /\ HolderInv'
  BY <1>16 DEF BackoffElapses
<1>17. ASSUME NEW t \in Tokens, Enroll(t) PROVE TypeOK' /\ HolderInv'
  BY <1>17 DEF Enroll
<1>18. CASE Enrolled
  BY <1>18 DEF Enrolled
<1>19. CASE Unenroll
  BY <1>19 DEF Unenroll
<1>20. ASSUME NEW t \in Tokens, SessionExpires(t) PROVE TypeOK' /\ HolderInv'
  BY <1>20 DEF SessionExpires
<1>21. CASE StoreError
  BY <1>21 DEF StoreError, Release
<1>22. CASE Crash
  BY <1>22 DEF Crash, Release, Abandoned
<1>23. CASE UNCHANGED vars
  BY <1>23 DEF vars
<1> QED
  BY <1>1, <1>2, <1>3, <1>4, <1>5, <1>6, <1>7, <1>8, <1>9, <1>10, <1>11,
     <1>12, <1>13, <1>14, <1>15, <1>16, <1>17, <1>18, <1>19, <1>20, <1>21,
     <1>22, <1>23
  DEF Next, Deletes, Works, Network, Enrolment, Drains

-----------------------------------------------------------------------------
(* At-least-once delivery. *)

\* Every step keeps what makes acknowledgement safe.
LEMMA NextStored == Inv /\ [Next]_vars => StoredInv'
<1> SUFFICES ASSUME Inv, [Next]_vars PROVE StoredInv'
  OBVIOUS
<1> USE DEF Inv, TypeOK, HolderInv, StoredInv, NothingLost
<1>1. ASSUME NEW e \in Events, Insert(e) PROVE StoredInv'
  BY <1>1 DEF Insert, Take
<1>2. CASE Enqueue
  BY <1>2 DEF Enqueue, Release
<1>3. ASSUME NEW e \in Events, DeleteEvent(e) PROVE StoredInv'
  BY <1>3 DEF DeleteEvent, Take
<1>4. ASSUME NEW a \in Apps, NEW traces \in BOOLEAN,
             DeleteAppHistory(a, traces)
      PROVE  StoredInv'
  BY <1>4 DEF DeleteAppHistory, Of, Take
<1>5. CASE DeleteAllEvents
  BY <1>5 DEF DeleteAllEvents, Take
<1>6. CASE Tombstone
  BY <1>6 DEF Tombstone, Release
<1>7. CASE Purge
  BY <1>7 DEF Purge, Release
<1>8. ASSUME NEW s \in Syncers, WantSync(s) PROVE StoredInv'
  BY <1>8 DEF WantSync
<1>9. ASSUME NEW s \in Syncers, NEW batch \in SUBSET Events,
             Drain(s, batch)
      PROVE  StoredInv'
  BY <1>9 DEF Drain, Take, Done
<1>10. CASE ApiAnswers
  BY <1>10 DEF ApiAnswers, Ingest, Accepts
<1>11. CASE PushSucceeds
  BY <1>11 DEF PushSucceeds
<1>12. CASE PushFails
  BY <1>12 DEF PushFails, Abandoned
<1>13. ASSUME NEW r \in late, LateIngest(r) PROVE StoredInv'
  BY <1>13 DEF LateIngest, Ingest
<1>14. ASSUME NEW e \in Events, Ack(e) PROVE StoredInv'
  BY <1>14 DEF Ack, Advance, Done, Release
<1>15. ASSUME NEW e \in Events, Defer(e) PROVE StoredInv'
  BY <1>15 DEF Defer, Advance, Done, Release
<1>16. ASSUME NEW e \in Events, BackoffElapses(e) PROVE StoredInv'
  BY <1>16 DEF BackoffElapses
<1>17. ASSUME NEW t \in Tokens, Enroll(t) PROVE StoredInv'
  BY <1>17 DEF Enroll
<1>18. CASE Enrolled
  BY <1>18 DEF Enrolled
<1>19. CASE Unenroll
  BY <1>19 DEF Unenroll
<1>20. ASSUME NEW t \in Tokens, SessionExpires(t) PROVE StoredInv'
  BY <1>20 DEF SessionExpires
<1>21. CASE StoreError
  BY <1>21 DEF StoreError, Release
<1>22. CASE Crash
  BY <1>22 DEF Crash, Release, Abandoned
<1>23. CASE UNCHANGED vars
  BY <1>23 DEF vars
<1> QED
  BY <1>1, <1>2, <1>3, <1>4, <1>5, <1>6, <1>7, <1>8, <1>9, <1>10, <1>11,
     <1>12, <1>13, <1>14, <1>15, <1>16, <1>17, <1>18, <1>19, <1>20, <1>21,
     <1>22, <1>23
  DEF Next, Deletes, Works, Network, Enrolment, Drains

-----------------------------------------------------------------------------
(* Deletion. *)

\* Every step keeps answered deletions out of the queue.
LEMMA NextErased == Inv /\ [Next]_vars => ErasedInv'
<1> SUFFICES ASSUME Inv, [Next]_vars PROVE ErasedInv'
  OBVIOUS
<1> USE DEF Inv, TypeOK, HolderInv, ErasedInv
<1>1. ASSUME NEW e \in Events, Insert(e) PROVE ErasedInv'
  BY <1>1 DEF Insert, Take
<1>2. CASE Enqueue
  BY <1>2 DEF Enqueue, Release
<1>3. ASSUME NEW e \in Events, DeleteEvent(e) PROVE ErasedInv'
  BY <1>3 DEF DeleteEvent, Take
<1>4. ASSUME NEW a \in Apps, NEW traces \in BOOLEAN,
             DeleteAppHistory(a, traces)
      PROVE  ErasedInv'
  BY <1>4 DEF DeleteAppHistory, Of, Take
<1>5. CASE DeleteAllEvents
  BY <1>5 DEF DeleteAllEvents, Take
<1>6. CASE Tombstone
  BY <1>6 DEF Tombstone, Release
<1>7. CASE Purge
  BY <1>7 DEF Purge, Release
<1>8. ASSUME NEW s \in Syncers, WantSync(s) PROVE ErasedInv'
  BY <1>8 DEF WantSync
<1>9. ASSUME NEW s \in Syncers, NEW batch \in SUBSET Events,
             Drain(s, batch)
      PROVE  ErasedInv'
  BY <1>9 DEF Drain, Take, Done
<1>10. CASE ApiAnswers
  BY <1>10 DEF ApiAnswers, Ingest, Accepts
<1>11. CASE PushSucceeds
  BY <1>11 DEF PushSucceeds
<1>12. CASE PushFails
  BY <1>12 DEF PushFails, Abandoned
<1>13. ASSUME NEW r \in late, LateIngest(r) PROVE ErasedInv'
  BY <1>13 DEF LateIngest, Ingest
<1>14. ASSUME NEW e \in Events, Ack(e) PROVE ErasedInv'
  BY <1>14 DEF Ack, Advance, Done, Release
<1>15. ASSUME NEW e \in Events, Defer(e) PROVE ErasedInv'
  BY <1>15 DEF Defer, Advance, Done, Release
<1>16. ASSUME NEW e \in Events, BackoffElapses(e) PROVE ErasedInv'
  BY <1>16 DEF BackoffElapses
<1>17. ASSUME NEW t \in Tokens, Enroll(t) PROVE ErasedInv'
  BY <1>17 DEF Enroll
<1>18. CASE Enrolled
  BY <1>18 DEF Enrolled
<1>19. CASE Unenroll
  BY <1>19 DEF Unenroll
<1>20. ASSUME NEW t \in Tokens, SessionExpires(t) PROVE ErasedInv'
  BY <1>20 DEF SessionExpires
<1>21. CASE StoreError
  BY <1>21 DEF StoreError, Release
<1>22. CASE Crash
  BY <1>22 DEF Crash, Release, Abandoned
<1>23. CASE UNCHANGED vars
  BY <1>23 DEF vars
<1> QED
  BY <1>1, <1>2, <1>3, <1>4, <1>5, <1>6, <1>7, <1>8, <1>9, <1>10, <1>11,
     <1>12, <1>13, <1>14, <1>15, <1>16, <1>17, <1>18, <1>19, <1>20, <1>21,
     <1>22, <1>23
  DEF Next, Deletes, Works, Network, Enrolment, Drains

-----------------------------------------------------------------------------
(* The theorems. *)

\* The invariant holds throughout.
LEMMA Invariant == Spec => []Inv
<1>1. Inv /\ [Next]_vars => Inv'
  BY NextType, NextStored, NextErased DEF Inv
<1> QED
  BY InitInv, <1>1, PTL DEF Spec

\* The desktop's store, its uploads and the API's tables keep their types.
THEOREM SyncTypeCorrect == Spec => []TypeOK
  BY Invariant, PTL DEF Inv

\* A projection enqueued and not deleted is queued or stored, wherever answers are
\* lost and acknowledgements are cut off: drain_and_push is at-least-once.
THEOREM AtLeastOnce == Spec => []NothingLost
  BY Invariant, PTL DEF Inv, StoredInv

\* Once a deletion is answered, none of its events is queued or being uploaded: the
\* store mutex keeps deletions and uploads apart.
THEOREM DeletionHolds == Spec => []ErasedNeverLeave
<1>1. Inv => ErasedNeverLeave
  BY DEF Inv, HolderInv, ErasedInv, ErasedNeverLeave
<1> QED
  BY Invariant, <1>1, PTL
=============================================================================
