------------------------------ MODULE AuditChain ------------------------------
(***************************************************************************)
(* The audit chain of one organisation (packages/db/src/audit.ts): each    *)
(* event is stamped, then takes the lock on the chain's head, and is       *)
(* linked to the event the head names.  Hashes are injective, so an        *)
(* event's identity stands for its hash.                                   *)
(***************************************************************************)
EXTENDS Values

CONSTANT AuditEvents \* events, each appended by a transaction of its own

ASSUME AuditAssumption == None \notin AuditEvents

VARIABLES
  appending, \* per event: where its transaction is
  linkTo,    \* per event: the head its transaction has read
  stamps,    \* per event: occurred_at, or None
  auditRows, \* audit_events: records of an event, its stamp and its previous_event_hash
  auditHead, \* audit_chain_heads.latest_event_hash, or None when there is no row
  headLock,  \* the transaction that holds the head's row lock, or None
  ticks      \* the clock: no two events are stamped in the same millisecond

auditVars == <<appending, linkTo, stamps, auditRows, auditHead, headLock, ticks>>

-----------------------------------------------------------------------------
(* appendAuditEventTx *)

\* The event gets its id and occurred_at before it asks for the lock.
StampEvent(e) ==
  /\ appending[e] = "idle" /\ appending' = [appending EXCEPT ![e] = "stamped"]
  /\ stamps' = [stamps EXCEPT ![e] = ticks] /\ ticks' = ticks + 1
  /\ UNCHANGED <<linkTo, auditRows, auditHead, headLock>>

\* SELECT ... FOR UPDATE waits for whoever holds the row ...
LockedByNobody == TRUE \* a mutant
HeadIsFree == headLock = None

LockHead(e) ==
  /\ appending[e] = "stamped" /\ auditHead # None /\ HeadIsFree
  /\ headLock' = e /\ linkTo' = [linkTo EXCEPT ![e] = auditHead]
  /\ appending' = [appending EXCEPT ![e] = "locked"]
  /\ UNCHANGED <<stamps, auditRows, auditHead, ticks>>

\* ... and locks nothing where there is no row: the transaction will insert it.
FindNoHead(e) ==
  /\ appending[e] = "stamped" /\ auditHead = None
  /\ appending' = [appending EXCEPT ![e] = "creating"]
  /\ UNCHANGED <<linkTo, stamps, auditRows, auditHead, headLock, ticks>>

\* The key makes a second insert wait for the first, and then fail.
CreateHead(e) ==
  /\ appending[e] = "creating" /\ headLock = None
  /\ headLock' = (IF auditHead = None THEN e ELSE None)
  /\ appending' = [appending EXCEPT ![e] = IF auditHead = None THEN "locked" ELSE "aborted"]
  /\ UNCHANGED <<linkTo, stamps, auditRows, auditHead, ticks>>

\* The event is inserted, the head moves to it, and the transaction commits.
CommitEvent(e) ==
  /\ appending[e] = "locked"
  /\ auditRows' = auditRows \cup {[event |-> e, at |-> stamps[e], previous |-> linkTo[e]]}
  /\ auditHead' = e /\ headLock' = None /\ appending' = [appending EXCEPT ![e] = "committed"]
  /\ UNCHANGED <<linkTo, stamps, ticks>>

\* The transaction fails: nothing of it is left.
AbortEvent(e) ==
  /\ appending[e] = "locked" /\ headLock' = None /\ appending' = [appending EXCEPT ![e] = "aborted"]
  /\ UNCHANGED <<linkTo, stamps, auditRows, auditHead, ticks>>

-----------------------------------------------------------------------------
(* verifyAuditChain: the rows by occurred_at and then by id, each linked to the one before *)

RowsInOrder == {s \in [1..Cardinality(auditRows) -> auditRows] :
                  /\ \A i, j \in DOMAIN s : i # j => s[i] # s[j]
                  /\ \A i, j \in DOMAIN s : s[i].at < s[j].at => i < j}
Verifies(s) ==
  /\ \A i \in DOMAIN s : s[i].previous = IF i = 1 THEN None ELSE s[i - 1].event
  /\ s # <<>> => auditHead = s[Len(s)].event

-----------------------------------------------------------------------------
AuditInit ==
  /\ appending = [e \in AuditEvents |-> "idle"] /\ stamps = [e \in AuditEvents |-> None]
  /\ linkTo = [e \in AuditEvents |-> None] /\ auditRows = {} /\ auditHead = None /\ headLock = None /\ ticks = 0

AuditNext ==
  \E e \in AuditEvents :
    StampEvent(e) \/ LockHead(e) \/ FindNoHead(e) \/ CreateHead(e) \/ CommitEvent(e) \/ AbortEvent(e)

AuditSpec == AuditInit /\ [][AuditNext]_auditVars

-----------------------------------------------------------------------------
\* Whatever transactions race, the committed events form one chain: it starts once, no event is
\* followed by two, and the head is the event that none follows (audit.ts serialises appends by
\* locking the head).
AuditIsOneChain ==
  /\ \A a, b \in auditRows : a.previous = b.previous => a = b
  /\ \A a \in auditRows : a.previous # None => \E b \in auditRows : b.event = a.previous
  /\ auditRows # {} => {a.event : a \in auditRows} \ {a.previous : a \in auditRows} = {auditHead}

\* "verifies an intact chain": nobody changes a row here, so verifyAuditChain has to find it valid.
IntactChainVerifies == \A s \in RowsInOrder : Verifies(s)
=============================================================================
