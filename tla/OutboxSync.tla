----------------------------- MODULE OutboxSync -----------------------------
(***************************************************************************)
(* Observed events on their way from the desktop to the API: the encrypted *)
(* store's event table and sync outbox (apps/desktop/src-tauri/src/        *)
(* store.rs), the upload of due outbox rows (sync.rs), the commands and    *)
(* the background loop that drive them (lib.rs), device enrolment, and the *)
(* API that ingests a batch (apps/api/src/server.ts, packages/db).         *)
(*                                                                         *)
(* Every store operation holds one mutex, the upload's HTTP call included, *)
(* but is a series of SQL statements without a transaction: a store error  *)
(* or a crash cuts it anywhere.  An event id may be stored again (browser  *)
(* events take their id from the hash of their shape).                     *)
(***************************************************************************)
EXTENDS Integers, FiniteSets

CONSTANTS
  Events,     \* event ids
  Apps,       \* applications (keyed HMACs)
  AppOf,      \* the application of each event
  Invalid,    \* events whose projection the API's contract refuses
  Tokens,     \* device tokens the API can issue
  Limit,      \* rows per upload (200 in the code)
  MaxInserts, \* bound: events stored per behaviour
  MaxFaults,  \* bound: store errors and crashes per behaviour
  None        \* null

Syncers == {"loop", "panel"}   \* start_sync_loop and the sync_now command

ASSUME AppsAssumption == AppOf \in [Events -> Apps] /\ Invalid \subseteq Events
ASSUME FiniteAssumption == IsFiniteSet(Events)
ASSUME TokensAssumption == None \notin Tokens
ASSUME LimitAssumption == Limit \in Nat \ {0} /\ MaxInserts \in Nat /\ MaxFaults \in Nat

VARIABLES
  (* The device's store: durable. *)
  table,      \* workflow_events
  outbox,     \* sync_outbox: one row per event (ob-evt-<event>)
  due,        \* rows whose available_at has passed
  tombs,      \* events a workflow_event tombstone names
  keychain,   \* the stored device token, or None
  (* The device's process: volatile. *)
  lock,       \* what the holder of the store mutex does next, or "free"
  kind,       \* the deletion under way: of an event, an app, everything, or "none"
  target,     \* the events or rows the holder works on
  who,        \* the syncer uploading, or None
  held,       \* the token a syncer read before it asked for the mutex
  granted,    \* a new token in an enrol answer not yet stored
  (* The API. *)
  sessions,   \* tokens with an active device session
  issued,     \* tokens ever issued
  rows,       \* synced_events rows of each event
  answer,     \* the API's answer to the upload being awaited
  late,       \* uploads nobody awaits any more that may still arrive
  (* Bounds and history. *)
  inserts, faults,
  queued,     \* events enqueued and not purged by a deletion since
  doomed,     \* events a deletion took from the table, not stored since
  erased      \* events whose deletion was answered, not stored since

store == <<table, outbox, due, tombs>>
mutex == <<lock, kind, target, who>>
device == <<keychain, held, granted>>
api == <<sessions, issued, rows, answer, late>>
bounds == <<inserts, faults>>
history == <<queued, doomed, erased>>
vars == <<store, mutex, device, api, bounds, history>>

Locks == {"free", "enqueue", "mark", "purge", "pushing", "acking", "deferring"}

Init ==
  /\ table = {} /\ outbox = {} /\ due = {} /\ tombs = {}
  /\ lock = "free" /\ kind = "none" /\ target = {} /\ who = None
  /\ keychain = None /\ held = [s \in Syncers |-> None] /\ granted = None
  /\ sessions = {} /\ issued = {} /\ rows = [e \in Events |-> 0]
  /\ answer = "none" /\ late = {}
  /\ inserts = 0 /\ faults = 0
  /\ queued = {} /\ doomed = {} /\ erased = {}

\* The mutex passes to an operation whose next statement is l, on the events es.
Take(l, es) == lock = "free" /\ lock' = l /\ target' = es

Release == lock' = "free" /\ target' = {} /\ kind' = "none" /\ who' = None

-----------------------------------------------------------------------------
(* insert_event: the event row, then its projection in the outbox. *)

Insert(e) ==
  /\ inserts < MaxInserts /\ inserts' = inserts + 1
  /\ Take("enqueue", {e})
  /\ table' = table \cup {e}
  /\ doomed' = doomed \ {e} /\ erased' = erased \ {e}
  /\ UNCHANGED <<outbox, due, tombs, kind, who, device, api, faults, queued>>

\* INSERT OR IGNORE: a row already queued keeps its back-off.
Enqueue ==
  /\ lock = "enqueue"
  /\ outbox' = outbox \cup target
  /\ due' = due \cup (target \ outbox)
  /\ queued' = queued \cup target
  /\ Release
  /\ UNCHANGED <<table, tombs, device, api, bounds, doomed, erased>>

-----------------------------------------------------------------------------
(* Deletions: the rows go first; a tombstone and the purge of the outbox     *)
(* follow.  A deletion that finds no row is answered and does nothing.       *)

\* Mutant: the command does not wait for the store mutex.
DeleteEventUnlocked(e) ==
  /\ e \in table
  /\ table' = table \ {e} /\ outbox' = outbox \ {e} /\ due' = due \ {e}
  /\ tombs' = tombs \cup {e} /\ queued' = queued \ {e}
  /\ doomed' = doomed \cup {e} /\ erased' = erased \cup {e}
  /\ UNCHANGED <<mutex, device, api, bounds>>

DeleteEvent(e) ==
  /\ e \in table
  /\ Take("mark", {e}) /\ kind' = "event"
  /\ table' = table \ {e}
  /\ doomed' = doomed \cup {e}
  /\ UNCHANGED <<outbox, due, tombs, who, device, api, bounds, queued, erased>>

Of(a) == {e \in Events : AppOf[e] = a}

\* traces: whether the app's action traces had a row to delete.
DeleteAppHistory(a, traces) ==
  /\ traces \/ Of(a) \cap table # {}
  /\ Take("mark", Of(a)) /\ kind' = "app"
  /\ table' = table \ Of(a)
  /\ doomed' = doomed \cup (Of(a) \cap table)
  /\ UNCHANGED <<outbox, due, tombs, who, device, api, bounds, queued, erased>>

DeleteAllEvents ==
  /\ Take("purge", Events) /\ kind' = "all"
  /\ table' = {}
  /\ doomed' = doomed \cup table
  /\ UNCHANGED <<outbox, due, tombs, who, device, api, bounds, queued, erased>>

\* The tombstone; it comes last when everything is deleted.
Tombstone ==
  /\ lock = "mark"
  /\ tombs' = IF kind = "event" THEN tombs \cup target ELSE tombs
  /\ IF kind = "all" THEN Release /\ erased' = erased \cup target
     ELSE lock' = "purge" /\ UNCHANGED <<target, kind, who, erased>>
  /\ UNCHANGED <<table, outbox, due, device, api, bounds, queued, doomed>>

\* The queued projections go; the deletion is answered.
Purge ==
  /\ lock = "purge"
  /\ outbox' = outbox \ target /\ due' = due \ target
  /\ queued' = queued \ target
  /\ IF kind = "all" THEN lock' = "mark" /\ UNCHANGED <<target, kind, who, erased>>
     ELSE Release /\ erased' = erased \cup target
  /\ UNCHANGED <<table, tombs, device, api, bounds, doomed>>

-----------------------------------------------------------------------------
(* The upload: drain_and_push, by the loop or by sync_now. *)

\* The token is read before the mutex is asked for.
WantSync(s) ==
  /\ held[s] = None /\ keychain # None
  /\ held' = [held EXCEPT ![s] = keychain]
  /\ UNCHANGED <<store, mutex, keychain, granted, api, bounds, history>>

Done(s) == held' = [held EXCEPT ![s] = None]

\* Takes up to Limit due rows, oldest first; which are the oldest is left open.
Drain(s, batch) ==
  /\ held[s] # None
  /\ batch \subseteq due
  /\ Cardinality(batch) = IF Cardinality(due) < Limit THEN Cardinality(due) ELSE Limit
  /\ IF batch = {} THEN lock = "free" /\ Done(s) /\ UNCHANGED mutex
     ELSE Take("pushing", batch) /\ who' = s /\ UNCHANGED <<kind, held>>
  /\ UNCHANGED <<store, keychain, granted, api, bounds, history>>

\* POST /v1/sync/events for token t: refused without an active session or with one
\* bad projection in it; otherwise stored in one transaction, known events skipped.
Accepts(t, batch) == t \in sessions /\ batch \cap Invalid = {}
Ingest(t, batch) ==
  rows' = [e \in Events |-> IF Accepts(t, batch) /\ e \in batch /\ rows[e] = 0
                              THEN 1 ELSE rows[e]]

ApiAnswers ==
  /\ lock = "pushing" /\ answer = "none"
  /\ Ingest(held[who], target)
  /\ answer' = IF Accepts(held[who], target) THEN "accepted" ELSE "refused"
  /\ UNCHANGED <<store, mutex, device, sessions, issued, late, bounds, history>>

PushSucceeds ==
  /\ lock = "pushing" /\ answer = "accepted"
  /\ lock' = "acking" /\ answer' = "none"
  /\ UNCHANGED <<store, kind, target, who, device, sessions, issued, rows, late, bounds,
                 history>>

\* What is left on the network when nobody waits for the answer any more; an upload the
\* API refuses now it refuses later, so only one that it accepts is kept.
Abandoned ==
  late' \in {late} \cup IF answer = "none" /\ Accepts(held[who], target)
                          THEN {late \cup {<<held[who], target>>}} ELSE {}

\* Mutant: a failed upload is acknowledged like a successful one.
PushFailsAcked ==
  /\ lock = "pushing"
  /\ lock' = "acking" /\ answer' = "none"
  /\ Abandoned
  /\ UNCHANGED <<store, kind, target, who, device, sessions, issued, rows, bounds,
                 history>>

\* An error status, or the connection fails: before the request arrives, while it
\* is under way, or after it was stored.
PushFails ==
  /\ lock = "pushing"
  /\ lock' = "deferring" /\ answer' = "none"
  /\ Abandoned
  /\ UNCHANGED <<store, kind, target, who, device, sessions, issued, rows, bounds,
                 history>>

\* An upload given up by the device reaches the API after all.
LateIngest(r) ==
  /\ r \in late /\ late' = late \ {r}
  /\ Ingest(r[1], r[2])
  /\ UNCHANGED <<store, mutex, device, sessions, issued, answer, bounds, history>>

\* The holder is done with row e; after the last one the mutex is free.
Advance(e) ==
  /\ e \in target
  /\ IF target = {e} THEN Release /\ Done(who)
     ELSE target' = target \ {e} /\ UNCHANGED <<lock, kind, who, held>>

\* outbox_ack deletes row by row.
Ack(e) ==
  /\ lock = "acking" /\ Advance(e)
  /\ outbox' = outbox \ {e} /\ due' = due \ {e}
  /\ UNCHANGED <<table, tombs, keychain, granted, api, bounds, history>>

\* Mutant: the store mutex is not released after a failed upload.
DeferKeepsMutex(e) ==
  /\ lock = "deferring" /\ e \in target /\ due' = due \ {e}
  /\ UNCHANGED <<table, outbox, tombs, mutex, device, api, bounds, history>>

\* outbox_defer pushes available_at out row by row.
Defer(e) ==
  /\ lock = "deferring" /\ Advance(e)
  /\ due' = due \ {e}
  /\ UNCHANGED <<table, outbox, tombs, keychain, granted, api, bounds, history>>

BackoffElapses(e) ==
  /\ e \in outbox \ due
  /\ due' = due \cup {e}
  /\ UNCHANGED <<table, outbox, tombs, mutex, device, api, bounds, history>>

-----------------------------------------------------------------------------
(* Enrolment.  None of it takes the store mutex. *)

\* POST /v1/devices/enroll issues a token with a session of its own.
Enroll(t) ==
  /\ t \notin issued /\ granted = None
  /\ issued' = issued \cup {t} /\ sessions' = sessions \cup {t}
  /\ granted' = t
  /\ UNCHANGED <<store, mutex, keychain, held, rows, answer, late, bounds, history>>

\* The answer arrives and the token is stored, or it is lost.
Enrolled ==
  /\ granted # None /\ granted' = None
  /\ keychain' \in {granted, keychain}
  /\ UNCHANGED <<store, mutex, held, api, bounds, history>>

\* device_unenroll forgets the token; the session stays.
Unenroll ==
  /\ keychain # None /\ keychain' = None
  /\ UNCHANGED <<store, mutex, held, granted, api, bounds, history>>

\* A session's 30 days are over.
SessionExpires(t) ==
  /\ t \in sessions /\ sessions' = sessions \ {t}
  /\ UNCHANGED <<store, mutex, device, issued, rows, answer, late, bounds, history>>

-----------------------------------------------------------------------------
(* Faults. *)

Uploading == lock \in {"pushing", "acking", "deferring"}

\* A statement fails: the operation returns the error, the rest is not done.
StoreError ==
  /\ lock \in {"enqueue", "mark", "purge", "acking", "deferring"}
  /\ faults < MaxFaults /\ faults' = faults + 1
  /\ Release
  /\ held' = IF Uploading THEN [held EXCEPT ![who] = None] ELSE held
  /\ UNCHANGED <<store, keychain, granted, api, inserts, history>>

\* The desktop dies and starts again.
Crash ==
  /\ faults < MaxFaults /\ faults' = faults + 1
  /\ Release
  /\ held' = [s \in Syncers |-> None] /\ granted' = None
  /\ answer' = "none" /\ IF lock = "pushing" THEN Abandoned ELSE UNCHANGED late
  /\ UNCHANGED <<store, keychain, sessions, issued, rows, inserts, history>>

-----------------------------------------------------------------------------
Drains(s) == \E batch \in SUBSET Events : Drain(s, batch)

Deletes == \/ \E e \in Events : DeleteEvent(e)
           \/ \E a \in Apps, traces \in BOOLEAN : DeleteAppHistory(a, traces)
           \/ DeleteAllEvents

\* What the holder of the mutex does without anyone else.
Works == Enqueue \/ Tombstone \/ Purge \/ \E e \in Events : Ack(e) \/ Defer(e)

Network == ApiAnswers \/ PushSucceeds \/ PushFails \/ \E r \in late : LateIngest(r)

Enrolment == Enrolled \/ Unenroll \/ \E t \in Tokens : Enroll(t) \/ SessionExpires(t)

Next == \/ \E e \in Events : Insert(e) \/ BackoffElapses(e)
        \/ Deletes \/ Works \/ Network \/ Enrolment
        \/ \E s \in Syncers : WantSync(s) \/ Drains(s)
        \/ StoreError \/ Crash

\* The process keeps running its tasks, the sync loop included, and tokio's mutex
\* is handed out in the order in which it was asked for.
DeviceFairness ==
  /\ WF_vars(Works) /\ WF_vars(WantSync("loop")) /\ SF_vars(Drains("loop"))
  /\ \A e \in Events : WF_vars(BackoffElapses(e))

\* The network: an upload gets an answer or an error, and a batch the API's contract
\* accepts, tried over and over, is answered, and the answer received, at some time.
NetworkFairness ==
  /\ WF_vars(Network) /\ SF_vars(PushSucceeds)
  /\ \A batch \in (SUBSET (Events \ Invalid)) \ {{}} : SF_vars(target = batch /\ ApiAnswers)

Spec == Init /\ [][Next]_vars /\ DeviceFairness /\ NetworkFairness

-----------------------------------------------------------------------------
(* Properties. *)

\* Every variable keeps its type.
TypeOK ==
  /\ table \subseteq Events /\ outbox \subseteq Events /\ tombs \subseteq Events
  /\ due \subseteq outbox
  /\ lock \in Locks /\ kind \in {"event", "app", "all", "none"}
  /\ target \subseteq Events /\ who \in Syncers \cup {None}
  /\ keychain \in Tokens \cup {None} /\ granted \in Tokens \cup {None}
  /\ held \in [Syncers -> Tokens \cup {None}]
  /\ sessions \subseteq issued /\ issued \subseteq Tokens
  /\ rows \in [Events -> Nat] /\ answer \in {"none", "accepted", "refused"}
  /\ late \subseteq Tokens \X SUBSET Events
  /\ inserts \in Nat /\ faults \in Nat
  /\ queued \subseteq Events /\ doomed \subseteq Events /\ erased \subseteq Events

\* At-least-once: a projection that was enqueued and that no deletion purged is
\* still queued or stored by the API, whatever answers are lost, refused or late
\* and wherever a crash cuts the acknowledgement.
NothingLost == \A e \in queued : e \in outbox \/ rows[e] > 0

\* A deletion that was answered is final for the queue: its events are neither
\* queued nor in an upload under way, although an upload holds copies of them
\* across its HTTP call.
ErasedNeverLeave ==
  erased \cap (outbox \cup IF Uploading THEN target ELSE {}) = {}

\* While the device is enrolled for good, and once no projection the API's contract refuses is queued any more,
\* every queued projection leaves the queue: what a refused projection kept waiting too, when the user deletes
\* its event, and what was queued again, across answers lost or late and uploads cut off anywhere.
QueuedEventsArrive ==
  <>[](keychain # None /\ keychain \in sessions) /\ <>[](outbox \cap Invalid = {}) =>
    \A e \in Events \ Invalid : (e \in outbox) ~> (e \notin outbox)

-----------------------------------------------------------------------------
(* What comments and documents say; the code does not keep these. *)

\* store.rs, delete_event: the queued projection is removed with the event.  Once
\* the mutex is free again, no deleted event is queued.
DeletedEventsLeaveTheQueue == lock = "free" => doomed \cap outbox = {}
=============================================================================
