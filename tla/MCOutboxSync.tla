---------------------------- MODULE MCOutboxSync ----------------------------
(* Two events of two applications, the second one's refused by the API.  The bounds are spent in one of two     *)
(* ways, by where a behaviour starts: three inserts and a fault with one token left to issue, or two inserts     *)
(* and no fault with two tokens, so that the device may enrol again.                                             *)
EXTENDS OutboxSync, TLC

CONSTANTS e1, e2, crm, mail, t1

MCAppOf == [e \in Events |-> IF e = e1 THEN crm ELSE mail]

OneToken == inserts = 0 /\ faults = 0 /\ issued = Tokens \ {t1}
NoFaults == inserts = 1 /\ faults = MaxFaults /\ issued = {}

MCInit ==
  /\ table = {} /\ outbox = {} /\ due = {} /\ tombs = {}
  /\ lock = "free" /\ kind = "none" /\ target = {} /\ who = None
  /\ keychain = None /\ held = [s \in Syncers |-> None] /\ granted = None
  /\ sessions = {} /\ rows = [e \in Events |-> 0] /\ answer = "none" /\ late = {}
  /\ queued = {} /\ doomed = {} /\ erased = {}
  /\ inserts \in 0..1 /\ faults \in {0, MaxFaults} /\ issued \in {{}, Tokens \ {t1}}
  /\ OneToken \/ NoFaults

MCSpec == MCInit /\ [][Next]_vars /\ DeviceFairness /\ NetworkFairness
=============================================================================
