---------------------------- MODULE ServicesProofs ----------------------------
(***************************************************************************)
(* For every set of events, calls, rotations, agents and cards and every   *)
(* bound: the audit chain, the connector vault, the device's sessions, the *)
(* server run panel, the agents file, and what the observer's status and   *)
(* the pet and the bar show. Last, and longest, the pattern engine: what   *)
(* is learned is a function of what is stored, so that part is mostly      *)
(* about functions.                                                        *)
(***************************************************************************)
EXTENDS MCServices, PatternEngine, SequenceLemmas, FiniteSetTheorems

-----------------------------------------------------------------------------
(* The audit chain. *)

AuditTypeOK ==
  /\ appending \in [AuditEvents -> {"idle", "stamped", "creating", "locked", "committed", "aborted"}]
  /\ linkTo \in [AuditEvents -> AuditEvents \cup {None}]
  /\ stamps \in [AuditEvents -> Nat \cup {None}] /\ ticks \in Nat
  /\ auditRows \subseteq [event : AuditEvents, at : Nat \cup {None}, previous : AuditEvents \cup {None}]
  /\ auditHead \in AuditEvents \cup {None} /\ headLock \in AuditEvents \cup {None}

\* Whoever is past the lock holds it, and goes by the head as it is now.
LockInv ==
  \A e \in AuditEvents :
    /\ appending[e] = "locked" => headLock = e /\ linkTo[e] = auditHead
    /\ appending[e] \in {"idle", "stamped", "creating"} => linkTo[e] = None

\* The rows are those of the committed events, one each; the head is the row that none
\* follows, every other row is followed.
RowsInv ==
  /\ \A a \in auditRows : appending[a.event] = "committed"
  /\ \A a, b \in auditRows : a.event = b.event => a = b
  /\ auditHead = None => auditRows = {}
  /\ auditHead # None => \E a \in auditRows : a.event = auditHead
  /\ \A a \in auditRows : a.previous # auditHead
  /\ \A a \in auditRows : a.event # auditHead => \E b \in auditRows : b.previous = a.event
  /\ \A a \in auditRows : a.previous # None => \E b \in auditRows : b.event = a.previous
  /\ \A a, b \in auditRows : a.previous = b.previous => a = b

AuditInv == AuditTypeOK /\ LockInv /\ RowsInv

\* Committing links the row to the head, which no row followed.
LEMMA CommitKeepsRows ==
  ASSUME AuditInv, NEW e \in AuditEvents, CommitEvent(e)
  PROVE  RowsInv'
<1> DEFINE row == [event |-> e, at |-> stamps[e], previous |-> linkTo[e]]
<1>1. /\ appending[e] = "locked" /\ auditRows' = auditRows \cup {row} /\ auditHead' = e
      /\ appending' = [appending EXCEPT ![e] = "committed"]
      /\ row.event = e /\ row.previous = auditHead
  BY DEF AuditInv, LockInv, CommitEvent
<1>2. \A a \in auditRows : a.event # e /\ a.previous # e
  BY <1>1, AuditAssumption DEF AuditInv, RowsInv
<1>3. auditHead # e
  BY <1>1, AuditAssumption DEF AuditInv, RowsInv
<1> HIDE DEF row
<1>4. \A a \in auditRows' : appending'[a.event] = "committed"
  BY <1>1, <1>2 DEF AuditInv, RowsInv, AuditTypeOK
<1>5. \A a, b \in auditRows' : a.event = b.event => a = b
  BY <1>1, <1>2 DEF AuditInv, RowsInv
<1>6. \A a \in auditRows' : a.previous # auditHead'
  BY <1>1, <1>2, <1>3
<1>7. \A a \in auditRows' : a.event # auditHead' => \E b \in auditRows' : b.previous = a.event
  BY <1>1 DEF AuditInv, RowsInv
<1>8. \A a \in auditRows' : a.previous # None => \E b \in auditRows' : b.event = a.previous
  BY <1>1 DEF AuditInv, RowsInv
<1>9. \A a, b \in auditRows' : a.previous = b.previous => a = b
  BY <1>1 DEF AuditInv, RowsInv
<1> QED
  BY <1>1, <1>4, <1>5, <1>6, <1>7, <1>8, <1>9, AuditAssumption DEF RowsInv

\* Every step of every transaction keeps it.
LEMMA AuditInductive ==
  ASSUME AuditInv, [AuditNext]_auditVars
  PROVE  AuditInv'
<1> USE AuditAssumption DEF AuditInv, AuditTypeOK, LockInv
<1>1. ASSUME NEW e \in AuditEvents, StampEvent(e) PROVE AuditInv'
  BY <1>1 DEF StampEvent, RowsInv
<1>2. ASSUME NEW e \in AuditEvents, LockHead(e) PROVE AuditInv'
  BY <1>2 DEF LockHead, HeadIsFree, RowsInv
<1>3. ASSUME NEW e \in AuditEvents, FindNoHead(e) PROVE AuditInv'
  BY <1>3 DEF FindNoHead, RowsInv
<1>4. ASSUME NEW e \in AuditEvents, CreateHead(e) PROVE AuditInv'
  BY <1>4 DEF CreateHead, RowsInv
<1>5. ASSUME NEW e \in AuditEvents, CommitEvent(e) PROVE AuditInv'
  <2>1. AuditTypeOK' /\ LockInv'
    BY <1>5 DEF CommitEvent
  <2> QED
    BY <1>5, <2>1, CommitKeepsRows
<1>6. ASSUME NEW e \in AuditEvents, AbortEvent(e) PROVE AuditInv'
  BY <1>6 DEF AbortEvent, RowsInv
<1>7. CASE UNCHANGED auditVars
  BY <1>7 DEF auditVars, RowsInv
<1> QED
  BY <1>1, <1>2, <1>3, <1>4, <1>5, <1>6, <1>7 DEF AuditNext

\* Whatever transactions race, stop or find no head to lock, the committed events form one
\* chain that starts once, never forks and ends at the head (audit.ts, appendAuditEventTx).
THEOREM ChainIsOne == AuditSpec => []AuditIsOneChain
<1>1. AuditInit => AuditInv
  BY AuditAssumption DEF AuditInit, AuditInv, AuditTypeOK, LockInv, RowsInv
<1>2. AuditInv => AuditIsOneChain
  <2> SUFFICES ASSUME AuditInv PROVE AuditIsOneChain
    OBVIOUS
  <2>1. ASSUME auditRows # {}
        PROVE  {a.event : a \in auditRows} \ {a.previous : a \in auditRows} = {auditHead}
    BY <2>1, AuditAssumption DEF AuditInv, AuditTypeOK, RowsInv
  <2> QED
    BY <2>1 DEF AuditInv, RowsInv, AuditIsOneChain
<1> QED
  BY <1>1, <1>2, AuditInductive, PTL DEF AuditSpec

-----------------------------------------------------------------------------
(* The connector vault. *)

Account == [token : Nat, status : {"connected", "revoked"}]

VaultTypeOK ==
  /\ vault \in Seq(Account) /\ granted \in Nat
  /\ calls \in [VaultCalls -> [kind : {None, "read", "write"}, token : Nat \cup {None}, tries : Nat,
       step : {"idle", "load", "send", "refresh", "exchange", "store", "demo", "refused", "done"}]]
  /\ \A c \in VaultCalls : calls[c].step = "store" => calls[c].token \in Nat

\* After a disconnect that met no refresh, none can begin: it would have to load a token first,
\* and every row is revoked.
UnpluggedInv ==
  unplugged /\ ~crossedOff =>
    /\ \A i \in DOMAIN vault : vault[i].status = "revoked"
    /\ \A c \in VaultCalls : calls[c].step \notin {"exchange", "store"}

NoDemoWrites == \A c \in VaultCalls : calls[c].kind = "write" => calls[c].step # "demo"

VaultInv == VaultTypeOK /\ UnpluggedInv /\ NoDemoWrites

\* Where every row is revoked, nothing is loaded.
LEMMA NothingToLoad ==
  ASSUME VaultTypeOK, \A i \in DOMAIN vault : vault[i].status = "revoked"
  PROVE  LoadStored = None
BY DEF VaultTypeOK, LoadStored, NewestRow

\* What is loaded is a token or nothing.
LEMMA LoadedType ==
  ASSUME VaultTypeOK
  PROVE  LoadStored \in Nat \cup {None}
<1>1. CASE vault = <<>>
  BY <1>1 DEF LoadStored
<1>2. CASE vault # <<>>
  <2>1. Len(vault) \in DOMAIN vault
    BY <1>2, EmptySeq, LenProperties DEF VaultTypeOK
  <2>2. vault[Len(vault)] \in Account
    BY <2>1, Elements DEF VaultTypeOK
  <2> QED
    BY <1>2, <2>2 DEF LoadStored, NewestRow, Account
<1> QED
  BY <1>1, <1>2

\* Connects, disconnects, calls and refreshes keep the vault's invariant.
LEMMA VaultInductive ==
  ASSUME VaultInv, [VaultNext]_vaultVars
  PROVE  VaultInv'
<1> USE DEF VaultInv, VaultTypeOK, UnpluggedInv, NoDemoWrites
<1>1. ASSUME NEW n \in Nonces, AuthorizeConnector(n) \/ CallbackRefused(n) PROVE VaultInv'
  BY <1>1 DEF AuthorizeConnector, CallbackRefused
<1>2. ASSUME NEW n \in Nonces, CallbackConnects(n) PROVE VaultInv'
  BY <1>2 DEF CallbackConnects, Exchanged, Upserted, Account
<1>3. CASE Disconnect
  <2>1. \A i \in DOMAIN vault : vault[i] \in Account
    BY Elements
  <2>2. \A i \in DOMAIN vault : [vault[i] EXCEPT !.status = "revoked"] \in Account
    BY <2>1 DEF Account
  <2>3. vault' \in [DOMAIN vault -> Account] /\ \A i \in DOMAIN vault : vault'[i].status = "revoked"
    BY <1>3, <2>1, <2>2 DEF Disconnect, Account
  <2>4. vault' \in Seq(Account) /\ DOMAIN vault' = DOMAIN vault
    BY <2>3, SameLength
  <2> QED
    BY <1>3, <2>3, <2>4 DEF Disconnect, Refreshing
<1>4. CASE DependentsResume \/ TokenExpires
  BY <1>4 DEF DependentsResume, TokenExpires
<1>5. ASSUME NEW c \in VaultCalls, NEW kind \in {"read", "write"}, CallBegins(c, kind) PROVE VaultInv'
  BY <1>5 DEF CallBegins
<1>6. ASSUME NEW c \in VaultCalls, CallLoads(c) PROVE VaultInv'
  <2>1. PICK token \in Nat \cup {None}, step \in {"refused", "send"} :
          calls' = [calls EXCEPT ![c].token = token, ![c].step = step]
    <3>1. (IF LoadStored = None THEN "refused" ELSE "send") \in {"refused", "send"}
      OBVIOUS
    <3> QED
      BY <1>6, <3>1, LoadedType DEF CallLoads
  <2>2. UNCHANGED <<vault, granted, accepted, nonces, dependents, unplugged, crossedOff>>
    BY <1>6 DEF CallLoads
  <2>3. /\ calls'[c].step = step /\ calls'[c].kind = calls[c].kind
        /\ \A other \in VaultCalls : other # c => calls'[other] = calls[other]
    BY <2>1
  <2>4. VaultTypeOK'
    <3> DEFINE next == [calls[c] EXCEPT !.token = token, !.step = step]
               Fields == [kind : {None, "read", "write"}, token : Nat \cup {None}, tries : Nat,
                          step : {"idle", "load", "send", "refresh", "exchange", "store", "demo", "refused", "done"}]
    <3>1. calls \in [VaultCalls -> Fields] /\ calls' = [calls EXCEPT ![c] = next]
      BY <2>1
    <3>2. next \in Fields
      BY ONLY <3>1
    <3>3. \A other \in VaultCalls : calls'[other].step = "store" => calls'[other].token \in Nat
      BY <2>3
    <3>4. calls' \in [VaultCalls -> Fields]
      <4> HIDE DEF next, Fields
      <4> QED
        BY ONLY <3>1, <3>2
    <3> QED
      BY <2>2, <3>3, <3>4
  <2>5. UnpluggedInv' /\ NoDemoWrites'
    BY <2>2, <2>3
  <2> QED
    BY <2>4, <2>5
<1>7. ASSUME NEW c \in VaultCalls, CallSends(c) PROVE VaultInv'
  BY <1>7 DEF CallSends
<1>8. ASSUME NEW c \in VaultCalls, RefreshLoads(c) PROVE VaultInv'
  BY <1>8, LoadedType, NothingToLoad DEF RefreshLoads
<1>9. ASSUME NEW c \in VaultCalls, RefreshRefused(c) PROVE VaultInv'
  BY <1>9 DEF RefreshRefused, Moved
<1>10. ASSUME NEW c \in VaultCalls, RefreshExchanged(c) PROVE VaultInv'
  BY <1>10 DEF RefreshExchanged, Exchanged
<1>11. ASSUME NEW c \in VaultCalls, StoreTokens(c) PROVE VaultInv'
  <2>1. calls[c].token \in Nat /\ calls[c].step = "store"
    BY <1>11 DEF StoreTokens
  <2>2. vault' \in [DOMAIN vault -> Account]
    BY <1>11, <2>1 DEF StoreTokens, Account
  <2>3. vault' \in Seq(Account)
    BY <2>2, SameLength
  <2> QED
    BY <1>11, <2>1, <2>3 DEF StoreTokens, Moved
<1>12. CASE UNCHANGED vaultVars
  BY <1>12 DEF vaultVars
<1> QED
  BY <1>1, <1>2, <1>3, <1>4, <1>5, <1>6, <1>7, <1>8, <1>9, <1>10, <1>11, <1>12 DEF VaultNext

\* A disconnect holds until the next connect, whatever calls were under way, unless one was in the
\* middle of a refresh; and the demo world serves no write (repositories.ts, vault-credentials.ts).
THEOREM DisconnectStays == VaultSpec => []DisconnectHolds
<1>1. VaultInit => VaultInv
  BY DEF VaultInit, VaultInv, VaultTypeOK, UnpluggedInv, NoDemoWrites
<1>2. VaultInv => DisconnectHolds
  BY DEF VaultInv, UnpluggedInv, NoDemoWrites, DisconnectHolds
<1> QED
  BY <1>1, <1>2, VaultInductive, PTL DEF VaultSpec

-----------------------------------------------------------------------------
(* The device's sessions. *)

Creating(r) == rotating[r].step = "create"

Rotation == [step : {"idle", "revoke", "create", "done"}, token : Nat \cup {None}, family : Nat \cup {None}]
Session == [family : Nat, live : BOOLEAN]

DeviceTypeOK ==
  /\ sessions \in Seq(Session) /\ signed \in Nat
  /\ keychain \in DOMAIN sessions \cup {None} /\ cutOff \in BOOLEAN
  /\ rotating \in [Rotations -> Rotation]
  /\ \A r \in Rotations :
       /\ rotating[r].step # "idle" => rotating[r].token \in DOMAIN sessions
       /\ Creating(r) => rotating[r].family \in Nat

\* A family has one live session, or one rotation that will make the next, or neither.
FamilyInv ==
  /\ \A s \in DOMAIN sessions : sessions[s].family <= signed
  /\ \A r \in Rotations : Creating(r) => rotating[r].family <= signed
  /\ \A s, t \in DOMAIN sessions :
       sessions[s].live /\ sessions[t].live /\ sessions[s].family = sessions[t].family => s = t
  /\ \A r \in Rotations, s \in DOMAIN sessions :
       Creating(r) /\ sessions[s].live => sessions[s].family # rotating[r].family
  /\ \A r, q \in Rotations : Creating(r) /\ Creating(q) /\ rotating[r].family = rotating[q].family => r = q

\* The device's token works, or a rotation that came with it is about to answer.
KeychainInv ==
  keychain # None /\ ~cutOff =>
    sessions[keychain].live \/ \E r \in Rotations : Creating(r) /\ rotating[r].token = keychain

DeviceInv == DeviceTypeOK /\ FamilyInv /\ KeychainInv

\* Rotations, cut off or not, and logins keep the sessions' invariant.
LEMMA DeviceInductive ==
  ASSUME DeviceInv, [DeviceNext]_deviceVars
  PROVE  DeviceInv'
<1> USE DEF DeviceInv, DeviceTypeOK, FamilyInv, KeychainInv, Creating
<1>1. ASSUME NEW r \in Rotations, NEW token \in DOMAIN sessions, RotateArrives(r, token) PROVE DeviceInv'
  BY <1>1 DEF RotateArrives, Authenticates, Rotation
<1>2. ASSUME NEW r \in Rotations, RotateRevokes(r) PROVE DeviceInv'
  <2> DEFINE t == rotating[r].token
  <2>1. /\ t \in DOMAIN sessions /\ sessions[t].live
        /\ sessions' = [sessions EXCEPT ![t].live = FALSE]
        /\ rotating' = [rotating EXCEPT ![r].step = "create", ![r].family = sessions[t].family]
        /\ rotating'[r].step = "create" /\ rotating'[r].family = sessions[t].family /\ rotating'[r].token = t
        /\ UNCHANGED <<signed, keychain, cutOff>>
    BY <1>2 DEF RotateRevokes, Revokes
  <2>2. /\ DOMAIN sessions' = DOMAIN sessions /\ sessions' \in Seq(Session)
        /\ sessions'[t].family = sessions[t].family /\ ~sessions'[t].live
        /\ \A s \in DOMAIN sessions : s # t => sessions'[s] = sessions[s]
        /\ sessions[t].family \in Nat
    <3> DEFINE ended == [sessions[t] EXCEPT !.live = FALSE]
    <3>1. sessions[t] \in Session /\ sessions' = [sessions EXCEPT ![t] = ended]
      BY <2>1, Elements
    <3>2. ended \in Session /\ ended.family = sessions[t].family /\ ~ended.live /\ sessions[t].family \in Nat
      BY <3>1 DEF Session
    <3> HIDE DEF ended
    <3>3. sessions' \in Seq(Session) /\ DOMAIN sessions' = DOMAIN sessions
      BY <2>1, <3>1, <3>2, ExceptSeq, LenProperties
    <3> QED
      BY <2>1, <3>1, <3>2, <3>3
  <2>3. rotating' \in [Rotations -> Rotation] /\ \A q \in Rotations : q # r => rotating'[q] = rotating[q]
    <3> DEFINE next == [rotating[r] EXCEPT !.step = "create", !.family = sessions[t].family]
    <3>1. rotating \in [Rotations -> Rotation] /\ rotating' = [rotating EXCEPT ![r] = next]
      BY <2>1
    <3>2. next \in Rotation
      <4>1. rotating[r] \in Rotation /\ sessions[t].family \in Nat
        BY <2>2
      <4> QED
        BY ONLY <4>1 DEF Rotation
    <3> HIDE DEF next
    <3> QED
      BY ONLY <3>1, <3>2
  <2> HIDE DEF t
  <2>4. DeviceTypeOK'
    BY <2>1, <2>2, <2>3
  <2>5. FamilyInv'
    BY <2>1, <2>2, <2>3
  <2>6. KeychainInv'
    BY <2>1, <2>2, <2>3
  <2> QED
    BY <2>4, <2>5, <2>6
<1>3. ASSUME NEW r \in Rotations, RotateConflicts(r) \/ RotateCut(r) PROVE DeviceInv'
  <2>1. /\ UNCHANGED <<sessions, signed, keychain>> /\ cutOff' \in BOOLEAN
        /\ rotating' = [rotating EXCEPT ![r].step = "done"] /\ rotating[r].step # "idle"
        /\ (cutOff' = cutOff /\ ~Creating(r)) \/ cutOff'
    BY <1>3 DEF RotateConflicts, RotateCut
  <2>2. /\ \A q \in Rotations : q # r => rotating'[q] = rotating[q]
        /\ rotating'[r].step = "done" /\ rotating'[r].token = rotating[r].token
        /\ rotating' \in [Rotations -> Rotation]
    BY <2>1 DEF Rotation
  <2>4. DeviceTypeOK'
    BY <2>1, <2>2
  <2>5. FamilyInv'
    BY <2>1, <2>2
  <2>6. KeychainInv'
    BY <2>1, <2>2
  <2> QED
    BY <2>4, <2>5, <2>6
<1>4. ASSUME NEW r \in Rotations, NEW reaches \in BOOLEAN, RotateCreates(r, reaches) PROVE DeviceInv'
  <2> DEFINE new == [family |-> rotating[r].family, live |-> TRUE]
  <2>1. /\ rotating[r].step = "create" /\ new \in Session
        /\ sessions' = Append(sessions, new)
        /\ rotating' = [rotating EXCEPT ![r].step = "done"]
        /\ keychain' = (IF reaches /\ keychain = rotating[r].token THEN Len(sessions) + 1 ELSE keychain)
        /\ cutOff' = (cutOff \/ ~reaches) /\ signed' = signed
    BY <1>4 DEF RotateCreates, NewSession, Session
  <2>2. /\ sessions' \in Seq(Session) /\ Len(sessions) + 1 \notin DOMAIN sessions
        /\ DOMAIN sessions' = DOMAIN sessions \cup {Len(sessions) + 1}
        /\ \A s \in DOMAIN sessions : sessions'[s] = sessions[s]
        /\ sessions'[Len(sessions) + 1].family = rotating[r].family /\ sessions'[Len(sessions) + 1].live
    BY <2>1, Appended
  <2>3. /\ \A q \in Rotations : q # r => rotating'[q] = rotating[q]
        /\ rotating'[r].step = "done" /\ rotating'[r].token = rotating[r].token
        /\ rotating' \in [Rotations -> Rotation]
    BY <2>1 DEF Rotation
  <2> HIDE DEF new
  <2>4. DeviceTypeOK'
    BY <2>1, <2>2, <2>3
  <2>5. FamilyInv'
    BY <2>1, <2>2, <2>3
  <2>6. KeychainInv'
    <3> SUFFICES ASSUME keychain' # None, ~cutOff'
                 PROVE  sessions'[keychain'].live \/ \E q \in Rotations : Creating(q)' /\ rotating'[q].token = keychain'
      OBVIOUS
    <3>1. reaches /\ ~cutOff
      BY <2>1
    <3>2. CASE keychain = rotating[r].token
      BY <2>1, <2>2, <3>1, <3>2
    <3>3. CASE keychain # rotating[r].token
      <4>1. keychain' = keychain
        BY <2>1, <3>3
      <4>2. CASE sessions[keychain].live
        BY <2>2, <4>1, <4>2
      <4>3. ASSUME NEW q \in Rotations, Creating(q), rotating[q].token = keychain
            PROVE  Creating(q)' /\ rotating'[q].token = keychain'
        <5>1. q # r
          BY <3>3, <4>3
        <5> QED
          BY <2>3, <4>1, <4>3, <5>1
      <4> QED
        BY <3>1, <4>1, <4>2, <4>3
    <3> QED
      BY <3>2, <3>3
  <2> QED
    BY <2>4, <2>5, <2>6
<1>5. ASSUME NEW command \in {"enroll", "sync"}, Ask(command) PROVE DeviceInv'
  BY <1>5 DEF Ask
<1>6. CASE EnrollSucceeds
  <2> DEFINE new == [family |-> signed + 1, live |-> TRUE]
  <2>1. /\ new \in Session /\ sessions' = Append(sessions, new)
        /\ signed' = signed + 1 /\ keychain' = Len(sessions) + 1 /\ cutOff' = FALSE /\ rotating' = rotating
    BY <1>6 DEF EnrollSucceeds, NewSession, Session
  <2>2. /\ sessions' \in Seq(Session) /\ Len(sessions) + 1 \notin DOMAIN sessions
        /\ DOMAIN sessions' = DOMAIN sessions \cup {Len(sessions) + 1}
        /\ \A s \in DOMAIN sessions : sessions'[s] = sessions[s]
        /\ sessions'[Len(sessions) + 1].family = signed + 1 /\ sessions'[Len(sessions) + 1].live
    BY <2>1, Appended
  <2> HIDE DEF new
  <2>3. /\ \A s \in DOMAIN sessions : sessions[s].family \in Nat /\ sessions[s].family # signed + 1
        /\ \A r \in Rotations : Creating(r) => rotating[r].family # signed + 1 /\ rotating[r].family <= signed'
    <3>1. \A s \in DOMAIN sessions : sessions[s].family \in Nat
      <4>1. \A s \in DOMAIN sessions : sessions[s] \in Session
        BY Elements
      <4> QED
        BY <4>1 DEF Session
    <3>2. ASSUME NEW s \in DOMAIN sessions PROVE sessions[s].family # signed + 1
      BY <3>1
    <3>3. ASSUME NEW r \in Rotations, Creating(r)
          PROVE  rotating[r].family # signed + 1 /\ rotating[r].family <= signed'
      BY <3>3, <2>1
    <3> QED
      BY <3>1, <3>2, <3>3
  <2>4. DeviceTypeOK'
    <3>1. signed' \in Nat
      BY <2>1
    <3>2. keychain' \in DOMAIN sessions'
      BY <2>1, <2>2
    <3>3. cutOff' \in BOOLEAN
      BY <2>1
    <3>4. \A r \in Rotations : rotating'[r].step # "idle" => rotating'[r].token \in DOMAIN sessions'
      BY <2>1, <2>2
    <3> QED
      BY <2>1, <2>2, <3>1, <3>2, <3>3, <3>4
  <2>5. FamilyInv'
    <3>1. \A s \in DOMAIN sessions' : sessions'[s].family <= signed'
      <4>1. ASSUME NEW s \in DOMAIN sessions PROVE sessions'[s].family <= signed'
        BY <2>1, <2>2, <2>3
      <4> QED
        BY <2>1, <2>2, <4>1
    <3>2. ASSUME NEW s \in DOMAIN sessions', NEW u \in DOMAIN sessions', sessions'[s].live, sessions'[u].live,
                 sessions'[s].family = sessions'[u].family
          PROVE  s = u
      <4>1. CASE s \in DOMAIN sessions /\ u \in DOMAIN sessions
        BY <3>2, <4>1, <2>2
      <4>2. CASE s \notin DOMAIN sessions \/ u \notin DOMAIN sessions
        BY <3>2, <4>2, <2>2, <2>3
      <4> QED
        BY <4>1, <4>2
    <3>3. ASSUME NEW r \in Rotations, NEW s \in DOMAIN sessions', Creating(r), sessions'[s].live
          PROVE  sessions'[s].family # rotating[r].family
      <4>1. CASE s \in DOMAIN sessions
        BY <3>3, <4>1, <2>2
      <4>2. CASE s \notin DOMAIN sessions
        BY <3>3, <4>2, <2>2, <2>3
      <4> QED
        BY <4>1, <4>2
    <3> QED
      BY <2>1, <2>3, <3>1, <3>2, <3>3
  <2>6. KeychainInv'
    BY <2>1, <2>2
  <2> QED
    BY <2>4, <2>5, <2>6
<1>7. CASE EnrollFails \/ SyncSettles \/ Unenroll \/ RefreshEnrollment
  BY <1>7 DEF EnrollFails, SyncSettles, Unenroll, RefreshEnrollment
<1>8. CASE UNCHANGED deviceVars
  BY <1>8 DEF deviceVars
<1> QED
  BY <1>1, <1>2, <1>3, <1>4, <1>5, <1>6, <1>7, <1>8 DEF DeviceNext

\* However rotations race, a family keeps one live session, and the device's own token works unless a
\* rotation is under way or was cut off (server.ts, /v1/devices/rotate).
THEOREM RotationHolds == DeviceSpec => []RotationIsSafe
<1>1. DeviceInit => DeviceInv
  <2> SUFFICES ASSUME DeviceInit PROVE DeviceInv
    OBVIOUS
  <2>1. /\ sessions = <<>> /\ DOMAIN sessions = {} /\ signed = 0 /\ keychain = None /\ cutOff = FALSE
        /\ \A r \in Rotations : rotating[r].step = "idle"
    BY DEF DeviceInit
  <2>2. sessions \in Seq(Session)
    BY <2>1
  <2>3. rotating \in [Rotations -> Rotation]
    BY DEF DeviceInit, Rotation
  <2>4. DeviceTypeOK
    BY <2>1, <2>2, <2>3 DEF DeviceTypeOK, Creating
  <2> QED
    BY <2>1, <2>4 DEF DeviceInv, FamilyInv, KeychainInv, Creating
<1>2. DeviceInv => RotationIsSafe
  BY DEF DeviceInv, FamilyInv, KeychainInv, Creating, RotationIsSafe, Authenticates
<1> QED
  BY <1>1, <1>2, DeviceInductive, PTL DEF DeviceSpec

\* The credentials of an organisation and of a device, side by side.
THEOREM CredentialsSound == VaultSpec /\ DeviceSpec => []CredentialsAreSound
BY DisconnectStays, RotationHolds, PTL DEF CredentialsAreSound

-----------------------------------------------------------------------------
(* The agents file and the store. *)

Draft == [state : {"draft", "shadow", "archived"}, runs : Nat, auto : BOOLEAN]

\* The lists whose meters and grants were earned, going by the approvals so far.
EarnedLists(appr) ==
  {l \in [Agents -> Draft \cup {None}] :
     \A a \in Agents : l[a] # None => l[a].runs <= appr[a] /\ (l[a].auto => appr[a] >= Threshold)}
EarnedSaves(appr) ==
  [json : EarnedLists(appr), list : EarnedLists(appr), target : Agents, next : {None, "saved", "final"},
   written : BOOLEAN]

StoreInv ==
  /\ approvals \in [Agents -> Nat]
  /\ file \in EarnedLists(approvals) /\ agents \in EarnedLists(approvals)
  /\ saves \in Seq(EarnedSaves(approvals))
  /\ reading # None => reading.list \in EarnedLists(approvals)

\* A list stays earned when a record is replaced by an earned one.
LEMMA Replaced ==
  ASSUME NEW appr, NEW l \in EarnedLists(appr), NEW a \in Agents, NEW d \in Draft \cup {None},
         d # None => d.runs <= appr[a] /\ (d.auto => appr[a] >= Threshold)
  PROVE  [l EXCEPT ![a] = d] \in EarnedLists(appr)
BY DEF EarnedLists

\* What was earned stays earned when another run is approved.
LEMMA MoreApprovals ==
  ASSUME NEW appr \in [Agents -> Nat], NEW more \in [Agents -> Nat], \A a \in Agents : appr[a] <= more[a]
  PROVE  /\ EarnedLists(appr) \subseteq EarnedLists(more)
         /\ \A s \in Seq(EarnedSaves(appr)) : s \in Seq(EarnedSaves(more))
<1>1. ASSUME NEW l \in EarnedLists(appr) PROVE l \in EarnedLists(more)
  <2>1. l \in [Agents -> Draft \cup {None}]
    BY DEF EarnedLists
  <2>2. ASSUME NEW a \in Agents, l[a] # None
        PROVE  l[a].runs <= more[a] /\ (l[a].auto => more[a] >= Threshold)
    <3>1. l[a].runs <= appr[a] /\ (l[a].auto => appr[a] >= Threshold)
      BY <2>2 DEF EarnedLists
    <3>2. l[a].runs \in Nat /\ appr[a] \in Nat /\ more[a] \in Nat /\ Threshold \in Nat /\ appr[a] <= more[a]
      BY <2>1, <2>2, StoreAssumption DEF Draft
    <3> QED
      BY <3>1, <3>2
  <2> QED
    BY <2>1, <2>2 DEF EarnedLists
<1>2. EarnedSaves(appr) \subseteq EarnedSaves(more)
  BY <1>1 DEF EarnedSaves
<1> QED
  BY <1>1, <1>2, WiderSeq

\* persist: the list that is saved becomes one more save.
LEMMA PersistKeeps ==
  ASSUME StoreInv, NEW list \in EarnedLists(approvals), NEW a \in Agents, NEW next \in {None, "saved", "final"},
         Persist(list, a, next)
  PROVE  saves' \in Seq(EarnedSaves(approvals))
<1> DEFINE s == [json |-> list, list |-> list, target |-> a, next |-> next, written |-> FALSE]
<1>1. s \in EarnedSaves(approvals)
  BY DEF EarnedSaves
<1>2. saves' = saves \/ saves' = Append(saves, s)
  BY DEF Persist
<1> HIDE DEF s
<1> QED
  BY <1>1, <1>2, Appended DEF StoreInv

\* A mutation of a record in place is seen by the saves that share it.
LEMMA InPlaceKeeps ==
  ASSUME StoreInv, NEW a \in Agents, NEW d \in Draft, d.runs <= approvals[a],
         d.auto => approvals[a] >= Threshold,
         NEW next \in {None, "saved", "final"}, ChangeInPlace(a, d, next)
  PROVE  agents' \in EarnedLists(approvals) /\ saves' \in Seq(EarnedSaves(approvals))
<1>1. agents' \in EarnedLists(approvals)
  BY Replaced DEF StoreInv, ChangeInPlace
<1>2. CASE loadFailure
  BY <1>1, <1>2 DEF ChangeInPlace, StoreInv
<1>3. CASE ~loadFailure
  <2> DEFINE new == [json |-> agents', list |-> agents', target |-> a, next |-> next, written |-> FALSE]
             seen(n) == [saves[n] EXCEPT !.list[a] = d]
  <2>1. PICK shared \in SUBSET (1..Len(saves)) :
          saves' = Append([n \in 1..Len(saves) |-> IF n \in shared THEN seen(n) ELSE saves[n]], new)
    BY <1>3 DEF ChangeInPlace
  <2> DEFINE s == [n \in 1..Len(saves) |-> IF n \in shared THEN seen(n) ELSE saves[n]]
  <2>2. new \in EarnedSaves(approvals)
    BY <1>1 DEF EarnedSaves
  <2>3. \A n \in DOMAIN saves : saves[n] \in EarnedSaves(approvals)
    BY Elements DEF StoreInv
  <2>4. ASSUME NEW n \in DOMAIN saves PROVE seen(n) \in EarnedSaves(approvals)
    <3>1. saves[n] \in EarnedSaves(approvals) /\ saves[n].list \in EarnedLists(approvals)
      BY <2>3 DEF EarnedSaves
    <3> DEFINE l == [saves[n].list EXCEPT ![a] = d]
    <3>2. l \in EarnedLists(approvals)
      BY <3>1, Replaced
    <3>3. seen(n) = [saves[n] EXCEPT !.list = l]
      OBVIOUS
    <3> HIDE DEF l
    <3> QED
      BY <3>1, <3>2, <3>3 DEF EarnedSaves
  <2>5. DOMAIN saves = 1..Len(saves)
    BY LenProperties DEF StoreInv
  <2>6. s \in [DOMAIN saves -> EarnedSaves(approvals)]
    BY <2>3, <2>4, <2>5
  <2>7. s \in Seq(EarnedSaves(approvals))
    BY <2>6, SameLength DEF StoreInv
  <2> HIDE DEF s, new
  <2> QED
    BY <1>1, <2>1, <2>2, <2>7, Appended DEF s, new
<1> QED
  BY <1>2, <1>3

\* Loads, saves, edits in place and approved runs keep the store's invariant.
LEMMA StoreInductive ==
  ASSUME StoreInv, [StoreNext]_storeVars
  PROVE  StoreInv'
<1> DEFINE Earned == EarnedLists(approvals)
<1>1. /\ approvals \in [Agents -> Nat] /\ file \in Earned /\ agents \in Earned
      /\ saves \in Seq(EarnedSaves(approvals)) /\ (reading # None => reading.list \in Earned)
  BY DEF StoreInv
<1>2. \A n \in DOMAIN saves : saves[n] \in EarnedSaves(approvals) /\ saves[n].json \in Earned /\ saves[n].list \in Earned
  <2>1. \A n \in DOMAIN saves : saves[n] \in EarnedSaves(approvals)
    BY <1>1, Elements
  <2> QED
    BY <2>1 DEF EarnedSaves
<1>3. NoAgents \in Earned /\ <<>> \in Seq(EarnedSaves(approvals))
  BY <1>1 DEF EarnedLists, NoAgents
<1>4. \A a \in Agents : agents[a] # None =>
        /\ agents[a] \in Draft /\ agents[a].runs \in Nat /\ agents[a].runs <= approvals[a]
        /\ agents[a].auto => approvals[a] >= Threshold
  BY <1>1 DEF EarnedLists, Draft
<1>5. NewDraft \in Draft /\ NewDraft.runs = 0 /\ ~NewDraft.auto
  BY DEF NewDraft, Draft
<1>6. CASE OpenApp \/ GrantOrigin \/ UNCHANGED storeVars
  BY <1>6 DEF OpenApp, GrantOrigin, Rest, storeVars, StoreInv, saved, store
<1>7. CASE QuitApp
  BY <1>1, <1>3, <1>7 DEF QuitApp, StoreInv, saved
<1>8. CASE HydrateReads
  <2>1. UNCHANGED <<approvals, file, agents, saves>> /\ reading'.list \in {file, NoAgents}
    BY <1>8 DEF HydrateReads, saved
  <2> QED
    BY <1>1, <1>3, <2>1 DEF StoreInv
<1>9. CASE HydrateSets
  BY <1>1, <1>9 DEF HydrateSets, StoreInv, saved
<1>10. CASE SaveWrites
  <2>1. PICK n \in DOMAIN saves : /\ file' = saves[n].json /\ saves' = [saves EXCEPT ![n].written = TRUE]
                                  /\ UNCHANGED <<agents, reading, approvals>>
    BY <1>1, <1>10, LenProperties DEF SaveWrites
  <2> DEFINE w == [saves[n] EXCEPT !.written = TRUE]
  <2>2. w \in EarnedSaves(approvals) /\ saves' = [saves EXCEPT ![n] = w]
    BY <1>2, <2>1 DEF EarnedSaves
  <2> HIDE DEF w
  <2>3. saves' \in Seq(EarnedSaves(approvals))
    <3>1. n \in 1..Len(saves)
      BY <1>1, <2>1, LenProperties
    <3> QED
      BY <1>1, <2>2, <3>1, ExceptSeq
  <2> QED
    BY <1>1, <1>2, <2>1, <2>3 DEF StoreInv
<1>11. CASE SaveAnswered \/ SaveFails
  <2>1. /\ saves # <<>> /\ saves' = Tail(saves) /\ UNCHANGED <<file, reading, approvals>>
        /\ agents' \in {agents, Head(saves).list}
    BY <1>11 DEF SaveAnswered, SaveFails, saved
  <2>2. Head(saves) \in EarnedSaves(approvals) /\ Tail(saves) \in Seq(EarnedSaves(approvals))
    BY <1>1, <2>1, HeadTailProperties
  <2>3. Head(saves).list \in Earned
    BY <2>2 DEF EarnedSaves
  <2> QED
    BY <1>1, <2>1, <2>2, <2>3 DEF StoreInv
<1>12. ASSUME NEW a \in Agents, NEW d \in Draft \cup {None}, Change(a, d), UNCHANGED <<file, reading, approvals>>,
              d # None => d.runs <= approvals[a] /\ (d.auto => approvals[a] >= Threshold)
       PROVE  StoreInv'
  <2>1. [agents EXCEPT ![a] = d] \in Earned
    BY <1>1, <1>12, Replaced
  <2>2. saves' \in Seq(EarnedSaves(approvals)) /\ agents' = agents
    BY <1>12, <2>1, PersistKeeps DEF Change
  <2> QED
    BY <1>1, <1>12, <2>2 DEF StoreInv
<1>13. ASSUME NEW a \in Agents, ArchiveAgent(a) \/ RecordRuntimeActivity(a) \/ GrantDraftAutonomy(a) \/ Register(a)
       PROVE  StoreInv'
  <2>1. UNCHANGED <<file, reading, approvals>>
    BY <1>13 DEF ArchiveAgent, RecordRuntimeActivity, GrantDraftAutonomy, Register, Rest, saved
  <2>2. CASE ArchiveAgent(a)
    <3> DEFINE d == [agents[a] EXCEPT !.state = "archived"]
    <3>1. Change(a, d) /\ agents[a] # None
      BY <2>2 DEF ArchiveAgent, Visible
    <3>2. d \in Draft /\ d.runs = agents[a].runs /\ d.auto = agents[a].auto
      BY <1>4, <3>1 DEF Draft
    <3> QED
      BY <1>4, <1>12, <2>1, <3>1, <3>2
  <2>3. CASE RecordRuntimeActivity(a)
    <3>1. Change(a, agents[a]) /\ agents[a] \in Draft \cup {None}
      BY <1>4, <2>3 DEF RecordRuntimeActivity
    <3> QED
      BY <1>4, <1>12, <2>1, <3>1
  <2>4. CASE GrantDraftAutonomy(a)
    <3> DEFINE d == [agents[a] EXCEPT !.auto = TRUE]
    <3>1. Change(a, d) /\ agents[a] # None /\ agents[a].runs >= Threshold
      BY <2>4 DEF GrantDraftAutonomy, Visible, MeterFull
    <3>2. d \in Draft /\ d.runs = agents[a].runs
      BY <1>4, <3>1 DEF Draft
    <3>3. approvals[a] >= Threshold
      BY <1>1, <1>4, <3>1, StoreAssumption
    <3> QED
      BY <1>4, <1>12, <2>1, <3>1, <3>2, <3>3
  <2>5. CASE Register(a)
    <3> DEFINE d == IF agents[a] = None THEN None ELSE [agents[a] EXCEPT !.state = "draft"]
    <3>1. Change(a, agents[a]) \/ Change(a, d)
      BY <2>5 DEF Register
    <3>2. agents[a] # None => d \in Draft /\ d.runs = agents[a].runs /\ d.auto = agents[a].auto
      BY <1>4 DEF Draft
    <3>3. agents[a] = None => d = None
      OBVIOUS
    <3> QED
      BY <1>4, <1>12, <2>1, <3>1, <3>2, <3>3
  <2> QED
    BY <1>13, <2>2, <2>3, <2>4, <2>5
<1>14. ASSUME NEW a \in Agents, EditDescription(a) \/ Finalize(a) PROVE StoreInv'
  <2>1. UNCHANGED <<file, reading, approvals>>
    BY <1>14 DEF EditDescription, Finalize, Rest, saved
  <2>2. CASE UNCHANGED <<agents, saves>>
    BY <1>1, <2>1, <2>2 DEF StoreInv
  <2>3. CASE ~UNCHANGED <<agents, saves>>
    <3> DEFINE d == [agents[a] EXCEPT !.state = "shadow"]
    <3>1. /\ ChangeInPlace(a, d, None) \/ ChangeInPlace(a, d, "final")
          /\ agents[a] # None
      BY <1>14, <2>3 DEF EditDescription, Finalize, Visible
    <3>2. d \in Draft /\ d.runs = agents[a].runs /\ d.auto = agents[a].auto
      BY <1>4, <3>1 DEF Draft
    <3>3. agents' \in Earned /\ saves' \in Seq(EarnedSaves(approvals))
      BY <1>4, <3>1, <3>2, InPlaceKeeps
    <3> QED
      BY <1>1, <2>1, <3>3 DEF StoreInv
  <2> QED
    BY <2>2, <2>3
<1>15. ASSUME NEW a \in Agents, RecordApprovedRun(a) PROVE StoreInv'
  <2> DEFINE more == [approvals EXCEPT ![a] = @ + 1]
             d == [agents[a] EXCEPT !.runs = @ + 1]
  <2>1. /\ approvals' = more /\ agents' = agents /\ agents[a] # None /\ UNCHANGED <<file, reading>>
        /\ Persist([agents EXCEPT ![a] = d], a, None)
    BY <1>15 DEF RecordApprovedRun, Visible, Change, Rest, saved
  <2>2. more \in [Agents -> Nat] /\ more[a] = approvals[a] + 1 /\ \A b \in Agents : approvals[b] <= more[b]
    BY <1>1
  <2>3. d \in Draft /\ d.runs = agents[a].runs + 1 /\ d.auto = agents[a].auto
    BY <1>4, <2>1 DEF Draft
  <2>4. /\ Earned \subseteq EarnedLists(more) /\ \A s \in Seq(EarnedSaves(approvals)) : s \in Seq(EarnedSaves(more))
    BY <1>1, <2>2, MoreApprovals
  <2>5. [agents EXCEPT ![a] = d] \in EarnedLists(more)
    <3>1. d.runs <= more[a] /\ (d.auto => more[a] >= Threshold)
      BY <1>1, <1>4, <2>1, <2>2, <2>3, StoreAssumption
    <3> QED
      BY <1>1, <2>3, <2>4, <3>1, Replaced
  <2> DEFINE s == [json |-> [agents EXCEPT ![a] = d], list |-> [agents EXCEPT ![a] = d], target |-> a,
                   next |-> None, written |-> FALSE]
  <2>6. s \in EarnedSaves(more)
    BY <2>5 DEF EarnedSaves
  <2>7. saves' = saves \/ saves' = Append(saves, s)
    BY <2>1 DEF Persist
  <2> HIDE DEF s, d, more
  <2>8. saves' \in Seq(EarnedSaves(more))
    BY <1>1, <2>4, <2>6, <2>7, Appended
  <2> QED
    BY <1>1, <2>1, <2>2, <2>4, <2>8 DEF StoreInv
<1>16. ASSUME NEW a \in Agents, CompileFromTrace(a) \/ CreateDraft(a) PROVE StoreInv'
  <2>1. UNCHANGED <<file, reading, approvals, agents>>
    BY <1>16 DEF CompileFromTrace, CreateDraft, Rest, saved
  <2>2. saves' = saves \/ AddDraft(a)
    BY <1>16 DEF CompileFromTrace, CreateDraft
  <2>3. [agents EXCEPT ![a] = NewDraft] \in Earned
    BY <1>1, <1>5, Replaced
  <2>4. saves' \in Seq(EarnedSaves(approvals))
    BY <1>1, <2>2, <2>3, PersistKeeps DEF AddDraft
  <2> QED
    BY <1>1, <2>1, <2>4 DEF StoreInv
<1> QED
  BY <1>6, <1>7, <1>8, <1>9, <1>10, <1>11, <1>13, <1>14, <1>15, <1>16 DEF StoreNext

\* However saves, reads, restarts and edits in place overlap, no copy of an agent counts runs that were
\* not approved, nor drafts on its own before it earned that (agents.ts).
THEOREM AutonomyStaysEarned == StoreSpec => []AutonomyIsEarned
<1>1. StoreInit => StoreInv
  <2> SUFFICES ASSUME StoreInit PROVE StoreInv
    OBVIOUS
  <2>1. approvals \in [Agents -> Nat] /\ \A a \in Agents : approvals[a] = 0
    BY DEF StoreInit
  <2> DEFINE d == [NewDraft EXCEPT !.state = "shadow"]
  <2>2. d \in Draft /\ d.runs = 0 /\ ~d.auto
    BY DEF NewDraft, Draft
  <2>3. file \in [Agents -> {None, d}]
    BY DEF StoreInit
  <2> HIDE DEF d
  <2>4. file \in EarnedLists(approvals)
    BY <2>1, <2>2, <2>3 DEF EarnedLists
  <2>5. agents \in EarnedLists(approvals)
    BY DEF StoreInit, EarnedLists, NoAgents
  <2> QED
    BY <2>1, <2>4, <2>5 DEF StoreInit, StoreInv
<1>2. StoreInv => AutonomyIsEarned
  <2> SUFFICES ASSUME StoreInv PROVE AutonomyIsEarned
    OBVIOUS
  <2>1. \A n \in 1..Len(saves) : saves[n] \in EarnedSaves(approvals)
    BY LenProperties, Elements DEF StoreInv
  <2>2. \A n \in 1..Len(saves) : saves[n].json \in EarnedLists(approvals) /\ saves[n].list \in EarnedLists(approvals)
    BY <2>1 DEF EarnedSaves
  <2>3. \A list \in Lists : list \in EarnedLists(approvals)
    BY <2>2 DEF Lists, StoreInv
  <2> QED
    BY <2>3 DEF AutonomyIsEarned, EarnedLists
<1> QED
  BY <1>1, <1>2, StoreInductive, PTL DEF StoreSpec

-----------------------------------------------------------------------------
(* The server's runs, as the panel follows them. *)

Statuses == {"reading", "waiting", "writing"} \cup Ended
ServerCall ==
  [kind : {"shadow", "supervised", "approve", "reject"},
   stage : {"start", "poll", "status", "proposal", "diff", "receipt", "decide"},
   run : Nat, polls : Nat, hash : Hashes \cup {None}]
ServerRun == [mode : {"shadow", "supervised"}, status : Statuses, hash : Hashes \cup {None}]

\* What holds of a call, going by the runs and the approvals.
CallFits(c, runs, seen) ==
  /\ c.kind \in {"shadow", "supervised"} => c.stage \in {"start", "poll", "status", "proposal", "diff", "receipt"}
  /\ c.kind = "approve" => c.stage \in {"decide", "poll", "receipt"} /\ <<c.run, c.hash>> \in seen
  /\ c.kind = "reject" => c.stage = "decide"
  /\ c.stage # "start" => c.run \in DOMAIN runs
  /\ c.stage = "proposal" => runs[c.run].status # "reading" /\ runs[c.run].hash = c.hash

\* A run that writes was approved.
RunFits(r, runs, seen) == runs[r].status = "writing" => <<r, runs[r].hash>> \in seen

\* What was approved for a run: the diff on the screen, or the one under it.
Seen == shown \cup approvedUnder

PanelTypeOK ==
  /\ serverCalls \in Seq(ServerCall) /\ serverRuns \in Seq(ServerRun)
  /\ panelRun \in 0..Len(serverRuns)
  /\ panelPending \in Hashes \cup {None} /\ panelDiff \in Hashes \cup {None}

PanelInv ==
  /\ PanelTypeOK
  /\ panelPending # None => panelDiff = panelPending \/ covered
  /\ \A n \in DOMAIN serverCalls : CallFits(serverCalls[n], serverRuns, Seen)
  /\ \A r \in DOMAIN serverRuns : RunFits(r, serverRuns, Seen)
  /\ ServerWritesWhatWasShown

\* How the runs on the server go forward: a run that has proposed keeps its hash.
Onward(runs, next) ==
  /\ DOMAIN runs \subseteq DOMAIN next
  /\ \A r \in DOMAIN runs :
       runs[r].status # "reading" => next[r].status # "reading" /\ next[r].hash = runs[r].hash

\* What held of a call holds as the runs go forward and more is approved.
LEMMA CallStays ==
  ASSUME NEW c \in ServerCall, NEW runs, NEW next, NEW seen, NEW more, seen \subseteq more,
         Onward(runs, next), CallFits(c, runs, seen)
  PROVE  CallFits(c, next, more)
BY DEF Onward, CallFits, ServerCall

\* What a step has to do to keep the calls: leave them out, keep them, or put a fitting call in or at the end.
LEMMA CallsKept ==
  ASSUME PanelInv, Onward(serverRuns, serverRuns'), Seen \subseteq Seen',
         \/ serverCalls' = serverCalls
         \/ \E n \in DOMAIN serverCalls : serverCalls' = RemoveAt(serverCalls, n)
         \/ \E n \in DOMAIN serverCalls, c \in ServerCall :
              serverCalls' = [serverCalls EXCEPT ![n] = c] /\ CallFits(c, serverRuns', Seen')
         \/ \E c \in ServerCall : serverCalls' = Append(serverCalls, c) /\ CallFits(c, serverRuns', Seen')
  PROVE  /\ serverCalls' \in Seq(ServerCall)
         /\ \A n \in DOMAIN serverCalls' : CallFits(serverCalls'[n], serverRuns', Seen')
<1>1. serverCalls \in Seq(ServerCall) /\ \A n \in DOMAIN serverCalls : serverCalls[n] \in ServerCall
  BY Elements DEF PanelInv, PanelTypeOK
<1>2. \A n \in DOMAIN serverCalls : CallFits(serverCalls[n], serverRuns', Seen')
  BY <1>1, CallStays DEF PanelInv
<1>3. CASE serverCalls' = serverCalls
  BY <1>1, <1>2, <1>3
<1>4. ASSUME NEW n \in DOMAIN serverCalls, serverCalls' = RemoveAt(serverCalls, n)
      PROVE  /\ serverCalls' \in Seq(ServerCall)
             /\ \A m \in DOMAIN serverCalls' : CallFits(serverCalls'[m], serverRuns', Seen')
  <2>1. /\ serverCalls' \in Seq(ServerCall)
        /\ \A m \in DOMAIN serverCalls' : \E k \in DOMAIN serverCalls : serverCalls'[m] = serverCalls[k]
    BY <1>1, <1>4, Removed
  <2> QED
    BY <1>2, <2>1
<1>5. ASSUME NEW n \in DOMAIN serverCalls, NEW c \in ServerCall, serverCalls' = [serverCalls EXCEPT ![n] = c],
             CallFits(c, serverRuns', Seen')
      PROVE  /\ serverCalls' \in Seq(ServerCall)
             /\ \A m \in DOMAIN serverCalls' : CallFits(serverCalls'[m], serverRuns', Seen')
  <2>1. n \in 1..Len(serverCalls)
    BY <1>1, LenProperties
  <2>2. serverCalls' \in Seq(ServerCall)
    BY <1>1, <1>5, <2>1, ExceptSeq
  <2>3. \A m \in DOMAIN serverCalls' : m \in DOMAIN serverCalls /\ serverCalls'[m] = IF m = n THEN c ELSE serverCalls[m]
    BY <1>5
  <2> QED
    BY <1>2, <1>5, <2>2, <2>3
<1>6. ASSUME NEW c \in ServerCall, serverCalls' = Append(serverCalls, c), CallFits(c, serverRuns', Seen')
      PROVE  /\ serverCalls' \in Seq(ServerCall)
             /\ \A m \in DOMAIN serverCalls' : CallFits(serverCalls'[m], serverRuns', Seen')
  <2>1. /\ serverCalls' \in Seq(ServerCall) /\ DOMAIN serverCalls' = DOMAIN serverCalls \cup {Len(serverCalls) + 1}
        /\ \A m \in DOMAIN serverCalls : serverCalls'[m] = serverCalls[m]
        /\ serverCalls'[Len(serverCalls) + 1] = c
    BY <1>1, <1>6, Appended
  <2> QED
    BY <1>2, <1>6, <2>1
<1> QED
  BY <1>3, <1>4, <1>5, <1>6

\* The runs stay, or one goes forward, or one more starts.
LEMMA RunsKept ==
  ASSUME PanelInv, Seen \subseteq Seen',
         \/ serverRuns' = serverRuns
         \/ \E r \in DOMAIN serverRuns, q \in ServerRun :
              /\ serverRuns' = [serverRuns EXCEPT ![r] = q]
              /\ serverRuns[r].status # "reading" => q.status # "reading" /\ q.hash = serverRuns[r].hash
              /\ q.status = "writing" => <<r, q.hash>> \in Seen'
         \/ \E q \in ServerRun : serverRuns' = Append(serverRuns, q) /\ q.status = "reading"
  PROVE  /\ serverRuns' \in Seq(ServerRun) /\ Onward(serverRuns, serverRuns')
         /\ \A r \in DOMAIN serverRuns' : RunFits(r, serverRuns', Seen')
         /\ Len(serverRuns') \in Nat /\ Len(serverRuns) \in Nat /\ Len(serverRuns) <= Len(serverRuns')
<1> DEFINE Kept == /\ serverRuns' \in Seq(ServerRun) /\ Onward(serverRuns, serverRuns')
                   /\ \A r \in DOMAIN serverRuns' : RunFits(r, serverRuns', Seen')
                   /\ Len(serverRuns') \in Nat /\ Len(serverRuns) \in Nat /\ Len(serverRuns) <= Len(serverRuns')
<1>1. /\ serverRuns \in Seq(ServerRun) /\ Len(serverRuns) \in Nat
      /\ \A r \in DOMAIN serverRuns : serverRuns[r] \in ServerRun
      /\ \A r \in DOMAIN serverRuns : RunFits(r, serverRuns, Seen')
  BY Elements, LenProperties DEF PanelInv, PanelTypeOK, RunFits
<1>2. ASSUME serverRuns' = serverRuns PROVE Kept
  BY <1>1, <1>2 DEF Onward
<1>3. ASSUME NEW r \in DOMAIN serverRuns, NEW q \in ServerRun,
              serverRuns' = [serverRuns EXCEPT ![r] = q],
              serverRuns[r].status # "reading" => q.status # "reading" /\ q.hash = serverRuns[r].hash,
              q.status = "writing" => <<r, q.hash>> \in Seen'
      PROVE  Kept
  <2>1. r \in 1..Len(serverRuns)
    BY <1>1, LenProperties
  <2>2. serverRuns' \in Seq(ServerRun) /\ Len(serverRuns') = Len(serverRuns)
    BY <1>1, <1>3, <2>1, ExceptSeq
  <2>3. /\ DOMAIN serverRuns' = DOMAIN serverRuns /\ serverRuns'[r] = q
        /\ \A s \in DOMAIN serverRuns : s # r => serverRuns'[s] = serverRuns[s]
    BY <1>3
  <2>4. Onward(serverRuns, serverRuns')
    BY <1>3, <2>3 DEF Onward, Ended
  <2>5. \A s \in DOMAIN serverRuns' : RunFits(s, serverRuns', Seen')
    BY <1>1, <1>3, <2>3 DEF RunFits
  <2> QED
    BY <1>1, <2>2, <2>4, <2>5
<1>4. ASSUME NEW q \in ServerRun, serverRuns' = Append(serverRuns, q), q.status = "reading"
      PROVE  Kept
  <2>1. /\ serverRuns' \in Seq(ServerRun) /\ DOMAIN serverRuns' = DOMAIN serverRuns \cup {Len(serverRuns) + 1}
        /\ \A r \in DOMAIN serverRuns : serverRuns'[r] = serverRuns[r]
        /\ serverRuns'[Len(serverRuns) + 1] = q
    BY <1>1, <1>4, Appended
  <2>2. Len(serverRuns') = Len(serverRuns) + 1
    BY <1>1, <1>4, AppendProperties
  <2>3. Onward(serverRuns, serverRuns')
    BY <2>1 DEF Onward
  <2>4. \A s \in DOMAIN serverRuns' : RunFits(s, serverRuns', Seen')
    BY <1>1, <1>4, <2>1 DEF RunFits
  <2> QED
    BY <1>1, <2>1, <2>2, <2>3, <2>4
<1> HIDE DEF Kept
<1>5. Kept
  BY <1>2, <1>3, <1>4
<1> QED
  BY <1>5 DEF Kept

\* The parts together.
LEMMA Together ==
  ASSUME PanelInv, Seen \subseteq Seen', Onward(serverRuns, serverRuns'),
         serverCalls' \in Seq(ServerCall), serverRuns' \in Seq(ServerRun),
         \A n \in DOMAIN serverCalls' : CallFits(serverCalls'[n], serverRuns', Seen'),
         \A r \in DOMAIN serverRuns' : RunFits(r, serverRuns', Seen'),
         panelRun' \in 0..Len(serverRuns'),
         panelPending' \in Hashes \cup {None}, panelDiff' \in Hashes \cup {None},
         panelPending' # None => panelDiff' = panelPending' \/ covered',
         serverWrote' \subseteq Seen'
  PROVE  PanelInv'
BY DEF PanelInv, PanelTypeOK, ServerWritesWhatWasShown, Seen

\* Every call of the panel keeps what the panel holds and what the server showed apart by run.
LEMMA PanelInductive ==
  ASSUME PanelInv, [ServerPanelNext]_panelVars
  PROVE  PanelInv'
<1>1. /\ \A n \in DOMAIN serverCalls : serverCalls[n] \in ServerCall /\ CallFits(serverCalls[n], serverRuns, Seen)
      /\ \A r \in DOMAIN serverRuns : serverRuns[r] \in ServerRun /\ RunFits(r, serverRuns, Seen)
      /\ panelRun \in 0..Len(serverRuns) /\ serverWrote \subseteq Seen
      /\ panelPending \in Hashes \cup {None} /\ panelDiff \in Hashes \cup {None}
      /\ panelPending # None => panelDiff = panelPending \/ covered
      /\ Len(serverRuns) \in Nat /\ DOMAIN serverRuns = 1..Len(serverRuns)
  BY Elements, LenProperties DEF PanelInv, PanelTypeOK, ServerWritesWhatWasShown, Seen
<1>2. \A n \in DOMAIN serverCalls : serverCalls[n].stage # "start" =>
        /\ serverCalls[n].run \in DOMAIN serverRuns /\ Run(n) \in ServerRun
        /\ Run(n).status \in Statuses /\ Run(n).hash \in Hashes \cup {None}
  <2>1. \A n \in DOMAIN serverCalls : serverCalls[n].stage # "start" =>
          serverCalls[n].run \in DOMAIN serverRuns /\ Run(n) \in ServerRun
    BY <1>1 DEF CallFits, Run
  <2> QED
    BY <2>1 DEF ServerRun
\* A step that leaves the server alone.
<1>3. UNCHANGED serverSide => /\ serverRuns' \in Seq(ServerRun) /\ Onward(serverRuns, serverRuns')
                              /\ serverWrote' = serverWrote
  BY DEF serverSide, Onward, PanelInv, PanelTypeOK
<1>seen. UNCHANGED clicks => Seen' = Seen
  BY DEF clicks, Seen
<1>4. ASSUME NEW c \in Cards, StartOnServer(c) PROVE PanelInv'
  <2>1. UNCHANGED <<panelRun, panelDiff, panelPending, covered, serverCalls, serverSide, clicks>>
    BY <1>4 DEF StartOnServer
  <2>2. serverCalls' \in Seq(ServerCall) /\ \A n \in DOMAIN serverCalls' : CallFits(serverCalls'[n], serverRuns', Seen')
    BY <1>3, <1>seen, <2>1, CallsKept
  <2> QED
    BY <1>1, <1>3, <1>seen, <2>1, <2>2, RunsKept, Together DEF serverSide
<1>5. ASSUME NEW c \in Cards, NEW mode \in {"shadow", "supervised"}, Registered(c, mode) PROVE PanelInv'
  <2> DEFINE call == [kind |-> mode, run |-> 0, stage |-> "start", polls |-> 0, hash |-> None]
  <2>1. /\ serverCalls' = Append(serverCalls, call) /\ panelDiff' = None /\ panelPending' = None
        \/ UNCHANGED <<serverCalls, panelDiff, panelPending, covered>>
    BY <1>5 DEF Registered
  <2>2. UNCHANGED <<panelRun, serverSide, clicks>>
    BY <1>5 DEF Registered
  <2>3. call \in ServerCall /\ CallFits(call, serverRuns', Seen')
    BY DEF ServerCall, CallFits
  <2> HIDE DEF call
  <2>4. /\ serverCalls' \in Seq(ServerCall)
        /\ \A n \in DOMAIN serverCalls' : CallFits(serverCalls'[n], serverRuns', Seen')
    BY <1>3, <1>seen, <2>1, <2>2, <2>3, CallsKept
  <2> QED
    BY <1>1, <1>3, <1>seen, <2>1, <2>2, <2>4, RunsKept, Together DEF serverSide
<1>6. ASSUME NEW n \in DOMAIN serverCalls, StartRun(n) PROVE PanelInv'
  <2> DEFINE new == [mode |-> serverCalls[n].kind, status |-> "reading", hash |-> None]
             call == [serverCalls[n] EXCEPT !.stage = "poll", !.run = Len(serverRuns')]
  <2>1. /\ serverCalls[n].stage = "start" /\ serverCalls[n] \in ServerCall
        /\ serverCalls[n].kind \in {"shadow", "supervised"}
    BY <1>1, <1>6 DEF StartRun, At, CallFits, ServerCall
  <2>2. new \in ServerRun /\ serverRuns' = Append(serverRuns, new) /\ new.status = "reading" /\ new.mode = serverCalls[n].kind
    BY <1>6, <2>1 DEF StartRun, ServerRun, Statuses
  <2>3. /\ serverCalls' = [serverCalls EXCEPT ![n] = call] /\ panelRun' = Len(serverRuns')
        /\ UNCHANGED <<panelDiff, panelPending, covered, clicks, serverWrote>>
    BY <1>6 DEF StartRun
  <2> HIDE DEF new
  <2>4. /\ serverRuns' \in Seq(ServerRun) /\ Onward(serverRuns, serverRuns')
        /\ \A r \in DOMAIN serverRuns' : RunFits(r, serverRuns', Seen')
        /\ Len(serverRuns') \in Nat
    BY <1>seen, <2>2, <2>3, RunsKept
  <2>5. Len(serverRuns') = Len(serverRuns) + 1 /\ Len(serverRuns') \in DOMAIN serverRuns' /\ serverRuns'[Len(serverRuns')] = new
    BY <2>2, AppendProperties, LenProperties DEF PanelInv, PanelTypeOK
  <2>6. /\ call \in ServerCall /\ call.stage = "poll" /\ call.run = Len(serverRuns')
        /\ call.kind = serverCalls[n].kind
    BY <2>1, <2>4 DEF ServerCall
  <2>7. CallFits(call, serverRuns', Seen')
    BY <2>1, <2>2, <2>5, <2>6 DEF CallFits
  <2> HIDE DEF call
  <2>8. /\ serverCalls' \in Seq(ServerCall)
        /\ \A m \in DOMAIN serverCalls' : CallFits(serverCalls'[m], serverRuns', Seen')
    BY <1>seen, <2>3, <2>4, <2>6, <2>7, CallsKept
  <2> QED
    BY <1>1, <1>seen, <2>3, <2>4, <2>8, Together
<1>7. ASSUME NEW n \in DOMAIN serverCalls, CommandFails(n) \/ PollsRunOut(n) \/ Proposal(n) \/ LoadReceipt(n)
      PROVE  PanelInv'
  <2>1. serverCalls' = RemoveAt(serverCalls, n) /\ UNCHANGED <<panelRun, serverSide, clicks>>
    BY <1>7 DEF CommandFails, PollsRunOut, Proposal, LoadReceipt, Leave
  <2>2. /\ serverCalls' \in Seq(ServerCall)
        /\ \A m \in DOMAIN serverCalls' : CallFits(serverCalls'[m], serverRuns', Seen')
    BY <1>3, <1>seen, <2>1, CallsKept
  <2>3. /\ panelPending' \in Hashes \cup {None} /\ panelDiff' \in Hashes \cup {None}
        /\ panelPending' # None => panelDiff' = panelPending' \/ covered'
    <3>1. CASE UNCHANGED <<panelPending, panelDiff, covered>>
      BY <1>1, <3>1
    <3>2. CASE Proposal(n)
      <4>1. Run(n).hash = serverCalls[n].hash /\ Run(n).hash \in Hashes \cup {None}
        BY <1>1, <1>2, <3>2 DEF Proposal, At, CallFits, Run
      <4> QED
        BY <1>1, <3>2, <4>1 DEF Proposal
    <3> QED
      BY <1>7, <3>1, <3>2 DEF CommandFails, PollsRunOut, LoadReceipt
  <2> QED
    BY <1>1, <1>3, <1>seen, <2>1, <2>2, <2>3, RunsKept, Together DEF serverSide
\* A call goes on.
<1>8. ASSUME NEW n \in DOMAIN serverCalls, NEW call \in ServerCall, CallFits(call, serverRuns, Seen),
             serverCalls' = [serverCalls EXCEPT ![n] = call], UNCHANGED <<panelRun, panelPending, serverSide, clicks>>,
             panelDiff' \in Hashes \cup {None}, panelPending # None => panelDiff' = panelPending \/ covered'
      PROVE  PanelInv'
  <2>1. /\ serverCalls' \in Seq(ServerCall)
        /\ \A m \in DOMAIN serverCalls' : CallFits(serverCalls'[m], serverRuns', Seen')
    BY <1>3, <1>seen, <1>8, CallsKept DEF serverSide
  <2> QED
    BY <1>1, <1>3, <1>seen, <1>8, <2>1, RunsKept, Together DEF serverSide
<1>see. ASSUME NEW n \in DOMAIN serverCalls, SeesPending(n) PROVE PanelInv'
  <2> DEFINE seen == [serverCalls[n] EXCEPT !.stage = "proposal", !.hash = Run(n).hash]
             unseen == [serverCalls[n] EXCEPT !.stage = "status"]
  <2>1. /\ serverCalls[n].kind = "supervised" /\ serverCalls[n].stage = "poll"
        /\ \/ Run(n).status = "waiting" /\ serverCalls' = [serverCalls EXCEPT ![n] = seen]
           \/ serverCalls' = [serverCalls EXCEPT ![n] = unseen]
        /\ UNCHANGED <<panelRun, panelDiff, panelPending, covered, serverSide, clicks>>
    BY <1>see DEF SeesPending, At
  <2>2. /\ seen \in ServerCall /\ seen.stage = "proposal" /\ seen.hash = Run(n).hash
        /\ seen.run = serverCalls[n].run /\ seen.kind = "supervised"
    BY <1>1, <1>2, <2>1 DEF ServerCall
  <2>3. /\ unseen \in ServerCall /\ unseen.stage = "status" /\ unseen.run = serverCalls[n].run /\ unseen.kind = "supervised"
    BY <1>1, <2>1 DEF ServerCall
  <2>4. Run(n).status = "waiting" => CallFits(seen, serverRuns, Seen)
    BY <1>2, <2>1, <2>2 DEF CallFits, Run
  <2>5. CallFits(unseen, serverRuns, Seen)
    BY <1>2, <2>1, <2>3 DEF CallFits
  <2> HIDE DEF seen, unseen
  <2> QED
    BY <1>1, <1>8, <2>1, <2>2, <2>3, <2>4, <2>5
<1>9. ASSUME NEW n \in DOMAIN serverCalls, Poll(n) PROVE PanelInv'
  <2> DEFINE next == IF serverCalls[n].kind = "shadow" THEN "diff" ELSE "receipt"
             ended == [serverCalls[n] EXCEPT !.stage = next]
             polled == [serverCalls[n] EXCEPT !.stage = "poll", !.polls = serverCalls[n].polls + 1]
  <2>1. /\ serverCalls[n] \in ServerCall
        /\ serverCalls[n].stage \in {"poll", "status"}
        /\ UNCHANGED <<panelRun, panelDiff, panelPending, covered, serverSide, clicks>>
    BY <1>1, <1>9 DEF Poll, At
  <2>2. \/ serverCalls' = [serverCalls EXCEPT ![n] = ended]
        \/ serverCalls' = [serverCalls EXCEPT ![n] = polled]
    BY <1>9 DEF Poll, Go
  <2>3. /\ ended \in ServerCall /\ ended.stage = next /\ ended.kind = serverCalls[n].kind
        /\ ended.run = serverCalls[n].run /\ ended.hash = serverCalls[n].hash
    BY <2>1 DEF ServerCall
  <2>4. /\ polled \in ServerCall /\ polled.stage = "poll" /\ polled.kind = serverCalls[n].kind
        /\ polled.run = serverCalls[n].run /\ polled.hash = serverCalls[n].hash
    <3>1. serverCalls[n].polls + 1 \in Nat
      BY <2>1 DEF ServerCall
    <3> QED
      BY Zenon, <2>1, <3>1 DEF ServerCall
  <2>5. CallFits(ended, serverRuns, Seen)
    BY <1>1, <2>1, <2>3 DEF CallFits
  <2>6. CallFits(polled, serverRuns, Seen)
    BY <1>1, <2>1, <2>4 DEF CallFits
  <2> HIDE DEF ended, polled
  <2> QED
    BY <1>1, <1>8, <2>1, <2>2, <2>3, <2>4, <2>5, <2>6
<1>put. ASSUME NEW n \in DOMAIN serverCalls, ShadowProposal(n) PROVE PanelInv'
  <2> DEFINE call == [serverCalls[n] EXCEPT !.stage = "receipt"]
  <2>1. /\ serverCalls[n] \in ServerCall /\ serverCalls[n].stage = "diff"
        /\ serverCalls' = [serverCalls EXCEPT ![n] = call] /\ UNCHANGED <<panelRun, panelPending, serverSide, clicks>>
    BY <1>1, <1>put DEF ShadowProposal, At, Go
  <2>2. panelDiff' \in Hashes \cup {None} /\ (panelPending # None => panelDiff' = panelPending \/ covered')
    <3>1. CASE panelDiff' \in Hashes /\ covered' = (panelPending # None)
      BY Zenon, <3>1
    <3>2. CASE UNCHANGED <<panelDiff, covered>>
      BY <1>1, <3>2
    <3> QED
      BY <1>put, <3>1, <3>2 DEF ShadowProposal
  <2>3. /\ call \in ServerCall /\ call.stage = "receipt" /\ call.kind = serverCalls[n].kind
        /\ call.run = serverCalls[n].run /\ call.hash = serverCalls[n].hash
    BY <2>1 DEF ServerCall
  <2>4. CallFits(call, serverRuns, Seen)
    BY <1>1, <2>1, <2>3 DEF CallFits
  <2> HIDE DEF call
  <2> QED
    BY <1>8, <2>1, <2>2, <2>3, <2>4
<1>10. CASE ApproveOnServer
  <2> DEFINE call == [kind |-> "approve", run |-> panelRun, stage |-> "decide", polls |-> 0, hash |-> panelPending]
  <2>1. /\ panelPending # None /\ panelRun # 0 /\ panelPending' = None
        /\ serverCalls' = Append(serverCalls, call) /\ shown' = shown \cup {<<panelRun, panelDiff>>}
        /\ approvedUnder' = IF covered THEN approvedUnder \cup {<<panelRun, panelPending>>} ELSE approvedUnder
        /\ UNCHANGED <<panelRun, panelDiff, serverSide>>
    BY <1>10 DEF ApproveOnServer, Card
  <2>2. panelRun \in DOMAIN serverRuns /\ panelRun \in Nat
    BY <1>1, <2>1
  <2>3. Seen \subseteq Seen' /\ <<panelRun, panelPending>> \in Seen'
    BY <1>1, <2>1 DEF Seen
  <2>4. /\ call \in ServerCall /\ call.kind = "approve" /\ call.stage = "decide"
        /\ call.run = panelRun /\ call.hash = panelPending
    BY <1>1, <2>2 DEF ServerCall
  <2>5. CallFits(call, serverRuns', Seen')
    BY <2>1, <2>2, <2>3, <2>4 DEF CallFits, serverSide
  <2> HIDE DEF call
  <2>6. /\ serverCalls' \in Seq(ServerCall)
        /\ \A m \in DOMAIN serverCalls' : CallFits(serverCalls'[m], serverRuns', Seen')
    BY <1>3, <2>1, <2>3, <2>4, <2>5, CallsKept
  <2>7. \A r \in DOMAIN serverRuns' : RunFits(r, serverRuns', Seen')
    BY <1>1, <2>1, <2>3 DEF RunFits, serverSide
  <2>8. serverWrote' \subseteq Seen'
    BY <1>1, <2>1, <2>3 DEF serverSide
  <2> QED
    BY <1>1, <1>3, <2>1, <2>3, <2>6, <2>7, <2>8, Together DEF serverSide
<1>11. ASSUME NEW n \in DOMAIN serverCalls, Approves(n) PROVE PanelInv'
  <2>1. /\ serverCalls[n].kind = "approve" /\ serverCalls[n].stage = "decide" /\ serverCalls[n] \in ServerCall
        /\ <<serverCalls[n].run, serverCalls[n].hash>> \in Seen
        /\ UNCHANGED <<panelRun, panelDiff, panelPending, covered, serverWrote, clicks>>
    BY <1>1, <1>11 DEF Approves, At, CallFits
  <2>2. CASE Accepts(n)
    <3> DEFINE r == serverCalls[n].run
               moved == [serverRuns[r] EXCEPT !.status = "writing"]
               call == [serverCalls[n] EXCEPT !.stage = "poll"]
    <3>1. r \in DOMAIN serverRuns /\ serverRuns[r] \in ServerRun
      BY <1>2, <2>1 DEF Run
    <3>2. /\ serverRuns[r].status = "waiting" /\ serverRuns[r].hash = serverCalls[n].hash
          /\ serverRuns' = [serverRuns EXCEPT ![r] = moved] /\ serverCalls' = [serverCalls EXCEPT ![n] = call]
      BY <1>11, <2>2 DEF Approves, Accepts, Run, Go
    <3>3. /\ moved \in ServerRun /\ moved.status = "writing" /\ moved.mode = serverRuns[r].mode
          /\ moved.hash = serverRuns[r].hash
      BY <3>1 DEF ServerRun, Statuses
    <3>4. /\ call \in ServerCall /\ call.stage = "poll" /\ call.kind = "approve"
          /\ call.run = r /\ call.hash = serverCalls[n].hash
      BY <2>1 DEF ServerCall
    <3>5. serverRuns'[r] = moved /\ r \in DOMAIN serverRuns'
      BY <3>1, <3>2
    <3> HIDE DEF moved, call
    <3>6. CallFits(call, serverRuns', Seen')
      BY <1>seen, <2>1, <3>3, <3>4, <3>5 DEF CallFits
    <3> HIDE DEF r
    <3>7. <<r, moved.hash>> \in Seen'
      BY <1>seen, <2>1, <3>2, <3>3 DEF r
    <3>8. /\ serverRuns' \in Seq(ServerRun) /\ Onward(serverRuns, serverRuns')
          /\ \A s \in DOMAIN serverRuns' : RunFits(s, serverRuns', Seen')
          /\ Len(serverRuns') \in Nat /\ Len(serverRuns) <= Len(serverRuns')
      BY <1>seen, <2>1, <3>1, <3>2, <3>3, <3>7, RunsKept
    <3>9. /\ serverCalls' \in Seq(ServerCall)
          /\ \A m \in DOMAIN serverCalls' : CallFits(serverCalls'[m], serverRuns', Seen')
      BY <1>seen, <2>1, <3>2, <3>4, <3>6, <3>8, CallsKept
    <3>10. panelRun' \in 0..Len(serverRuns')
      BY <1>1, <2>1, <3>8
    <3> QED
      BY <1>1, <1>seen, <2>1, <3>2, <3>8, <3>9, <3>10, Together
  <2>3. CASE ~Accepts(n)
    <3>1. serverCalls' = RemoveAt(serverCalls, n) /\ serverRuns' = serverRuns
      BY <1>11, <2>3 DEF Approves, Leave
    <3>2. UNCHANGED serverSide
      BY <2>1, <3>1 DEF serverSide
    <3>3. /\ serverCalls' \in Seq(ServerCall)
          /\ \A m \in DOMAIN serverCalls' : CallFits(serverCalls'[m], serverRuns', Seen')
      BY <1>3, <1>seen, <2>1, <3>1, <3>2, CallsKept
    <3> QED
      BY <1>1, <1>3, <1>seen, <2>1, <3>1, <3>2, <3>3, RunsKept, Together
  <2> QED
    BY <2>2, <2>3
<1>12. CASE RejectOnServer
  <2> DEFINE call == [kind |-> "reject", run |-> panelRun, stage |-> "decide", polls |-> 0, hash |-> panelPending]
  <2>1. /\ UNCHANGED <<panelRun, panelDiff, serverSide, clicks>>
        /\ \/ panelPending' = None /\ serverCalls' = serverCalls
           \/ panelRun # 0 /\ serverCalls' = Append(serverCalls, call) /\ UNCHANGED <<panelPending, covered>>
    BY <1>12 DEF RejectOnServer
  <2>2. /\ panelRun # 0 => panelRun \in DOMAIN serverRuns
        /\ panelRun \in Nat
    BY <1>1
  <2>3. /\ call \in ServerCall /\ call.kind = "reject" /\ call.stage = "decide" /\ call.run = panelRun
    BY <1>1, <2>2 DEF ServerCall
  <2>4. panelRun # 0 => CallFits(call, serverRuns', Seen')
    BY <1>seen, <2>1, <2>2, <2>3 DEF CallFits, serverSide
  <2> HIDE DEF call
  <2>5. /\ serverCalls' \in Seq(ServerCall)
        /\ \A m \in DOMAIN serverCalls' : CallFits(serverCalls'[m], serverRuns', Seen')
    BY <1>3, <1>seen, <2>1, <2>3, <2>4, CallsKept
  <2> QED
    BY <1>1, <1>3, <1>seen, <2>1, <2>5, RunsKept, Together DEF serverSide
<1>13. ASSUME NEW n \in DOMAIN serverCalls, Rejects(n) PROVE PanelInv'
  <2> DEFINE r == serverCalls[n].run
             moved == [serverRuns[r] EXCEPT !.status = "cancelled"]
  <2>1. /\ serverCalls[n].stage = "decide" /\ serverCalls' = RemoveAt(serverCalls, n)
        /\ panelPending' = None
        /\ UNCHANGED <<panelRun, panelDiff, serverWrote, clicks>>
        /\ \/ serverRuns[r].status = "waiting" /\ serverRuns' = [serverRuns EXCEPT ![r] = moved]
           \/ serverRuns' = serverRuns
    BY <1>13 DEF Rejects, At, Leave, Run
  <2>2. r \in DOMAIN serverRuns /\ serverRuns[r] \in ServerRun
    BY <1>2, <2>1 DEF Run
  <2>3. /\ moved \in ServerRun /\ moved.status = "cancelled"
        /\ moved.hash = serverRuns[r].hash
    BY <2>2 DEF ServerRun, Statuses, Ended
  <2> HIDE DEF r, moved
  <2>4. /\ serverRuns' \in Seq(ServerRun) /\ Onward(serverRuns, serverRuns')
        /\ \A s \in DOMAIN serverRuns' : RunFits(s, serverRuns', Seen')
        /\ Len(serverRuns') \in Nat /\ Len(serverRuns) <= Len(serverRuns')
    BY <1>seen, <2>1, <2>2, <2>3, RunsKept
  <2>5. /\ serverCalls' \in Seq(ServerCall)
        /\ \A m \in DOMAIN serverCalls' : CallFits(serverCalls'[m], serverRuns', Seen')
    BY <1>seen, <2>1, <2>4, CallsKept
  <2>6. panelRun' \in 0..Len(serverRuns')
    BY <1>1, <2>1, <2>4
  <2> QED
    BY <1>1, <1>seen, <2>1, <2>4, <2>5, <2>6, Together
<1>14. CASE ResetServerPanel \/ UNCHANGED panelVars
  <2>1. /\ UNCHANGED <<serverCalls, serverSide, clicks>>
        /\ panelRun' \in {0, panelRun} /\ panelDiff' \in {None, panelDiff} /\ panelPending' \in {None, panelPending}
        /\ (panelPending' # None => panelDiff' = panelPending' \/ covered')
    BY <1>1, <1>14 DEF ResetServerPanel, panelVars, serverSide, clicks
  <2>2. /\ serverCalls' \in Seq(ServerCall)
        /\ \A m \in DOMAIN serverCalls' : CallFits(serverCalls'[m], serverRuns', Seen')
    BY <1>3, <1>seen, <2>1, CallsKept
  <2>3. panelRun' \in 0..Len(serverRuns)
    BY <1>1, <2>1
  <2> QED
    BY <1>1, <1>3, <1>seen, <2>1, <2>2, <2>3, RunsKept, Together DEF serverSide
<1>15. ASSUME NEW r \in DOMAIN serverRuns, ServerMoves(r) PROVE PanelInv'
  <2>1. UNCHANGED <<panelRun, panelDiff, panelPending, covered, serverCalls, clicks>> /\ serverRuns[r] \in ServerRun
    BY <1>1, <1>15 DEF ServerMoves
  <2>2. PICK q \in ServerRun :
          /\ serverRuns' = [serverRuns EXCEPT ![r] = q]
          /\ serverRuns[r].status # "reading" => q.status # "reading" /\ q.hash = serverRuns[r].hash
          /\ q.status # "writing"
    <3>1. ASSUME NEW h \in Hashes, serverRuns[r].status = "reading", serverRuns[r].mode = "supervised",
                 serverRuns' = [serverRuns EXCEPT ![r].status = "waiting", ![r].hash = h]
          PROVE  [serverRuns[r] EXCEPT !.status = "waiting", !.hash = h] \in ServerRun
      BY <2>1 DEF ServerRun, Statuses
    <3>2. \A e \in Ended : /\ [serverRuns[r] EXCEPT !.status = e] \in ServerRun
                           /\ [serverRuns[r] EXCEPT !.status = e].mode = serverRuns[r].mode
                           /\ [serverRuns[r] EXCEPT !.status = e].hash = serverRuns[r].hash
                           /\ [serverRuns[r] EXCEPT !.status = e].status = e
      BY <2>1 DEF ServerRun, Statuses
    <3>3. CASE \E h \in Hashes : /\ serverRuns[r].status = "reading" /\ serverRuns[r].mode = "supervised"
                                 /\ serverRuns' = [serverRuns EXCEPT ![r].status = "waiting", ![r].hash = h]
      <4>1. PICK h \in Hashes : /\ serverRuns[r].status = "reading" /\ serverRuns[r].mode = "supervised"
                                /\ serverRuns' = [serverRuns EXCEPT ![r].status = "waiting", ![r].hash = h]
        BY <3>3
      <4> DEFINE q == [serverRuns[r] EXCEPT !.status = "waiting", !.hash = h]
      <4>2. q \in ServerRun /\ serverRuns' = [serverRuns EXCEPT ![r] = q]
        BY <3>1, <4>1
      <4>3. q.mode = "supervised" /\ q.status = "waiting"
        BY <2>1, <4>1 DEF ServerRun
      <4> HIDE DEF q
      <4> QED
        BY <4>1, <4>2, <4>3
    <3>4. CASE \E e \in Ended : serverRuns' = [serverRuns EXCEPT ![r].status = e]
      <4>1. PICK e \in Ended : serverRuns' = [serverRuns EXCEPT ![r].status = e]
        BY <3>4
      <4> DEFINE q == [serverRuns[r] EXCEPT !.status = e]
      <4>2. /\ q \in ServerRun /\ serverRuns' = [serverRuns EXCEPT ![r] = q]
            /\ q.hash = serverRuns[r].hash /\ q.status \in Ended
        BY <3>2, <4>1
      <4> HIDE DEF q
      <4> QED
        BY <4>2 DEF Ended
    <3> QED
      BY <1>15, <3>3, <3>4 DEF ServerMoves, Ended
  <2>3. serverWrote' \subseteq Seen'
    <3>1. serverRuns[r].status = "writing" => <<r, serverRuns[r].hash>> \in Seen
      BY <1>1 DEF RunFits
    <3> QED
      BY <1>1, <1>15, <1>seen, <2>1, <3>1 DEF ServerMoves
  <2>4. /\ serverRuns' \in Seq(ServerRun) /\ Onward(serverRuns, serverRuns')
        /\ \A s \in DOMAIN serverRuns' : RunFits(s, serverRuns', Seen')
        /\ Len(serverRuns') \in Nat /\ Len(serverRuns) <= Len(serverRuns')
    BY <1>seen, <2>1, <2>2, RunsKept
  <2>5. /\ serverCalls' \in Seq(ServerCall)
        /\ \A m \in DOMAIN serverCalls' : CallFits(serverCalls'[m], serverRuns', Seen')
    BY <1>seen, <2>1, <2>4, CallsKept
  <2>6. panelRun' \in 0..Len(serverRuns')
    BY <1>1, <2>1, <2>4
  <2> QED
    BY <1>1, <1>seen, <2>1, <2>3, <2>4, <2>5, <2>6, Together
<1> QED
  BY <1>4, <1>5, <1>6, <1>7, <1>see, <1>9, <1>put, <1>10, <1>11, <1>12, <1>13, <1>14, <1>15 DEF ServerPanelNext

\* Whatever calls of two runs share the panel, the server writes for a run only what was on the screen
\* when Approve was clicked for it (serverRuns.ts).
THEOREM ServerWritesAreShown == ServerPanelSpec => []ServerWritesWhatWasShown
<1>1. ServerPanelInit => PanelInv
  BY EmptySeq DEF ServerPanelInit, PanelInv, PanelTypeOK, ServerWritesWhatWasShown, Seen
<1>2. PanelInv => ServerWritesWhatWasShown
  BY DEF PanelInv
<1> QED
  BY <1>1, <1>2, PanelInductive, PTL DEF ServerPanelSpec

-----------------------------------------------------------------------------
(* The observer's status. *)

\* Where the supervisor is tells whether a child runs; a status that says "starting" was shown nothing by
\* this child yet, and a status that says "disabled" is left before there is a child.
Idle == {"top", "cooling", "stopped"}
Busy == {"starting", "tick", "reading", "reaping"}

StatusInv ==
  /\ supervisor \in Idle \cup Busy
  /\ supervisor \in Idle => child = None
  /\ supervisor \in Busy => observerStatus # "disabled"
  /\ observerStatus = "starting" => evidence = None
  /\ StatusIsHonest

\* Promoting the status, on evidence or on a mere sign of life, keeps it.
LEMMA PromoteKeeps ==
  ASSUME StatusInv, NEW definitive \in BOOLEAN, Promote(definitive),
         supervisor \in Busy, supervisor' \in Busy, child' = child
  PROVE  StatusInv'
<1>1. observerStatus # "disabled" /\ observerStatus' # "disabled"
  BY DEF StatusInv, Promote
<1>2. observerStatus' # "starting"
  BY DEF Promote
<1>3. CASE definitive
  <2> QED
    BY <1>1, <1>2, <1>3, ObserverAssumption DEF Promote, StatusInv, StatusIsHonest, Idle, Busy
<1>4. CASE ~definitive
  <2>1. CASE observerStatus = "starting"
    BY <1>1, <1>2, <1>4, <2>1, ObserverAssumption DEF Promote, StatusInv, StatusIsHonest, Idle, Busy
  <2>2. CASE observerStatus # "starting"
    BY <1>1, <1>2, <1>4, <2>2, ObserverAssumption DEF Promote, StatusInv, StatusIsHonest, Idle, Busy
  <2> QED
    BY <2>1, <2>2
<1> QED
  BY <1>3, <1>4

\* Each step of the supervisor, its child and the settings keeps it.
LEMMA StatusInductive == StatusInv /\ [ObserverNext]_observerVars => StatusInv'
<1> SUFFICES ASSUME StatusInv, [ObserverNext]_observerVars PROVE StatusInv'
  OBVIOUS
<1> USE ObserverAssumption
<1>0. ASSUME UNCHANGED superVars PROVE StatusInv'
  BY <1>0 DEF StatusInv, StatusIsHonest, superVars, Idle, Busy
<1>1. CASE UNCHANGED observerVars
  BY <1>0, <1>1 DEF observerVars
<1>2. ASSUME NEW v \in {"paused", "watching"}, SettingsSave(v) PROVE StatusInv'
  BY <1>0, <1>2 DEF SettingsSave
<1>3. CASE SettingsWritten \/ InvalidateCache \/ BrowserEventArrives \/ BrowserEventIngested
  BY <1>0, <1>3 DEF SettingsWritten, InvalidateCache, BrowserEventArrives, BrowserEventIngested
<1>4. ASSUME NEW t \in Loaders, LoadReads(t) \/ LoadCaches(t) PROVE StatusInv'
  BY <1>0, <1>4 DEF LoadReads, LoadCaches
<1>5. CASE StayDisabled \/ NoBinary
  BY <1>5 DEF StayDisabled, NoBinary, Status, StatusInv, StatusIsHonest, Idle, Busy
<1>6. CASE SpawnFails
  BY <1>6 DEF SpawnFails, Status, StatusInv, StatusIsHonest, Idle, Busy
<1>7. CASE Spawn
  BY <1>7 DEF Spawn, Status, StatusInv, StatusIsHonest, Idle, Busy
<1>8. CASE Configure
  BY <1>8 DEF Configure, StatusInv, StatusIsHonest, Idle, Busy
<1>9. CASE Tick
  BY <1>9 DEF Tick, StatusInv, StatusIsHonest, Idle, Busy
<1>10. CASE ReadLine
  <2>1. PICK line \in {"none", "hello", "boundary", "permission", "fatal", "other"} :
          CASE line \in {"hello", "boundary"} -> Promote(FALSE)
            [] line = "permission" -> Status("permission_required", "denied")
            [] line = "fatal"      -> Status("failed", "broken")
            [] OTHER               -> UNCHANGED <<observerStatus, evidence>>
    BY <1>10 DEF ReadLine
  <2>2. supervisor = "reading" /\ supervisor' = "tick" /\ child' = child
    BY <1>10 DEF ReadLine
  <2>3. CASE line \in {"hello", "boundary"}
    <3>1. Promote(FALSE)
      BY <2>1, <2>3
    <3> QED
      BY <3>1, <2>2, PromoteKeeps DEF Busy
  <2>4. CASE line = "permission"
    <3>1. Status("permission_required", "denied")
      BY <2>1, <2>4
    <3> QED
      BY <3>1, <2>2 DEF Status, StatusInv, StatusIsHonest, Idle, Busy
  <2>5. CASE line = "fatal"
    <3>1. Status("failed", "broken")
      BY <2>1, <2>5
    <3> QED
      BY <3>1, <2>2 DEF Status, StatusInv, StatusIsHonest, Idle, Busy
  <2>6. CASE line \in {"none", "other"}
    <3>1. UNCHANGED <<observerStatus, evidence>>
      BY <2>1, <2>6
    <3> QED
      BY <3>1, <2>2 DEF StatusInv, StatusIsHonest, Idle, Busy
  <2> QED
    BY <2>3, <2>4, <2>5, <2>6
<1>11. CASE ReadEvent
  BY <1>11, PromoteKeeps DEF ReadEvent, Busy
<1>12. CASE ObservedEventIngested
  BY <1>12 DEF ObservedEventIngested, StatusInv, StatusIsHonest, Idle, Busy
<1>13. CASE ReadResult
  BY <1>13 DEF ReadResult, StatusInv, StatusIsHonest, Idle, Busy
<1>14. CASE ChildExits
  BY <1>14 DEF ChildExits, StatusInv, StatusIsHonest, Idle, Busy
<1>15. CASE Reaped
  BY <1>15 DEF Reaped, Status, StatusInv, StatusIsHonest, Idle, Busy
<1>16. CASE CooledOff
  BY <1>16 DEF CooledOff, StatusInv, StatusIsHonest, Idle, Busy
<1>17. CASE QueueTeachControl \/ HandleControl
  BY <1>0, <1>17 DEF QueueTeachControl, HandleControl
<1>18. ASSUME NEW r \in Asks, NativeActionDispatch(r) \/ NativeTimeout(r) \/ AskExpires(r) PROVE StatusInv'
  BY <1>0, <1>18 DEF NativeActionDispatch, NativeTimeout, AskExpires
<1> QED
  BY <1>1, <1>2, <1>3, <1>4, <1>5, <1>6, <1>7, <1>8, <1>9, <1>10, <1>11, <1>12, <1>13, <1>14, <1>15,
     <1>16, <1>17, <1>18 DEF ObserverNext

\* The observer's status stays honest, whatever the settings, the observer and its restarts do.
THEOREM StatusStaysHonest == ObserverSpec => []StatusIsHonest
<1>1. ObserverInit => StatusInv
  BY ObserverAssumption DEF ObserverInit, StatusInv, StatusIsHonest, Idle, Busy
<1>2. StatusInv => StatusIsHonest
  BY DEF StatusInv
<1> QED
  BY <1>1, <1>2, StatusInductive, PTL DEF ObserverSpec

-----------------------------------------------------------------------------
(* The pet and the bar. *)

Flags == {"paused", "private", "observing", "thinking", "suggestion", "approvalPending", "running", "reviewing"}

\* The pet's flags are flags, the player is a player with at most one timer and none while it is paused, and
\* a bar that nothing holds says what the funnel said last, which is also what a hold falls back to.
PetInv ==
  /\ conditions \subseteq Flags
  /\ shows \in DOMAIN Reasons => Reasons[shows] \cap conditions # {}
  /\ player \in [queue : BOOLEAN, timers : {0, 1}, paused : BOOLEAN]
  /\ player.paused => player.timers = 0
BarInv ==
  /\ fallback = funnel
  /\ hold \in BOOLEAN
  /\ ~hold => beat = funnel

\* The state an animal in these conditions is in has its reason among them.
LEMMA ResolvedHasReason ==
  ASSUME NEW c \in SUBSET Flags, ResolvePetState(c) \in DOMAIN Reasons
  PROVE  Reasons[ResolvePetState(c)] \cap c # {}
<1>1. CASE "approvalPending" \in c
  BY <1>1 DEF ResolvePetState, Reasons
<1>2. CASE "approvalPending" \notin c /\ "running" \in c
  BY <1>2 DEF ResolvePetState, Reasons
<1>3. CASE "approvalPending" \notin c /\ "running" \notin c /\ "reviewing" \in c
  BY <1>3 DEF ResolvePetState, Reasons
<1>4. CASE "approvalPending" \notin c /\ "running" \notin c /\ "reviewing" \notin c /\ "thinking" \in c
  BY <1>4 DEF ResolvePetState, Reasons
<1>5. CASE c \cap {"approvalPending", "running", "reviewing", "thinking"} = {} /\ "suggestion" \in c
  BY <1>5 DEF ResolvePetState, Reasons
<1>6. CASE c \cap {"approvalPending", "running", "reviewing", "thinking", "suggestion"} = {}
  <2>1. c \subseteq {"paused", "private", "observing"}
    BY <1>6 DEF Flags
  <2>2. CASE c \cap {"paused", "private"} # {}
    BY <1>6, <2>1, <2>2 DEF ResolvePetState, Reasons
  <2>3. CASE c \cap {"paused", "private"} = {} /\ c # {}
    <3>1. c = {"observing"}
      BY <2>1, <2>3
    <3> QED
      BY <3>1, <2>3 DEF ResolvePetState, Reasons
  <2>4. CASE c = {}
    BY <2>4 DEF ResolvePetState, Reasons
  <2> QED
    BY <2>2, <2>3, <2>4
<1> QED
  BY <1>1, <1>2, <1>3, <1>4, <1>5, <1>6

\* Each step of the pet, its timers and the bar keeps them.
LEMMA SurfacesInductive == PetInv /\ BarInv /\ [SurfaceNext]_surfaceVars => PetInv' /\ BarInv'
<1> SUFFICES ASSUME PetInv, BarInv, [SurfaceNext]_surfaceVars PROVE PetInv' /\ BarInv'
  OBVIOUS
<1>1. CASE UNCHANGED surfaceVars
  BY <1>1 DEF surfaceVars, PetInv, BarInv
<1>2. ASSUME PetUnchanged PROVE PetInv'
  BY <1>2 DEF PetUnchanged, PetInv
<1>3. ASSUME BarUnchanged PROVE BarInv'
  BY <1>3 DEF BarUnchanged, BarInv
<1>4. ASSUME NEW state, NEW gaze, NEW reduced, Animate(state, gaze, reduced)
      PROVE  /\ player' \in [queue : BOOLEAN, timers : {0, 1}, paused : BOOLEAN]
             /\ player'.paused => player'.timers = 0
  BY <1>4 DEF Animate, Cancelled, Play, PetInv
<1>5. ASSUME NEW e \in PetEvents, NEW reduced \in BOOLEAN, PetHears(e, reduced) PROVE PetInv'
  <2>1. conditions' = ApplyEvent(e) /\ shows' = AfterEvent(e) /\ Animate(AfterEvent(e), gazing, reduced)
    BY <1>5 DEF PetHears
  <2>2. ApplyEvent(e) \subseteq Flags
    <3>1. \A x \in DOMAIN Raises : Raises[x] \in Flags
      BY DEF Raises, Flags
    <3> QED
      BY <3>1 DEF ApplyEvent, PetInv
  <2>3. "success" \notin DOMAIN Reasons /\ "failed" \notin DOMAIN Reasons
    BY DEF Reasons
  <2>4. ASSUME AfterEvent(e) \in DOMAIN Reasons PROVE Reasons[AfterEvent(e)] \cap ApplyEvent(e) # {}
    <3>1. CASE shows = "failed"
      <4>1. e = "FAILURE_ACKNOWLEDGED" /\ AfterEvent(e) = ResolvePetState(conditions)
        BY <2>3, <2>4, <3>1 DEF AfterEvent
      <4>2. ApplyEvent(e) = conditions
        BY <4>1 DEF ApplyEvent, Raises, Clears
      <4> QED
        BY <4>1, <4>2, <2>4, ResolvedHasReason DEF PetInv
    <3>2. CASE shows = "success"
      <4>1. AfterEvent(e) = InSuccess(e)
        BY <3>2 DEF AfterEvent
      <4>2. CASE e = "APPROVAL_REQUIRED"
        BY <4>1, <4>2 DEF InSuccess, ApplyEvent, Raises, Clears, Reasons
      <4>3. CASE e = "RUN_STARTED"
        BY <4>1, <4>3 DEF InSuccess, ApplyEvent, Raises, Clears, Reasons
      <4>4. CASE e \notin {"APPROVAL_REQUIRED", "RUN_STARTED"}
        BY <4>1, <4>4, <2>3, <2>4 DEF InSuccess
      <4> QED
        BY <4>2, <4>3, <4>4
    <3>3. CASE shows \notin {"failed", "success"}
      <4>1. AfterEvent(e) = ResolvePetState(ApplyEvent(e))
        BY <2>3, <2>4, <3>3 DEF AfterEvent
      <4> QED
        BY <4>1, <2>2, <2>4, ResolvedHasReason
    <3> QED
      BY <3>1, <3>2, <3>3
  <2> QED
    BY <2>1, <2>2, <2>4, <1>4 DEF PetInv
<1>6. ASSUME NEW reduced \in BOOLEAN, DisplayEnds(reduced) PROVE PetInv'
  BY <1>4, <1>6, ResolvedHasReason DEF DisplayEnds, PetInv
<1>7. ASSUME NEW reduced \in BOOLEAN, GazeChanges(reduced) PROVE PetInv'
  BY <1>4, <1>7 DEF GazeChanges, PetInv
<1>8. CASE LabControl
  <2>1. player' \in [queue : BOOLEAN, timers : {0, 1}, paused : BOOLEAN] /\ (player'.paused => player'.timers = 0)
    BY <1>8 DEF LabControl, PetInv, PauseFrames, ResumeFrames, RestartFrames
  <2>2. conditions' = conditions /\ shows' = shows
    BY <1>8 DEF LabControl
  <2>3. conditions' \subseteq Flags /\ (shows' \in DOMAIN Reasons => Reasons[shows'] \cap conditions' # {})
    BY <2>2 DEF PetInv
  <2>4. BarInv'
    BY <1>3, <1>8 DEF LabControl
  <2> QED
    BY <2>1, <2>3, <2>4 DEF PetInv
<1>9. CASE PetNext
  <2>1. BarInv'
    BY <1>3, <1>9, <1>1 DEF PetNext, PetHears, DisplayEnds, GazeChanges, FrameTimer, LabControl
  <2> QED
    BY <2>1, <1>1, <1>5, <1>6, <1>7, <1>8, <1>9 DEF PetNext, FrameTimer
<1>10. CASE BarNext
  <2>1. PetInv'
    BY <1>2, <1>10 DEF BarNext, StickyBeat, FunnelBeat, HoldEnds, HealthPolled
  <2>2. BarInv'
    BY <1>10 DEF BarInv, BarNext, StickyBeat, FunnelBeat, HoldEnds, HealthPolled
  <2> QED
    BY <2>1, <2>2
<1> QED
  BY <1>1, <1>9, <1>10 DEF SurfaceNext

\* What the pet and the bar show is so, in every state of theirs.
THEOREM SurfacesStayTrue == SurfaceSpec => []SurfacesAreTrue
<1>1. SurfaceInit => PetInv /\ BarInv
  <2> SUFFICES ASSUME SurfaceInit PROVE PetInv /\ BarInv
    OBVIOUS
  <2>1. conditions = {"paused"} /\ shows = "sleeping" /\ player = Cancelled
    BY DEF SurfaceInit
  <2>2. Reasons[shows] \cap conditions # {}
    BY <2>1 DEF Reasons
  <2>3. PetInv
    BY <2>1, <2>2 DEF PetInv, Flags, Cancelled
  <2> QED
    BY <2>3 DEF SurfaceInit, BarInv
<1>2. PetInv /\ BarInv => SurfacesAreTrue
  BY DEF PetInv, BarInv, SurfacesAreTrue, StatusLine, DotFor
<1> QED
  BY <1>1, <1>2, SurfacesInductive, PTL DEF SurfaceSpec

\* The observer's status, the pet and the bar, side by side.
THEOREM ShownStaysTrue == ObserverSpec /\ SurfaceSpec => []ShownIsTrue
BY StatusStaysHonest, SurfacesStayTrue, PTL DEF ShownIsTrue

-----------------------------------------------------------------------------
(* What is learned from what is observed: sums and sorted sequences first. *)

\* The function that SumOf is the last value of
Adding(c, q, m) ==
  c = [n \in 0..m |-> IF n = 0 THEN 0 ELSE c[n - 1] + q[n]]

\* The recursive function of SumOf is defined by its equation.
LEMMA AddingDefined ==
  ASSUME NEW q, NEW m \in Nat
  PROVE  \E c : Adding(c, q, m)
<1> USE DEF Adding
<1> DEFINE Fits(c, k) == Adding(c, q, k)
           Defined == {k \in Nat : \E c : Fits(c, k)}
<1>1. 0 \in Defined
  <2> DEFINE c == [n \in 0..0 |-> 0]
  <2>1. \A n \in 0..0 : n = 0
    OBVIOUS
  <2>2. Fits(c, 0)
    BY <2>1, Zenon
  <2> QED
    BY <2>2
<1>2. ASSUME NEW k \in Nat, k \in Defined PROVE k + 1 \in Defined
  <2>1. PICK c : Fits(c, k)
    BY <1>2
  <2> DEFINE next == c[k] + q[k + 1]
             d == [n \in 0..(k + 1) |-> IF n = k + 1 THEN next ELSE c[n]]
  <2>2. ASSUME NEW n \in 0..(k + 1)
        PROVE  d[n] = IF n = 0 THEN 0 ELSE d[n - 1] + q[n]
    <3>1. CASE n = k + 1
      <4>1. n # 0 /\ d[n] = next /\ d[n - 1] = c[k] /\ k \in 0..(k + 1) /\ k # k + 1 /\ n - 1 = k
        BY <3>1
      <4> QED
        BY <3>1, <4>1
    <3>2. CASE n = 0
      <4>1. n # k + 1 /\ d[n] = c[n] /\ n \in 0..k
        BY <3>2
      <4> QED
        BY <2>1, <3>2, <4>1
    <3>3. CASE n # k + 1 /\ n # 0
      <4>1. d[n] = c[n] /\ d[n - 1] = c[n - 1] /\ n \in 0..k
        BY <3>3
      <4> QED
        BY <2>1, <3>3, <4>1
    <3> QED
      BY <3>1, <3>2, <3>3
  <2>3. Fits(d, k + 1)
    <3> DEFINE e == [n \in 0..(k + 1) |-> IF n = 0 THEN 0 ELSE d[n - 1] + q[n]]
    <3>1. \A n \in 0..(k + 1) : d[n] = e[n]
      BY <2>2
    <3>2. d = [n \in 0..(k + 1) |-> d[n]]
      OBVIOUS
    <3> HIDE DEF d
    <3>3. d = e
      BY <3>1, <3>2
    <3> QED
      BY <3>3
  <2> HIDE DEF d, Fits
  <2> QED
    BY <2>3, k + 1 \in Nat
<1>3. Nat \subseteq Defined
  <2> HIDE DEF Defined
  <2> QED BY <1>1, <1>2, NatSetInduction
<1> QED
  BY <1>3

\* A sum is made number by number.
LEMMA SumIs ==
  ASSUME NEW q, NEW m \in Nat, Len(q) = m, \A n \in 1..m : q[n] \in Int
  PROVE  /\ SumOf(q) \in Int
         /\ \E sum \in [0..m -> Int] : sum[0] = 0 /\ sum[m] = SumOf(q) /\ \A n \in 1..m : sum[n] = sum[n - 1] + q[n]
<1> DEFINE sum == CHOOSE c : Adding(c, q, m)
<1>1. Adding(sum, q, m)
  BY AddingDefined
<1>2. SumOf(q) = sum[m]
  BY Zenon DEF SumOf, Adding
<1> HIDE DEF sum
<1>3. \A n \in 0..m : sum[n] = IF n = 0 THEN 0 ELSE sum[n - 1] + q[n]
  BY <1>1, Zenon DEF Adding
<1>4. sum[0] = 0 /\ \A n \in 1..m : sum[n] = sum[n - 1] + q[n]
  BY <1>3
<1> DEFINE Whole == {n \in Nat : n <= m => sum[n] \in Int}
<1>5. 0 \in Whole
  BY <1>4
<1>6. ASSUME NEW n \in Nat, n \in Whole PROVE n + 1 \in Whole
  <2> SUFFICES ASSUME n + 1 <= m PROVE sum[n + 1] \in Int
    OBVIOUS
  <2>1. n + 1 \in 1..m /\ n + 1 - 1 = n /\ n <= m
    OBVIOUS
  <2> QED
    BY <1>4, <1>6, <2>1
<1>7. Nat \subseteq Whole
  <2> HIDE DEF Whole
  <2> QED BY <1>5, <1>6, NatSetInduction
<1>8. sum \in [0..m -> Int]
  <2>1. sum = [n \in 0..m |-> IF n = 0 THEN 0 ELSE sum[n - 1] + q[n]]
    BY <1>1 DEF Adding
  <2>2. \A n \in 0..m : sum[n] \in Int
    BY <1>7
  <2>3. DOMAIN sum = 0..m
    BY <2>1
  <2>4. sum = [n \in 0..m |-> sum[n]]
    BY <2>1, <1>3
  <2> HIDE DEF Whole
  <2> QED BY <2>2, <2>4
<1>9. SumOf(q) \in Int
  <2>1. m \in 0..m
    OBVIOUS
  <2> QED BY <1>2, <1>8, <2>1
<1>10. sum[m] = SumOf(q)
  BY <1>2
<1> QED
  BY <1>4, <1>8, <1>9, <1>10, Zenon

\* d is s in another order, from the lowest rank to the highest.
IsRanked(s, rank, d) ==
  \E from \in [DOMAIN s -> DOMAIN s] :
    /\ \A k \in DOMAIN s : d[k] = s[from[k]]
    /\ \A k, l \in DOMAIN s : k < l => rank[from[k]] <= rank[from[l]] /\ from[k] # from[l]
    /\ \A i \in DOMAIN s : \E k \in DOMAIN s : from[k] = i

\* A sorted sequence holds the elements of the first, each once, in the order of their ranks.
LEMMA ByRankIs ==
  ASSUME NEW S, NEW s \in Seq(S), NEW rank, \A i \in DOMAIN s : rank[i] \in Int
  PROVE  /\ ByRank(s, rank) \in Seq(S) /\ Len(ByRank(s, rank)) = Len(s) /\ DOMAIN ByRank(s, rank) = DOMAIN s
         /\ IsRanked(s, rank, ByRank(s, rank))
<1> DEFINE D == DOMAIN s
           Upto(i) == {j \in D : rank[j] < rank[i] \/ (rank[j] = rank[i] /\ j <= i)}
           place == [i \in D |-> Cardinality(Upto(i))]
           from == [k \in D |-> CHOOSE i \in D : place[i] = k]
<1>0. Len(s) \in Nat /\ D = 1..Len(s)
  BY LenProperties
<1>1. IsFiniteSet(D) /\ Cardinality(D) = Len(s)
  <2>1. 1 \in Int /\ Len(s) \in Int
    BY <1>0
  <2>2. IsFiniteSet(1..Len(s)) /\ Cardinality(1..Len(s)) = IF 1 > Len(s) THEN 0 ELSE Len(s) - 1 + 1
    BY <2>1, FS_Interval
  <2> QED
    BY <1>0, <2>2
<1>2. ASSUME NEW i \in D
      PROVE  IsFiniteSet(Upto(i)) /\ place[i] \in D
  <2>1. Upto(i) \in SUBSET D /\ i \in Upto(i)
    BY <1>0
  <2>2. /\ IsFiniteSet(Upto(i)) /\ Cardinality(Upto(i)) <= Len(s) /\ Cardinality(Upto(i)) \in Nat
        /\ (Cardinality(Upto(i)) = 0 <=> Upto(i) = {})
    <3> HIDE DEF Upto, D
    <3> QED BY <1>1, <2>1, FS_Subset, FS_CardinalityType, FS_EmptySet
  <2>3. place[i] = Cardinality(Upto(i))
    OBVIOUS
  <2> HIDE DEF place, Upto
  <2> QED BY <1>0, <2>1, <2>2, <2>3
<1>3. ASSUME NEW i \in D, NEW j \in D, i # j, rank[i] < rank[j] \/ (rank[i] = rank[j] /\ i < j)
      PROVE  place[i] < place[j]
  <2>0. /\ i \in Nat /\ j \in Nat /\ rank[i] \in Int /\ rank[j] \in Int
        /\ \A o \in D : o \in Nat /\ rank[o] \in Int
    BY <1>0
  <2>1. Upto(i) \subseteq Upto(j) /\ j \in Upto(j) /\ j \notin Upto(i)
    <3> HIDE DEF D
    <3>1. ASSUME NEW o \in Upto(i) PROVE o \in Upto(j)
      BY <2>0, <3>1, <1>3
    <3>2. j \in Upto(j)
      BY <2>0
    <3>3. j \notin Upto(i)
      BY <2>0, <1>3
    <3> HIDE DEF Upto
    <3> QED BY <3>1, <3>2, <3>3
  <2>2. IsFiniteSet(Upto(j)) /\ IsFiniteSet(Upto(i))
    BY <1>2
  <2>3. Cardinality(Upto(i)) <= Cardinality(Upto(j)) /\ Cardinality(Upto(i)) # Cardinality(Upto(j))
    <3> HIDE DEF Upto
    <3> QED BY <2>1, <2>2, FS_Subset
  <2>4. place[i] = Cardinality(Upto(i)) /\ place[j] = Cardinality(Upto(j))
    OBVIOUS
  <2>5. place[i] \in Nat /\ place[j] \in Nat
    <3> HIDE DEF place
    <3>1. place[i] \in D /\ place[j] \in D
      BY <1>2
    <3> QED BY <1>0, <3>1
  <2> HIDE DEF place, Upto
  <2> QED BY <2>3, <2>4, <2>5
<1>4. \A i, j \in D : place[i] = place[j] => i = j
  <2> SUFFICES ASSUME NEW i \in D, NEW j \in D, place[i] = place[j], i # j PROVE FALSE
    OBVIOUS
  <2> HIDE DEF place
  <2>0. place[i] \in D
    BY <1>2
  <2>1. place[i] \in Nat /\ i \in Nat /\ j \in Nat /\ rank[i] \in Int /\ rank[j] \in Int
    BY <1>0, <2>0
  <2>2. \/ rank[i] < rank[j] \/ (rank[i] = rank[j] /\ i < j)
        \/ rank[j] < rank[i] \/ (rank[i] = rank[j] /\ j < i)
    BY <2>1
  <2> QED
    BY <1>3, <2>1, <2>2
<1>5. place \in Injection(D, D)
  BY <1>2, <1>4, Zenon DEF Injection, IsInjective
<1>6. place \in Surjection(D, D)
  <2> HIDE DEF place, D
  <2> QED BY <1>1, <1>5, FS_Injection
<1>7. ASSUME NEW k \in D PROVE from[k] \in D /\ place[from[k]] = k
  <2>1. \E i \in D : place[i] = k
    <3> HIDE DEF place, D
    <3> QED BY <1>6 DEF Surjection
  <2> HIDE DEF place, D
  <2> QED BY <2>1
<1>8. from \in [D -> D]
  BY <1>7
<1>9. ByRank(s, rank) = [k \in D |-> s[from[k]]]
  <2> DEFINE Nth(k) == CHOOSE i \in D : place[i] = k
  <2>1. ByRank(s, rank) = [k \in D |-> s[Nth(k)]]
    BY DEF ByRank
  <2>2. \A k \in D : from[k] = Nth(k)
    OBVIOUS
  <2> HIDE DEF Nth, from, D
  <2> QED BY <2>1, <2>2
<1>10. \A k \in D : s[from[k]] \in S
  <2> HIDE DEF from
  <2> QED BY <1>8, Elements
<1> HIDE DEF from
<1>11. [k \in D |-> s[from[k]]] \in [D -> S]
  BY <1>10
<1>12. ByRank(s, rank) \in Seq(S) /\ Len(ByRank(s, rank)) = Len(s) /\ DOMAIN ByRank(s, rank) = D
  BY <1>9, <1>11, SameLength
<1>13. ASSUME NEW k \in D, NEW l \in D, k < l PROVE rank[from[k]] <= rank[from[l]] /\ from[k] # from[l]
  <2>1. from[k] \in D /\ from[l] \in D /\ place[from[k]] = k /\ place[from[l]] = l
    BY <1>7
  <2> HIDE DEF place
  <2>2. from[k] # from[l]
    BY <2>1, <1>13, <1>0
  <2>3. ~(rank[from[l]] < rank[from[k]])
    <3> SUFFICES ASSUME rank[from[l]] < rank[from[k]] PROVE FALSE
      OBVIOUS
    <3>1. place[from[l]] < place[from[k]]
      BY <1>3, <2>1, <2>2
    <3> QED
      BY <3>1, <2>1, <1>13, <1>0
  <2> QED
    BY <2>1, <2>2, <2>3
<1>14. \A i \in D : \E k \in D : from[k] = i
  <2> TAKE i \in D
  <2>1. place[i] \in D /\ from[place[i]] \in D /\ place[from[place[i]]] = place[i]
    BY <1>2, <1>7
  <2>2. from[place[i]] = i
    <3> HIDE DEF place
    <3> QED BY <1>4, <2>1
  <2> QED
    BY <2>1, <2>2
<1>15. \A k \in D : ByRank(s, rank)[k] = s[from[k]]
  BY <1>9
<1>16. IsRanked(s, rank, ByRank(s, rank))
  BY <1>8, <1>13, <1>14, <1>15, Zenon DEF IsRanked
<1> QED
  BY <1>12, <1>16

-----------------------------------------------------------------------------
(* Segmentation *)

\* Every event that can be stored
ObservedEvents ==
  {[token |-> kind.token, object |-> kind.object, boundary |-> kind.boundary, dur |-> kind.dur, at |-> moment] :
     kind \in EventKinds, moment \in Int}

\* A stream of events, in the order of their times
IsStream(s) ==
  /\ s \in Seq(ObservedEvents)
  /\ \A j, k \in DOMAIN s : j < k => s[j].at <= s[k].at

\* What is known of each of its events
LEMMA EventsAre ==
  ASSUME NEW s, s \in Seq(ObservedEvents)
  PROVE  /\ Len(s) \in Nat /\ DOMAIN s = 1..Len(s)
         /\ \A k \in 1..Len(s) : s[k].at \in Int /\ s[k].boundary \in BOOLEAN /\ s[k].dur \in Nat \cup {None}
<1>1. Len(s) \in Nat /\ DOMAIN s = 1..Len(s)
  BY LenProperties
<1>2. \A e \in ObservedEvents : e.at \in Int /\ e.boundary \in BOOLEAN /\ e.dur \in Nat \cup {None}
  BY KindsAssumption DEF ObservedEvents
<1>3. \A k \in 1..Len(s) : s[k] \in ObservedEvents
  BY <1>1, Elements
<1> QED
  BY <1>1, <1>2, <1>3

\* The stored events are observed ones.
Stored == arrived \in Seq(ObservedEvents)

\* The sort makes a stream of them, whatever the order they were stored in.
LEMMA SortedIsStream ==
  ASSUME Stored
  PROVE  IsStream(SortedEvents) /\ Len(SortedEvents) = Len(arrived)
<1> DEFINE ranks == [k \in DOMAIN arrived |-> arrived[k].at]
           sorted == ByRank(arrived, ranks)
<1>1. \A k \in DOMAIN arrived : ranks[k] \in Int
  BY EventsAre DEF Stored
<1>2. /\ sorted \in Seq(ObservedEvents) /\ Len(sorted) = Len(arrived) /\ DOMAIN sorted = DOMAIN arrived
      /\ \E from \in [DOMAIN arrived -> DOMAIN arrived] :
           /\ \A k \in DOMAIN arrived : sorted[k] = arrived[from[k]]
           /\ \A k, l \in DOMAIN arrived : k < l => ranks[from[k]] <= ranks[from[l]]
  <2> HIDE DEF ranks
  <2>1. /\ sorted \in Seq(ObservedEvents) /\ Len(sorted) = Len(arrived) /\ DOMAIN sorted = DOMAIN arrived
        /\ IsRanked(arrived, ranks, sorted)
    BY <1>1, ByRankIs DEF Stored
  <2> HIDE DEF sorted
  <2> QED BY <2>1 DEF IsRanked
<1>3. SortedEvents = SubSeq(sorted, 1, Len(arrived))
  BY DEF SortedEvents
<1>4. \A k, l \in DOMAIN arrived : k < l => sorted[k].at <= sorted[l].at
  <2>1. PICK from \in [DOMAIN arrived -> DOMAIN arrived] :
           /\ \A k \in DOMAIN arrived : sorted[k] = arrived[from[k]]
           /\ \A k, l \in DOMAIN arrived : k < l => ranks[from[k]] <= ranks[from[l]]
    BY <1>2
  <2>2. \A k \in DOMAIN arrived : sorted[k].at = ranks[from[k]]
    <3> HIDE DEF sorted
    <3> QED BY <2>1
  <2> HIDE DEF sorted, ranks
  <2> QED BY <2>1, <2>2
<1> HIDE DEF sorted, ranks
<1>5. SubSeq(sorted, 1, Len(arrived)) = sorted
  BY <1>2 DEF Stored
<1> QED
  BY <1>2, <1>3, <1>4, <1>5 DEF IsStream

\* Where the loop may stand
ObjectsOf(s) == {s[k].object : k \in DOMAIN s} \cup {None}
OpenStates(s) ==
  [episodes : Seq(Seq(Nat)), current : Seq(Nat), last : Int \cup {None}, family : ObjectsOf(s)]

\* What flushing does to the episodes
FlushedInto(s, open) == IF BuildsEpisode(s, open.current) THEN Append(open.episodes, open.current) ELSE open.episodes

\* What flushing leaves open and what it adds
LEMMA FlushIs ==
  ASSUME NEW s, NEW open \in OpenStates(s)
  PROVE  /\ Flush(s, open) \in OpenStates(s)
         /\ Flush(s, open).episodes = FlushedInto(s, open) /\ Flush(s, open).current = <<>>
         /\ Flush(s, open).last = open.last /\ Flush(s, open).family = open.family
<1>1. /\ open.episodes \in Seq(Seq(Nat)) /\ open.current \in Seq(Nat) /\ open.last \in Int \cup {None}
      /\ open.family \in ObjectsOf(s)
      /\ open = [episodes |-> open.episodes, current |-> open.current, last |-> open.last, family |-> open.family]
  BY DEF OpenStates
<1>2. Append(open.episodes, open.current) \in Seq(Seq(Nat)) /\ <<>> \in Seq(Nat)
  BY <1>1
<1>3. FlushedInto(s, open) \in Seq(Seq(Nat))
  BY <1>1, <1>2 DEF FlushedInto
<1>4. Flush(s, open) = [open EXCEPT !.episodes = FlushedInto(s, open), !.current = <<>>]
  BY <1>1 DEF Flush, FlushedInto
<1> QED
  BY <1>1, <1>2, <1>3, <1>4 DEF OpenStates

\* An empty run builds nothing.
LEMMA NothingBuildsNothing ==
  ASSUME NEW s, NEW open \in OpenStates(s), open.current = <<>>
  PROVE  FlushedInto(s, open) = open.episodes
<1>1. ~BuildsEpisode(s, <<>>)
  <2>1. Len(<<>>) = 0
    OBVIOUS
  <2> QED
    BY <2>1, SizesAssumption DEF BuildsEpisode
<1> QED
  BY <1>1 DEF FlushedInto

\* One turn of the loop: whether it closes what is open, what it leaves of it, and what it adds
Closes(s, open, e) == GapCloses(open, e) \/ RestartCloses(s, open, e) \/ FamilyCloses(open, e)
Takes(s, open, k, next) ==
  LET e == s[k] IN
  /\ next \in OpenStates(s)
  /\ e.boundary => /\ next.episodes = FlushedInto(s, open) /\ next.current = <<>>
                   /\ next.last = None /\ next.family = None
  /\ ~e.boundary =>
       /\ next.last = e.at
       /\ Closes(s, open, e) => next.episodes = FlushedInto(s, open) /\ next.current = <<k>>
       /\ ~Closes(s, open, e) => next.episodes = open.episodes /\ next.current = Append(open.current, k)
       /\ next.family = IF e.object # None THEN e.object
                        ELSE IF GapCloses(open, e) \/ RestartCloses(s, open, e) THEN None ELSE open.family

\* What one turn of the loop does, case by case
LEMMA TakeEventIs ==
  ASSUME NEW s, s \in Seq(ObservedEvents), NEW open \in OpenStates(s), NEW k \in 1..Len(s)
  PROVE  Takes(s, open, k, TakeEvent(s, open, k))
<1> DEFINE e == s[k]
           gapped == IF GapCloses(open, e) THEN [Flush(s, open) EXCEPT !.family = None] ELSE open
           restarted == IF RestartCloses(s, gapped, e) THEN [Flush(s, gapped) EXCEPT !.family = None] ELSE gapped
           switched == IF FamilyCloses(restarted, e) THEN Flush(s, restarted) ELSE restarted
           added == [switched EXCEPT !.current = Append(@, k), !.last = e.at,
                           !.family = IF e.object # None THEN e.object ELSE @]
           bounded == [Flush(s, open) EXCEPT !.last = None, !.family = None]
<1>1. TakeEvent(s, open, k) = IF e.boundary THEN bounded ELSE added
  BY DEF TakeEvent
<1>2. e.at \in Int /\ e.boundary \in BOOLEAN /\ e.object \in ObjectsOf(s) /\ None \in ObjectsOf(s) /\ k \in Nat
  <2>1. k \in DOMAIN s /\ k \in Nat
    BY EventsAre
  <2> QED
    BY <2>1, EventsAre DEF ObjectsOf
<1> HIDE DEF e
<1>3. ASSUME NEW o \in OpenStates(s), o.current = <<>>
      PROVE  ~RestartCloses(s, o, e)
  <2>1. Len(o.current) = 0
    BY <1>3
  <2> QED
    BY <2>1, SizesAssumption DEF RestartCloses
<1>4. ASSUME NEW o \in OpenStates(s)
      PROVE  /\ [Flush(s, o) EXCEPT !.family = None] \in OpenStates(s)
             /\ [Flush(s, o) EXCEPT !.family = None].episodes = FlushedInto(s, o)
             /\ [Flush(s, o) EXCEPT !.family = None].current = <<>>
             /\ [Flush(s, o) EXCEPT !.family = None].family = None
  <2>1. /\ Flush(s, o) \in OpenStates(s) /\ Flush(s, o).episodes = FlushedInto(s, o) /\ Flush(s, o).current = <<>>
    BY FlushIs
  <2> QED
    BY <2>1, <1>2 DEF OpenStates
<1>5. CASE e.boundary
  <2>1. /\ Flush(s, open) \in OpenStates(s) /\ Flush(s, open).episodes = FlushedInto(s, open)
        /\ Flush(s, open).current = <<>>
    BY FlushIs
  <2>2. /\ bounded \in OpenStates(s) /\ bounded.episodes = FlushedInto(s, open) /\ bounded.current = <<>>
        /\ bounded.last = None /\ bounded.family = None
    BY <2>1, <1>2 DEF OpenStates
  <2> HIDE DEF bounded
  <2> QED
    BY <1>1, <1>5, <2>2 DEF Takes, e
<1>6. CASE ~e.boundary
  <2>1. /\ switched \in OpenStates(s)
        /\ switched.episodes = IF Closes(s, open, e) THEN FlushedInto(s, open) ELSE open.episodes
        /\ switched.current = IF Closes(s, open, e) THEN <<>> ELSE open.current
        /\ switched.family = IF GapCloses(open, e) \/ RestartCloses(s, open, e) THEN None ELSE open.family
    <3>1. CASE GapCloses(open, e)
      <4>1. /\ gapped \in OpenStates(s) /\ gapped.episodes = FlushedInto(s, open) /\ gapped.current = <<>>
            /\ gapped.family = None
        BY <3>1, <1>4
      <4> HIDE DEF gapped
      <4>2. restarted = gapped
        BY <4>1, <1>3
      <4> HIDE DEF restarted
      <4>3. switched = gapped
        BY <4>1, <4>2 DEF FamilyCloses
      <4> HIDE DEF switched
      <4> QED BY <3>1, <4>1, <4>3 DEF Closes
    <3>2. CASE ~GapCloses(open, e) /\ RestartCloses(s, open, e)
      <4>1. gapped = open
        BY <3>2
      <4> HIDE DEF gapped
      <4>2. /\ restarted \in OpenStates(s) /\ restarted.episodes = FlushedInto(s, open) /\ restarted.current = <<>>
            /\ restarted.family = None
        BY <3>2, <4>1, <1>4
      <4> HIDE DEF restarted
      <4>3. switched = restarted
        BY <4>2 DEF FamilyCloses
      <4> HIDE DEF switched
      <4> QED BY <3>2, <4>2, <4>3 DEF Closes
    <3>3. CASE ~GapCloses(open, e) /\ ~RestartCloses(s, open, e)
      <4>1. gapped = open
        BY <3>3
      <4> HIDE DEF gapped
      <4>2. restarted = open
        BY <3>3, <4>1
      <4> HIDE DEF restarted
      <4>3. switched = IF FamilyCloses(open, e) THEN Flush(s, open) ELSE open
        BY <4>2
      <4> HIDE DEF switched
      <4>4. /\ Flush(s, open) \in OpenStates(s) /\ Flush(s, open).episodes = FlushedInto(s, open)
            /\ Flush(s, open).current = <<>> /\ Flush(s, open).family = open.family
        BY FlushIs
      <4> QED BY <3>3, <4>3, <4>4 DEF Closes
    <3> QED BY <3>1, <3>2, <3>3
  <2> HIDE DEF switched
  <2>2. /\ added \in OpenStates(s) /\ added.episodes = switched.episodes
        /\ added.current = Append(switched.current, k) /\ added.last = e.at
        /\ added.family = IF e.object # None THEN e.object ELSE switched.family
    <3>1. /\ switched.current \in Seq(Nat) /\ switched.family \in ObjectsOf(s)
          /\ Append(switched.current, k) \in Seq(Nat)
      BY <2>1, <1>2 DEF OpenStates
    <3> QED
      BY <2>1, <3>1, <1>2 DEF OpenStates
  <2>3. Append(<<>>, k) = <<k>>
    OBVIOUS
  <2> HIDE DEF added
  <2>4. TakeEvent(s, open, k) = added
    BY <1>1, <1>6
  <2> QED
    BY <1>6, <2>1, <2>2, <2>3, <2>4 DEF Takes, e
<1> QED
  BY <1>2, <1>5, <1>6
\* The loop of segmentEpisodes, event by event
Opening(c, s, m) ==
  c = [n \in 0..m |-> IF n = 0 THEN NothingOpen ELSE TakeEvent(s, c[n - 1], n)]

\* The recursive function of SegmentEpisodes is defined by its equation.
LEMMA OpeningDefined ==
  ASSUME NEW s, NEW m \in Nat
  PROVE  \E c : Opening(c, s, m)
<1> USE DEF Opening
<1> DEFINE Fits(c, k) == Opening(c, s, k)
           Defined == {k \in Nat : \E c : Fits(c, k)}
<1>1. 0 \in Defined
  <2> DEFINE c == [n \in 0..0 |-> NothingOpen]
  <2>1. \A n \in 0..0 : n = 0
    OBVIOUS
  <2>2. Fits(c, 0)
    BY <2>1, Zenon
  <2> QED
    BY <2>2
<1>2. ASSUME NEW k \in Nat, k \in Defined PROVE k + 1 \in Defined
  <2>1. PICK c : Fits(c, k)
    BY <1>2
  <2> DEFINE next == TakeEvent(s, c[k], k + 1)
             d == [n \in 0..(k + 1) |-> IF n = k + 1 THEN next ELSE c[n]]
  <2>2. ASSUME NEW n \in 0..(k + 1)
        PROVE  d[n] = IF n = 0 THEN NothingOpen ELSE TakeEvent(s, d[n - 1], n)
    <3>1. CASE n = k + 1
      <4>1. n # 0 /\ d[n] = next /\ d[n - 1] = c[k] /\ k \in 0..(k + 1) /\ k # k + 1 /\ n - 1 = k
        BY <3>1
      <4> QED
        BY <3>1, <4>1
    <3>2. CASE n = 0
      <4>1. n # k + 1 /\ d[n] = c[n] /\ n \in 0..k
        BY <3>2
      <4> QED
        BY <2>1, <3>2, <4>1
    <3>3. CASE n # k + 1 /\ n # 0
      <4>1. d[n] = c[n] /\ d[n - 1] = c[n - 1] /\ n \in 0..k
        BY <3>3
      <4> QED
        BY <2>1, <3>3, <4>1
    <3> QED
      BY <3>1, <3>2, <3>3
  <2>3. Fits(d, k + 1)
    <3> DEFINE e == [n \in 0..(k + 1) |-> IF n = 0 THEN NothingOpen ELSE TakeEvent(s, d[n - 1], n)]
    <3>1. \A n \in 0..(k + 1) : d[n] = e[n]
      BY <2>2
    <3>2. d = [n \in 0..(k + 1) |-> d[n]]
      OBVIOUS
    <3> HIDE DEF d
    <3>3. d = e
      BY <3>1, <3>2
    <3> QED
      BY <3>3
  <2> HIDE DEF d, Fits
  <2> QED
    BY <2>3, k + 1 \in Nat
<1>3. Nat \subseteq Defined
  <2> HIDE DEF Defined
  <2> QED BY <1>1, <1>2, NatSetInduction
<1> QED
  BY <1>3


\* What the loop runs through: an episode may only be added to the episodes.
Runs(s, loop) ==
  /\ loop[0] = NothingOpen
  /\ \A k \in 0..Len(s) : loop[k] \in OpenStates(s)
  /\ \A k \in 1..Len(s) : Takes(s, loop[k - 1], k, loop[k])

\* The loop of SegmentEpisodes is one turn after the other.
LEMMA LoopIs ==
  ASSUME NEW s, s \in Seq(ObservedEvents)
  PROVE  \E loop : Runs(s, loop) /\ SegmentEpisodes(s) = FlushedInto(s, loop[Len(s)])
<1> DEFINE loop == CHOOSE c : Opening(c, s, Len(s))
<1>0. Len(s) \in Nat
  BY EventsAre
<1>1. Opening(loop, s, Len(s))
  BY <1>0, OpeningDefined
<1>2. SegmentEpisodes(s) = Flush(s, loop[Len(s)]).episodes
  BY Zenon DEF SegmentEpisodes, Opening
<1> HIDE DEF loop
<1>3. \A n \in 0..Len(s) : loop[n] = IF n = 0 THEN NothingOpen ELSE TakeEvent(s, loop[n - 1], n)
  BY <1>1, Zenon DEF Opening
<1>4. loop[0] = NothingOpen /\ \A n \in 1..Len(s) : loop[n] = TakeEvent(s, loop[n - 1], n)
  BY <1>0, <1>3
<1> DEFINE Typed == {n \in Nat : n <= Len(s) => loop[n] \in OpenStates(s)}
<1>5. 0 \in Typed
  <2>1. <<>> \in Seq(Seq(Nat)) /\ <<>> \in Seq(Nat) /\ None \in ObjectsOf(s)
    BY DEF ObjectsOf
  <2>2. NothingOpen \in OpenStates(s)
    BY <2>1 DEF NothingOpen, OpenStates
  <2> QED
    BY <1>4, <2>2
<1>6. ASSUME NEW n \in Nat, n \in Typed PROVE n + 1 \in Typed
  <2> SUFFICES ASSUME n + 1 <= Len(s) PROVE loop[n + 1] \in OpenStates(s)
    OBVIOUS
  <2>1. n + 1 \in 1..Len(s) /\ (n + 1) - 1 = n /\ n <= Len(s)
    BY <1>0
  <2>2. loop[n] \in OpenStates(s) /\ loop[n + 1] = TakeEvent(s, loop[n], n + 1)
    BY <1>4, <1>6, <2>1
  <2>3. Takes(s, loop[n], n + 1, TakeEvent(s, loop[n], n + 1))
    BY <2>1, <2>2, TakeEventIs
  <2> QED
    BY <2>2, <2>3 DEF Takes
<1>7. \A n \in 0..Len(s) : loop[n] \in OpenStates(s)
  <2>1. Nat \subseteq Typed
    <3> HIDE DEF Typed
    <3> QED BY <1>5, <1>6, NatSetInduction
  <2> QED BY <2>1
<1>8. ASSUME NEW k \in 1..Len(s) PROVE Takes(s, loop[k - 1], k, loop[k])
  <2>1. k - 1 \in 0..Len(s)
    BY <1>0
  <2> QED
    BY <1>4, <1>7, <2>1, TakeEventIs
<1>9. Len(s) \in 0..Len(s)
  BY <1>0
<1>10. SegmentEpisodes(s) = FlushedInto(s, loop[Len(s)])
  BY <1>2, <1>7, <1>9, FlushIs
<1> QED
  BY <1>4, <1>7, <1>8, <1>10 DEF Runs

\* A run of events without anything between them or any cut inside, up to the k-th
Unbroken(s, ep, k) ==
  /\ ep \in Seq(1..k) /\ Len(ep) <= k
  /\ \A j \in 1..Len(ep) : ep[j] = ep[1] + j - 1 /\ ~s[ep[j]].boundary
  /\ \A j \in 1..Len(ep) : j > 1 => ~HardCut(s, ep[j] - 1)
  /\ splitting => \A j \in MinEpisodeEvents + 1..Len(ep) : s[ep[j]].token # s[ep[1]].token

\* The invariant of the loop: what is open is unbroken and ends at the last event, as does every episode.
Sound(s, open, k) ==
  /\ \A n \in 1..Len(open.episodes) : /\ Unbroken(s, open.episodes[n], k)
                                      /\ BuildsEpisode(s, open.episodes[n])
  /\ Unbroken(s, open.current, k)
  /\ k > 0 /\ ~s[k].boundary => /\ open.last = s[k].at /\ Len(open.current) > 0
                                /\ open.current[Len(open.current)] = k
  /\ k = 0 \/ s[k].boundary => open.last = None /\ open.current = <<>> /\ open.family = None

\* What is unbroken stays so.
LEMMA StaysUnbroken ==
  ASSUME NEW s, NEW k \in Nat, NEW ep, Unbroken(s, ep, k)
  PROVE  Unbroken(s, ep, k + 1)
<1>1. 1..k \subseteq 1..k + 1
  OBVIOUS
<1>2. ep \in Seq(1..k + 1) /\ Len(ep) <= k + 1
  <2>1. ep \in Seq(1..k) /\ Len(ep) <= k /\ Len(ep) \in Nat
    BY DEF Unbroken
  <2> QED BY <1>1, <2>1, WiderSeq
<1> QED
  BY <1>2 DEF Unbroken

\* A run of one event
LEMMA OneIsUnbroken ==
  ASSUME NEW s, NEW k \in Nat \ {0}, ~s[k].boundary
  PROVE  Unbroken(s, <<k>>, k)
<1>1. <<k>> \in Seq(1..k) /\ Len(<<k>>) = 1 /\ <<k>>[1] = k
  <2>1. k \in 1..k
    OBVIOUS
  <2> QED BY <2>1
<1>2. MinEpisodeEvents + 1..1 = {}
  BY SizesAssumption
<1>3. \A j \in 1..1 : j = 1
  OBVIOUS
<1> DEFINE one == <<k>>
<1>4. one \in Seq(1..k) /\ Len(one) = 1 /\ one[1] = k
  BY <1>1
<1> HIDE DEF one
<1>5. Unbroken(s, one, k)
  BY <1>2, <1>3, <1>4 DEF Unbroken
<1> QED
  BY <1>5 DEF one

\* Nothing is unbroken.
LEMMA NothingIsUnbroken ==
  ASSUME NEW s, NEW k \in Nat
  PROVE  Unbroken(s, <<>>, k)
<1> DEFINE none == <<>>
<1>1. none \in Seq(1..k) /\ Len(none) = 0
  OBVIOUS
<1>2. MinEpisodeEvents + 1..0 = {}
  BY SizesAssumption
<1> HIDE DEF none
<1>3. Unbroken(s, none, k)
  BY <1>1, <1>2 DEF Unbroken
<1> QED
  BY <1>3 DEF none

\* The next event joins an unbroken run that it neither cuts off nor starts again.
LEMMA JoinedIsUnbroken ==
  ASSUME NEW s, NEW k \in Nat, NEW ep, Unbroken(s, ep, k), Len(ep) > 0, ep[Len(ep)] = k,
         ~s[k + 1].boundary, ~HardCut(s, k),
         ~(splitting /\ Len(ep) >= MinEpisodeEvents /\ s[k + 1].token = s[ep[1]].token)
  PROVE  Unbroken(s, Append(ep, k + 1), k + 1)
<1> DEFINE longer == Append(ep, k + 1)
<1>1. ep \in Seq(1..k) /\ Len(ep) <= k /\ Len(ep) \in Nat
  BY DEF Unbroken
<1>2. ep \in Seq(1..k + 1)
  <2>1. 1..k \subseteq 1..k + 1
    OBVIOUS
  <2> QED BY <1>1, <2>1, WiderSeq
<1>3. /\ longer \in Seq(1..k + 1) /\ Len(longer) = Len(ep) + 1
      /\ \A j \in 1..Len(ep) : longer[j] = ep[j]
      /\ longer[Len(ep) + 1] = k + 1
  BY <1>1, <1>2
<1> HIDE DEF longer
<1>4. \A j \in 1..Len(longer) : j \in 1..Len(ep) \/ j = Len(ep) + 1
  BY <1>1, <1>3
<1>5. ep[1] \in Nat /\ longer[1] = ep[1] /\ k = ep[1] + Len(ep) - 1
  <2>1. 1 \in 1..Len(ep) /\ Len(ep) \in 1..Len(ep)
    BY <1>1
  <2>2. ep[1] \in 1..k
    BY <1>1, <2>1, Elements
  <2>3. \A j \in 1..Len(ep) : ep[j] = ep[1] + j - 1
    BY DEF Unbroken
  <2>4. ep[Len(ep)] = ep[1] + Len(ep) - 1
    BY <2>1, <2>3
  <2>5. longer[1] = ep[1]
    BY <1>3, <2>1
  <2> QED BY <2>2, <2>4, <2>5
<1>6. \A j \in 1..Len(longer) : longer[j] = longer[1] + j - 1 /\ ~s[longer[j]].boundary
  <2> TAKE j \in 1..Len(longer)
  <2>1. CASE j \in 1..Len(ep)
    BY <1>3, <1>5, <2>1 DEF Unbroken
  <2>2. CASE j = Len(ep) + 1
    <3>1. longer[j] = k + 1
      BY <1>3, <2>2
    <3>2. k + 1 = ep[1] + j - 1
      BY <1>1, <1>5, <2>2
    <3> QED BY <1>5, <3>1, <3>2
  <2> QED BY <1>4, <2>1, <2>2
<1>7. \A j \in 1..Len(longer) : j > 1 => ~HardCut(s, longer[j] - 1)
  <2> TAKE j \in 1..Len(longer)
  <2>1. CASE j \in 1..Len(ep)
    BY <1>3, <2>1 DEF Unbroken
  <2>2. CASE j = Len(ep) + 1
    <3>1. longer[j] - 1 = k
      BY <1>3, <2>2
    <3> QED BY <3>1
  <2> QED BY <1>4, <2>1, <2>2
<1>8. ASSUME splitting, NEW j \in MinEpisodeEvents + 1..Len(longer) PROVE s[longer[j]].token # s[longer[1]].token
  <2>0. MinEpisodeEvents \in Nat \ {0}
    BY SizesAssumption
  <2>1. j \in 1..Len(longer)
    BY <2>0, <1>1, <1>3
  <2>2. CASE j \in 1..Len(ep)
    <3>1. j \in MinEpisodeEvents + 1..Len(ep)
      BY <2>0, <2>2
    <3> QED BY <1>3, <1>5, <1>8, <2>2, <3>1 DEF Unbroken
  <2>3. CASE j = Len(ep) + 1
    <3>1. Len(ep) >= MinEpisodeEvents
      BY <2>0, <2>3, <1>1
    <3> QED BY <1>3, <1>5, <1>8, <2>3, <3>1
  <2> QED BY <1>4, <2>1, <2>2, <2>3
<1>9. Len(longer) <= k + 1
  BY <1>1, <1>3
<1>10. Unbroken(s, longer, k + 1)
  BY <1>3, <1>6, <1>7, <1>8, <1>9 DEF Unbroken
<1> QED
  BY <1>10 DEF longer

\* What does not close what is open is not cut off from the event before.
LEMMA NoGapNoCut ==
  ASSUME NEW s, s \in Seq(ObservedEvents), NEW open, NEW k \in 1..Len(s), k + 1 \in 1..Len(s),
         ~s[k].boundary, ~s[k + 1].boundary, open.last = s[k].at
  PROVE  GapCloses(open, s[k + 1]) <=> HardCut(s, k)
<1>1. s[k].at \in Int /\ s[k].at # None
  BY EventsAre, TimesAssumption
<1> QED
  BY <1>1 DEF GapCloses, HardCut

\* Every turn of the loop keeps its invariant.
LEMMA LoopIsSound ==
  ASSUME NEW s, s \in Seq(ObservedEvents), NEW k \in Nat, k + 1 \in 1..Len(s), NEW open \in OpenStates(s), NEW next,
         Takes(s, open, k + 1, next), Sound(s, open, k)
  PROVE  Sound(s, next, k + 1)
<1> DEFINE e == s[k + 1]
<1>0. /\ open.episodes \in Seq(Seq(Nat)) /\ open.current \in Seq(Nat) /\ Len(open.episodes) \in Nat
      /\ Len(open.current) \in Nat
      /\ next.episodes \in Seq(Seq(Nat)) /\ next.current \in Seq(Nat)
  BY DEF OpenStates, Takes
<1>1. \A n \in 1..Len(open.episodes) : Unbroken(s, open.episodes[n], k + 1) /\ BuildsEpisode(s, open.episodes[n])
  BY StaysUnbroken DEF Sound
<1>2. Unbroken(s, open.current, k + 1)
  BY StaysUnbroken DEF Sound
<1>3. ASSUME NEW n \in 1..Len(FlushedInto(s, open))
      PROVE  /\ Unbroken(s, FlushedInto(s, open)[n], k + 1)
             /\ BuildsEpisode(s, FlushedInto(s, open)[n])
  <2>1. CASE BuildsEpisode(s, open.current)
    <3>1. FlushedInto(s, open) = Append(open.episodes, open.current)
      BY <2>1 DEF FlushedInto
    <3>2. n \in 1..Len(open.episodes) \/ n = Len(open.episodes) + 1
      BY <1>0, <3>1
    <3>3. CASE n \in 1..Len(open.episodes)
      <4>1. FlushedInto(s, open)[n] = open.episodes[n]
        BY <1>0, <3>1, <3>3
      <4> QED BY <1>1, <3>3, <4>1
    <3>4. CASE n = Len(open.episodes) + 1
      <4>1. FlushedInto(s, open)[n] = open.current
        BY <1>0, <3>1, <3>4
      <4> QED BY <1>2, <2>1, <4>1
    <3> QED BY <3>2, <3>3, <3>4
  <2>2. CASE ~BuildsEpisode(s, open.current)
    BY <1>1, <2>2 DEF FlushedInto
  <2> QED BY <2>1, <2>2
<1>4. \A n \in 1..Len(next.episodes) : Unbroken(s, next.episodes[n], k + 1) /\ BuildsEpisode(s, next.episodes[n])
  <2>1. next.episodes = FlushedInto(s, open) \/ next.episodes = open.episodes
    BY DEF Takes
  <2> QED BY <1>1, <1>3, <2>1
<1>5. CASE e.boundary
  <2>1. next.current = <<>> /\ next.last = None /\ next.family = None
    BY <1>5 DEF Takes
  <2> QED BY <1>4, <1>5, <2>1, NothingIsUnbroken DEF Sound
<1>6. CASE ~e.boundary
  <2>1. next.last = e.at
    BY <1>6 DEF Takes
  <2>2. CASE Closes(s, open, e)
    <3>1. next.current = <<k + 1>> /\ Len(<<k + 1>>) = 1 /\ <<k + 1>>[1] = k + 1
      BY <1>6, <2>2 DEF Takes
    <3>2. Unbroken(s, <<k + 1>>, k + 1)
      BY <1>6, OneIsUnbroken, k + 1 \in Nat \ {0}
    <3> QED BY <1>4, <1>6, <2>1, <3>1, <3>2 DEF Sound
  <2>3. CASE ~Closes(s, open, e)
    <3>1. next.current = Append(open.current, k + 1)
      BY <1>6, <2>3 DEF Takes
    <3>2. Len(next.current) = Len(open.current) + 1 /\ next.current[Len(open.current) + 1] = k + 1
      BY <1>0, <3>1
    <3>3. Unbroken(s, next.current, k + 1)
      <4>1. CASE k = 0 \/ s[k].boundary
        <5>1. open.current = <<>>
          BY <4>1 DEF Sound
        <5>2. next.current = <<k + 1>>
          BY <3>1, <5>1
        <5> QED BY <1>6, <5>2, OneIsUnbroken, k + 1 \in Nat \ {0}
      <4>2. CASE k > 0 /\ ~s[k].boundary
        <5>1. open.last = s[k].at /\ Len(open.current) > 0 /\ open.current[Len(open.current)] = k
          BY <4>2 DEF Sound
        <5>2. k \in 1..Len(s)
          BY <4>2, EventsAre
        <5>3. ~HardCut(s, k)
          BY <1>6, <2>3, <4>2, <5>1, <5>2, NoGapNoCut DEF Closes
        <5>4. ~(splitting /\ Len(open.current) >= MinEpisodeEvents /\ e.token = s[open.current[1]].token)
          BY <2>3 DEF Closes, RestartCloses
        <5>5. Unbroken(s, open.current, k)
          BY DEF Sound
        <5> QED BY <1>6, <3>1, <5>1, <5>3, <5>4, <5>5, JoinedIsUnbroken
      <4> QED BY <4>1, <4>2
    <3> QED BY <1>0, <1>4, <1>6, <2>1, <3>2, <3>3 DEF Sound
  <2> QED BY <2>2, <2>3
<1> QED
  BY <1>5, <1>6

\* No time is invented: what an unbroken run counts is what was recorded in it, the time between its events
\* and at most one cap.
LEMMA NoTimeInvented ==
  ASSUME NEW s, IsStream(s), NEW k \in 0..Len(s), NEW ep, Unbroken(s, ep, k), Len(ep) > 0
  PROVE  EpisodeTime(s, ep) <= SumOf([j \in DOMAIN ep |-> Spent(s[ep[j]])])
                                 + s[ep[Len(ep)]].at - s[ep[1]].at + DurationCap
<1> DEFINE m == Len(ep)
           active == [n \in DOMAIN ep |-> ActiveTime(s, ep[n])]
           spent == [j \in DOMAIN ep |-> Spent(s[ep[j]])]
<1>0. /\ Len(s) \in Nat /\ DOMAIN s = 1..Len(s)
      /\ \A i \in 1..Len(s) : s[i].at \in Int /\ s[i].dur \in Nat \cup {None}
  BY EventsAre DEF IsStream
<1>1. ep \in Seq(1..k) /\ m \in Nat \ {0} /\ DOMAIN ep = 1..m /\ k \in Nat /\ k <= Len(s)
  <2>1. ep \in Seq(1..k)
    BY DEF Unbroken
  <2> QED BY <2>1, <1>0, LenProperties
<1> HIDE DEF m
<1>2. \A j \in 1..m : ep[j] \in 1..Len(s)
  <2>1. \A j \in 1..m : ep[j] \in 1..k
    BY <1>1, Elements
  <2> QED BY <1>0, <1>1, <2>1
<1>3. \A j \in 1..m : j + 1 \in 1..m => ep[j + 1] = ep[j] + 1
  <2>1. \A j \in 1..m : ep[j] = ep[1] + j - 1
    BY DEF Unbroken, m
  <2>2. ep[1] \in Nat
    BY <1>0, <1>1, <1>2
  <2> QED BY <1>1, <2>1, <2>2
<1>4. \A j \in 1..m : j + 1 \in 1..m => s[ep[j]].at <= s[ep[j + 1]].at
  <2> SUFFICES ASSUME NEW j \in 1..m, j + 1 \in 1..m PROVE s[ep[j]].at <= s[ep[j + 1]].at
    OBVIOUS
  <2>1. ep[j] \in DOMAIN s /\ ep[j + 1] \in DOMAIN s /\ ep[j] < ep[j + 1]
    BY <1>0, <1>2, <1>3
  <2> QED BY <2>1 DEF IsStream
<1>5. ASSUME NEW j \in 1..m
      PROVE  /\ active[j] \in Int /\ spent[j] \in Int
             /\ active[j] <= spent[j] + DurationCap
             /\ j + 1 \in 1..m => active[j] <= spent[j] + s[ep[j + 1]].at - s[ep[j]].at
  <2>1. active[j] = ActiveTime(s, ep[j]) /\ spent[j] = Spent(s[ep[j]])
    BY <1>1
  <2>2. DurationCap \in Nat /\ TrailingTime \in 0..DurationCap /\ None \notin Int
    BY TimesAssumption
  <2> DEFINE i == ep[j]
             now == s[i].at
             rec == s[i].dur
  <2>3. i \in 1..Len(s) /\ now \in Int /\ rec \in Nat \cup {None}
    BY <1>0, <1>2
  <2>4. CASE rec # None
    <3>1. active[j] = rec /\ spent[j] = rec /\ rec \in Nat
      BY <2>1, <2>3, <2>4 DEF ActiveTime, Spent
    <3>2. j + 1 \in 1..m => s[ep[j + 1]].at \in Int /\ now <= s[ep[j + 1]].at
      BY <1>0, <1>2, <1>4
    <3> HIDE DEF active, spent, now, rec
    <3>3. j + 1 \in 1..m => active[j] <= spent[j] + s[ep[j + 1]].at - now
      BY <2>3, <3>1, <3>2
    <3> QED BY <2>2, <2>3, <3>1, <3>3 DEF now
  <2>5. CASE rec = None /\ i = Len(s)
    <3>1. active[j] = TrailingTime /\ spent[j] = 0
      BY <2>1, <2>5 DEF ActiveTime, Spent
    <3>2. j + 1 \notin 1..m
      BY <1>0, <1>2, <1>3, <2>3, <2>5
    <3> HIDE DEF active, spent, now, rec
    <3> QED BY <2>2, <3>1, <3>2
  <2>6. CASE rec = None /\ i # Len(s)
    <3> DEFINE gap == s[i + 1].at - now
    <3>0. i + 1 \in 1..Len(s)
      BY <1>0, <2>3, <2>6
    <3>1. gap \in Int
      BY <1>0, <2>3, <3>0
    <3>2. active[j] = (IF gap < DurationCap THEN gap ELSE DurationCap) /\ spent[j] = 0
      BY <2>1, <2>6 DEF ActiveTime, Spent
    <3>3. j + 1 \in 1..m => ep[j + 1] = i + 1
      BY <1>3
    <3>4. j + 1 \in 1..m => s[ep[j + 1]].at - now = gap
      BY <3>3
    <3>5. j + 1 \in 1..m => s[ep[j + 1]].at \in Int
      BY <1>0, <1>2
    <3> HIDE DEF active, spent, rec, gap
    <3>6. active[j] \in Int /\ spent[j] \in Int /\ active[j] <= spent[j] + DurationCap /\ active[j] <= gap
      BY <2>2, <3>1, <3>2
    <3>7. j + 1 \in 1..m => active[j] <= spent[j] + s[ep[j + 1]].at - now
      BY <3>1, <3>2, <3>4, <3>5, <3>6, <2>3
    <3> QED BY <3>6, <3>7
  <2> QED BY <2>3, <2>4, <2>5, <2>6
<1>6. Len(active) = m /\ Len(spent) = m
  <2>1. active \in [1..m -> Int] /\ spent \in [1..m -> Int]
    <3>1. \A j \in 1..m : active[j] \in Int /\ spent[j] \in Int
      BY <1>5
    <3>2. active = [j \in 1..m |-> active[j]] /\ spent = [j \in 1..m |-> spent[j]]
      BY <1>1
    <3> HIDE DEF active, spent
    <3> QED BY <3>1, <3>2
  <2> HIDE DEF active, spent
  <2> QED BY <1>1, <2>1, SeqDef, LenProperties
<1> HIDE DEF active, spent
<1>7. SumOf(active) \in Int /\ SumOf(spent) \in Int
  BY <1>1, <1>5, <1>6, SumIs
<1>8. PICK total \in [0..m -> Int] :
        total[0] = 0 /\ total[m] = SumOf(active) /\ \A n \in 1..m : total[n] = total[n - 1] + active[n]
  BY <1>1, <1>5, <1>6, SumIs
<1>9. PICK told \in [0..m -> Int] :
        told[0] = 0 /\ told[m] = SumOf(spent) /\ \A n \in 1..m : told[n] = told[n - 1] + spent[n]
  BY <1>1, <1>5, <1>6, SumIs
<1> DEFINE Bounded == {n \in Nat : n < m => total[n] <= told[n] + s[ep[n + 1]].at - s[ep[1]].at}
<1>10. 0 \in Bounded
  <2>1. s[ep[1]].at \in Int
    BY <1>0, <1>1, <1>2
  <2>2. 0 + 1 = 1
    OBVIOUS
  <2> QED BY <1>8, <1>9, <2>1, <2>2
<1>11. ASSUME NEW n \in Nat, n \in Bounded PROVE n + 1 \in Bounded
  <2> SUFFICES ASSUME n + 1 < m PROVE total[n + 1] <= told[n + 1] + s[ep[n + 1 + 1]].at - s[ep[1]].at
    OBVIOUS
  <2> DEFINE here == s[ep[n + 1]].at
             there == s[ep[n + 1 + 1]].at
             start == s[ep[1]].at
  <2>1. n + 1 \in 1..m /\ n + 1 + 1 \in 1..m /\ 1 \in 1..m /\ (n + 1) - 1 = n /\ n \in 0..m /\ n < m
    BY <1>1
  <2>2. here \in Int /\ there \in Int /\ start \in Int
    BY <1>0, <1>2, <2>1
  <2>3. total[n] <= told[n] + here - start
    BY <1>11, <2>1
  <2>4. total[n + 1] = total[n] + active[n + 1] /\ told[n + 1] = told[n] + spent[n + 1]
    BY <1>8, <1>9, <2>1
  <2>5. active[n + 1] \in Int /\ spent[n + 1] \in Int /\ active[n + 1] <= spent[n + 1] + there - here
    BY <1>5, <2>1
  <2>6. total[n] \in Int /\ told[n] \in Int
    BY <2>1
  <2> HIDE DEF here, there, start
  <2>7. total[n + 1] <= told[n + 1] + there - start
    BY <2>2, <2>3, <2>4, <2>5, <2>6, SMTT(30)
  <2> QED BY <2>7 DEF there, start
<1>12. m - 1 \in Bounded /\ m - 1 \in Nat /\ m \in 1..m /\ m - 1 < m /\ m - 1 + 1 = m /\ m - 1 \in 0..m
  <2>1. Nat \subseteq Bounded
    <3> HIDE DEF Bounded
    <3> QED BY <1>10, <1>11, NatSetInduction
  <2> HIDE DEF Bounded
  <2> QED BY <1>1, <2>1
<1>13. total[m - 1] <= told[m - 1] + s[ep[m]].at - s[ep[1]].at
  <2>1. total[m - 1] <= told[m - 1] + s[ep[m - 1 + 1]].at - s[ep[1]].at
    BY <1>12
  <2> QED BY <1>12, <2>1
<1>14. total[m] = total[m - 1] + active[m] /\ told[m] = told[m - 1] + spent[m]
  BY <1>8, <1>9, <1>12
<1>15. /\ active[m] \in Int /\ spent[m] \in Int /\ active[m] <= spent[m] + DurationCap /\ DurationCap \in Nat
       /\ s[ep[m]].at \in Int /\ s[ep[1]].at \in Int /\ total[m - 1] \in Int /\ told[m - 1] \in Int
  <2>1. 1 \in 1..m
    BY <1>1
  <2> QED BY <1>0, <1>2, <1>5, <1>12, <2>1, TimesAssumption
<1>16. total[m] <= told[m] + s[ep[m]].at - s[ep[1]].at + DurationCap
  <2> DEFINE x == total[m - 1]
             y == told[m - 1]
             here == s[ep[m]].at
             start == s[ep[1]].at
             counted == active[m]
             said == spent[m]
  <2>1. x <= y + here - start /\ total[m] = x + counted /\ told[m] = y + said
    BY <1>13, <1>14
  <2>2. /\ x \in Int /\ y \in Int /\ here \in Int /\ start \in Int /\ counted \in Int /\ said \in Int
        /\ counted <= said + DurationCap /\ DurationCap \in Nat
    BY <1>15
  <2> HIDE DEF x, y, here, start, counted, said
  <2>3. x + counted <= (y + said) + here - start + DurationCap
    BY ONLY <2>1, <2>2
  <2>4. total[m] <= told[m] + here - start + DurationCap
    BY ONLY <2>1, <2>3
  <2> QED BY <2>4 DEF here, start
<1>17. EpisodeTime(s, ep) = SumOf(active)
  BY Zenon DEF EpisodeTime, active
<1> QED
  BY <1>8, <1>9, <1>16, <1>17 DEF m, spent

\* An episode that the loop has built is whole, in every respect the property lists.
IsWhole(s, ep) ==
  /\ \A j \in 1 .. Len(ep) - 1 :
       ep[j + 1] = ep[j] + 1 /\ s[ep[j]].at <= s[ep[j + 1]].at /\ ~HardCut(s, ep[j])
  /\ ~s[ep[1]].boundary
  /\ splitting => \A j \in MinEpisodeEvents + 1 .. Len(ep) : s[ep[j]].token # s[ep[1]].token
  /\ EpisodeTime(s, ep) <= SumOf([j \in DOMAIN ep |-> Spent(s[ep[j]])])
                             + s[ep[Len(ep)]].at - s[ep[1]].at + DurationCap

\* Events with no cut between them, and enough of them, are whole.
LEMMA UnbrokenIsWhole ==
  ASSUME NEW s, IsStream(s), NEW k \in 0..Len(s), NEW ep, Unbroken(s, ep, k), BuildsEpisode(s, ep)
  PROVE  IsWhole(s, ep)
<1>0. /\ Len(s) \in Nat /\ DOMAIN s = 1..Len(s) /\ k \in Nat /\ k <= Len(s)
      /\ \A i \in 1..Len(s) : s[i].at \in Int
  BY EventsAre DEF IsStream
<1>1. ep \in Seq(1..k) /\ Len(ep) \in Nat /\ Len(ep) > 0
  BY SizesAssumption DEF Unbroken, BuildsEpisode
<1>2. \A j \in 1..Len(ep) : ep[j] \in 1..k
  BY <1>1, Elements
<1>3. 1 \in 1..Len(ep) /\ ep[1] \in Nat
  BY <1>0, <1>1, <1>2
<1>4. \A j \in 1..Len(ep) : ep[j] = ep[1] + j - 1
  BY DEF Unbroken
<1>5. ASSUME NEW j \in 1 .. Len(ep) - 1
      PROVE  ep[j + 1] = ep[j] + 1 /\ s[ep[j]].at <= s[ep[j + 1]].at /\ ~HardCut(s, ep[j])
  <2>1. j \in 1..Len(ep) /\ j + 1 \in 1..Len(ep) /\ j + 1 > 1
    BY <1>1
  <2>2. ep[j] = ep[1] + j - 1 /\ ep[j + 1] = ep[1] + (j + 1) - 1
    BY <1>4, <2>1
  <2>3. ep[j + 1] = ep[j] + 1 /\ ep[j + 1] - 1 = ep[j]
    BY <1>3, <2>2
  <2>4. ~HardCut(s, ep[j])
    <3>1. ~HardCut(s, ep[j + 1] - 1)
      BY <2>1 DEF Unbroken
    <3> QED BY <2>3, <3>1
  <2>5. s[ep[j]].at <= s[ep[j + 1]].at
    <3>1. ep[j] \in DOMAIN s /\ ep[j + 1] \in DOMAIN s /\ ep[j] < ep[j + 1]
      BY <1>0, <1>2, <2>1, <2>3
    <3> QED BY <3>1 DEF IsStream
  <2> QED BY <2>3, <2>4, <2>5
<1>6. ~s[ep[1]].boundary
  BY <1>3 DEF Unbroken
<1>7. splitting => \A j \in MinEpisodeEvents + 1 .. Len(ep) : s[ep[j]].token # s[ep[1]].token
  BY DEF Unbroken
<1>8. EpisodeTime(s, ep) <= SumOf([j \in DOMAIN ep |-> Spent(s[ep[j]])])
                             + s[ep[Len(ep)]].at - s[ep[1]].at + DurationCap
  BY <1>1, NoTimeInvented
<1> QED
  BY <1>5, <1>6, <1>7, <1>8 DEF IsWhole

\* Every state of the loop is sound.
LEMMA LoopStaysSound ==
  ASSUME NEW s, s \in Seq(ObservedEvents), NEW loop, Runs(s, loop)
  PROVE  \A k \in 0..Len(s) : Sound(s, loop[k], k)
<1>0. Len(s) \in Nat
  BY EventsAre
<1> DEFINE Fine == {k \in Nat : k <= Len(s) => Sound(s, loop[k], k)}
<1>1. 0 \in Fine
  <2>1. loop[0] = NothingOpen
    BY DEF Runs
  <2>2. Sound(s, NothingOpen, 0)
    <3>1. /\ NothingOpen.episodes = <<>> /\ NothingOpen.current = <<>> /\ NothingOpen.last = None
          /\ NothingOpen.family = None /\ Len(<<>>) = 0
      BY DEF NothingOpen
    <3>2. 1..0 = {}
      OBVIOUS
    <3> QED BY <3>1, <3>2, NothingIsUnbroken, 0 \in Nat DEF Sound
  <2> QED BY <2>1, <2>2
<1>2. ASSUME NEW k \in Nat, k \in Fine PROVE k + 1 \in Fine
  <2> SUFFICES ASSUME k + 1 <= Len(s) PROVE Sound(s, loop[k + 1], k + 1)
    OBVIOUS
  <2>1. k + 1 \in 1..Len(s) /\ (k + 1) - 1 = k /\ k \in 0..Len(s) /\ k <= Len(s)
    BY <1>0
  <2>2. Sound(s, loop[k], k) /\ loop[k] \in OpenStates(s) /\ Takes(s, loop[k], k + 1, loop[k + 1])
    BY <1>2, <2>1 DEF Runs
  <2> QED BY <2>1, <2>2, LoopIsSound
<1>3. Nat \subseteq Fine
  <2> HIDE DEF Fine
  <2> QED BY <1>1, <1>2, NatSetInduction
<1> QED
  BY <1>0, <1>3

\* An episode is among those built.
Holds(eps, ep) == \E n \in 1..Len(eps) : eps[n] = ep

\* What is flushed is the open run, when it is large enough, after what was there.
LEMMA FlushedHolds ==
  ASSUME NEW s, NEW open \in OpenStates(s), NEW ep
  PROVE  /\ Holds(open.episodes, ep) => Holds(FlushedInto(s, open), ep)
         /\ BuildsEpisode(s, open.current) => Holds(FlushedInto(s, open), open.current)
         /\ Holds(FlushedInto(s, open), ep) =>
              (BuildsEpisode(s, open.current) /\ ep = open.current) \/ Holds(open.episodes, ep)
         /\ DOMAIN FlushedInto(s, open) = 1..Len(FlushedInto(s, open))
<1>1. /\ open.episodes \in Seq(Seq(Nat)) /\ open.current \in Seq(Nat) /\ Len(open.episodes) \in Nat
      /\ DOMAIN open.episodes = 1..Len(open.episodes)
  BY DEF OpenStates
<1>2. CASE BuildsEpisode(s, open.current)
  <2> DEFINE longer == Append(open.episodes, open.current)
  <2>1. FlushedInto(s, open) = longer
    BY <1>2 DEF FlushedInto
  <2>2. /\ Len(longer) = Len(open.episodes) + 1 /\ DOMAIN longer = 1..Len(longer)
        /\ \A n \in 1..Len(open.episodes) : longer[n] = open.episodes[n]
        /\ longer[Len(open.episodes) + 1] = open.current
    BY <1>1
  <2> HIDE DEF longer
  <2>3. /\ \A n \in 1..Len(open.episodes) : n \in 1..Len(longer)
        /\ Len(open.episodes) + 1 \in 1..Len(longer)
        /\ \A m \in 1..Len(longer) : m \in 1..Len(open.episodes) \/ m = Len(open.episodes) + 1
    BY <1>1, <2>2
  <2> QED BY <1>2, <2>1, <2>2, <2>3 DEF Holds
<1>3. CASE ~BuildsEpisode(s, open.current)
  <2>1. FlushedInto(s, open) = open.episodes
    BY <1>3 DEF FlushedInto
  <2> QED BY <1>1, <1>3, <2>1
<1> QED
  BY <1>2, <1>3

\* An episode that was there at one event is there at every later one, and at the end.
LEMMA EpisodesStay ==
  ASSUME NEW s, s \in Seq(ObservedEvents), NEW loop, Runs(s, loop), NEW k \in 0..Len(s), NEW ep,
         Holds(loop[k].episodes, ep)
  PROVE  Holds(FlushedInto(s, loop[Len(s)]), ep)
<1>0. Len(s) \in Nat /\ k \in Nat /\ k <= Len(s)
  BY EventsAre
<1> DEFINE Held == {i \in Nat : k + i <= Len(s) => Holds(loop[k + i].episodes, ep)}
<1>1. 0 \in Held
  <2>1. k + 0 = k
    BY <1>0
  <2> QED BY <2>1
<1>2. ASSUME NEW i \in Nat, i \in Held PROVE i + 1 \in Held
  <2> SUFFICES ASSUME k + (i + 1) <= Len(s) PROVE Holds(loop[k + (i + 1)].episodes, ep)
    OBVIOUS
  <2> DEFINE p == k + i
             open == loop[p]
             next == loop[p + 1]
  <2>1. p + 1 \in 1..Len(s) /\ (p + 1) - 1 = p /\ p \in 0..Len(s) /\ p <= Len(s) /\ k + (i + 1) = p + 1
    BY <1>0
  <2>2. Holds(open.episodes, ep)
    BY <1>2, <2>1
  <2>3. open \in OpenStates(s) /\ Takes(s, open, p + 1, next)
    <3> HIDE DEF p
    <3> QED BY <2>1 DEF Runs
  <2> HIDE DEF open, next, p
  <2>4. next.episodes = FlushedInto(s, open) \/ next.episodes = open.episodes
    BY <2>3 DEF Takes
  <2>5. Holds(next.episodes, ep)
    BY <2>2, <2>3, <2>4, FlushedHolds
  <2> QED BY <2>1, <2>5 DEF next
<1>3. Len(s) - k \in Held
  <2>1. Nat \subseteq Held
    <3> HIDE DEF Held
    <3> QED BY <1>1, <1>2, NatSetInduction
  <2>2. Len(s) - k \in Nat
    BY <1>0
  <2> HIDE DEF Held
  <2> QED BY <2>1, <2>2
<1>4. Holds(loop[Len(s)].episodes, ep)
  <2>1. k + (Len(s) - k) = Len(s)
    BY <1>0
  <2> QED BY <1>0, <1>3, <2>1
<1>5. loop[Len(s)] \in OpenStates(s)
  <2>1. Len(s) \in 0..Len(s)
    BY <1>0
  <2> QED BY <2>1 DEF Runs
<1> HIDE DEF Held
<1> QED
  BY <1>4, <1>5, FlushedHolds

\* A stretch from the a-th to the b-th event: no cut inside, and one at either end
IsStretch(s, a, b) ==
  /\ a \in 1..Len(s) /\ b \in 1..Len(s) /\ a <= b
  /\ ~s[a].boundary
  /\ \A k \in a .. b - 1 : ~HardCut(s, k)
  /\ a > 1 => HardCut(s, a - 1)
  /\ b < Len(s) => HardCut(s, b)

\* About one object, and without a restart
IsOnePiece(s, a, b) ==
  /\ \A i, j \in a..b : s[i].object # None /\ s[j].object # None => s[i].object = s[j].object
  /\ splitting => \A k \in a + 1 .. b : s[k].token # s[a].token

\* With at most one object in a stretch, any two events that have one have the same.
LEMMA OneObject ==
  ASSUME NEW s, NEW a \in Nat, NEW b \in Nat, Cardinality({s[k].object : k \in a..b} \ {None}) <= 1
  PROVE  \A i, j \in a..b : s[i].object # None /\ s[j].object # None => s[i].object = s[j].object
<1> DEFINE T == {s[k].object : k \in a..b}
           R == T \ {None}
           f == [k \in a..b |-> s[k].object]
<1>1. IsFiniteSet(a..b)
  BY FS_Interval, a \in Int, b \in Int
<1>2. f \in Surjection(a..b, T)
  BY Zenon DEF Surjection
<1>3. IsFiniteSet(T)
  <2> HIDE DEF T, f
  <2> QED BY <1>1, <1>2, FS_Surjection
<1>4. IsFiniteSet(R) /\ Cardinality(R) <= 1
  <2>1. IsFiniteSet(R)
    <3> HIDE DEF T
    <3> QED BY <1>3, FS_RemoveElement
  <2>2. Cardinality(R) <= 1
    OBVIOUS
  <2> QED BY <2>1, <2>2
<1>5. ASSUME NEW x \in R, NEW y \in R, x # y PROVE FALSE
  <2> HIDE DEF R
  <2>1. Cardinality(R) \in Nat
    BY <1>4, FS_CardinalityType
  <2>2. IsFiniteSet(R \ {x}) /\ Cardinality(R \ {x}) = Cardinality(R) - 1
    BY <1>4, FS_RemoveElement
  <2>3. y \in R \ {x}
    BY <1>5
  <2>4. Cardinality(R \ {x}) # 0 /\ Cardinality(R \ {x}) \in Nat
    BY <2>2, <2>3, FS_EmptySet, FS_CardinalityType
  <2> QED BY <1>4, <2>1, <2>2, <2>4
<1>6. \A i \in a..b : s[i].object # None => s[i].object \in R
  OBVIOUS
<1> HIDE DEF R
<1> QED
  BY <1>5, <1>6

\* What the loop has open inside a stretch is the stretch so far.
OpenFrom(s, open, a, k) ==
  /\ Len(open.current) = k - a + 1
  /\ \A j \in 1..Len(open.current) : open.current[j] = a + j - 1
  /\ open.family = None \/ \E i \in a..k : s[i].object # None /\ open.family = s[i].object

\* The first event of a stretch closes whatever was open.
LEMMA StretchOpens ==
  ASSUME NEW s, s \in Seq(ObservedEvents), NEW a \in 1..Len(s), ~s[a].boundary, a > 1 => HardCut(s, a - 1),
         NEW open \in OpenStates(s), Sound(s, open, a - 1), NEW next, Takes(s, open, a, next)
  PROVE  OpenFrom(s, next, a, a)
<1>0. a \in Nat /\ a > 0 /\ Len(s) \in Nat
  BY EventsAre
<1> DEFINE e == s[a]
<1>1. CASE a > 1 /\ ~s[a - 1].boundary
  <2>1. a - 1 \in 1..Len(s) /\ (a - 1) + 1 = a /\ a - 1 > 0
    BY <1>0, <1>1
  <2>2. open.last = s[a - 1].at
    BY <1>1, <2>1 DEF Sound
  <2>3. GapCloses(open, e)
    <3>1. GapCloses(open, s[(a - 1) + 1]) <=> HardCut(s, a - 1)
      <4> DEFINE k == a - 1
      <4>1. k \in 1..Len(s) /\ k + 1 \in 1..Len(s) /\ ~s[k].boundary /\ ~s[k + 1].boundary /\ open.last = s[k].at
        BY <1>1, <2>1, <2>2
      <4> HIDE DEF k
      <4>2. GapCloses(open, s[k + 1]) <=> HardCut(s, k)
        BY <4>1, NoGapNoCut
      <4> QED BY <4>2 DEF k
    <3> QED BY <1>1, <2>1, <3>1
  <2>4. next.current = <<a>> /\ next.family = IF e.object # None THEN e.object ELSE None
    BY <2>3 DEF Takes, Closes
  <2>5. Len(<<a>>) = 1 /\ <<a>>[1] = a /\ \A j \in 1..1 : j = 1
    OBVIOUS
  <2> QED BY <1>0, <2>4, <2>5 DEF OpenFrom
<1>2. CASE a = 1 \/ s[a - 1].boundary
  <2>1. open.last = None /\ open.current = <<>> /\ open.family = None
    <3>1. a - 1 = 0 \/ s[a - 1].boundary
      BY <1>0, <1>2
    <3> QED BY <3>1 DEF Sound
  <2>2. ~GapCloses(open, e)
    BY <2>1 DEF GapCloses
  <2>3. next.current = <<a>>
    <3>1. Append(<<>>, a) = <<a>>
      OBVIOUS
    <3> QED BY <2>1, <3>1 DEF Takes
  <2>4. next.family = IF e.object # None THEN e.object ELSE None
    BY <2>1, <2>2 DEF Takes
  <2>5. Len(<<a>>) = 1 /\ <<a>>[1] = a /\ \A j \in 1..1 : j = 1
    OBVIOUS
  <2> QED BY <1>0, <2>3, <2>4, <2>5 DEF OpenFrom
<1> QED
  BY <1>0, <1>1, <1>2

\* No event inside a stretch in one piece closes what is open.
LEMMA StretchStaysOpen ==
  ASSUME NEW s, s \in Seq(ObservedEvents), NEW a, NEW b, IsStretch(s, a, b), IsOnePiece(s, a, b),
         NEW k \in a .. b - 1, NEW open \in OpenStates(s), Sound(s, open, k), OpenFrom(s, open, a, k),
         NEW next, Takes(s, open, k + 1, next)
  PROVE  OpenFrom(s, next, a, k + 1)
<1>0. /\ a \in Nat /\ b \in Nat /\ a > 0 /\ Len(s) \in Nat /\ k \in 1..Len(s) /\ k + 1 \in 1..Len(s)
      /\ k \in a..b /\ k + 1 \in a..b /\ k + 1 \in a + 1 .. b /\ k > 0 /\ k \in Nat
  BY EventsAre DEF IsStretch
<1> DEFINE e == s[k + 1]
<1>1. ~HardCut(s, k) /\ ~s[k].boundary /\ ~e.boundary
  BY <1>0 DEF IsStretch, HardCut
<1>2. open.last = s[k].at
  BY <1>0, <1>1 DEF Sound
<1>3. ~GapCloses(open, e)
  BY <1>0, <1>1, <1>2, NoGapNoCut
<1>4. /\ Len(open.current) = k - a + 1 /\ Len(open.current) \in Nat /\ Len(open.current) > 0 /\ open.current[1] = a
      /\ open.current \in Seq(Nat)
  <2>1. Len(open.current) = k - a + 1 /\ open.current \in Seq(Nat)
    BY DEF OpenFrom, OpenStates
  <2>2. 1 \in 1..Len(open.current) /\ a + 1 - 1 = a /\ Len(open.current) \in Nat /\ Len(open.current) > 0
    BY <1>0, <2>1
  <2>3. \A j \in 1..Len(open.current) : open.current[j] = a + j - 1
    BY DEF OpenFrom
  <2>4. open.current[1] = a + 1 - 1
    BY <2>2, <2>3
  <2> QED BY <2>1, <2>2, <2>4
<1>5. ~RestartCloses(s, open, e)
  <2>1. splitting => e.token # s[a].token
    BY <1>0 DEF IsOnePiece
  <2> QED BY <1>4, <2>1 DEF RestartCloses
<1>6. ~FamilyCloses(open, e)
  <2> SUFFICES ASSUME FamilyCloses(open, e) PROVE FALSE
    OBVIOUS
  <2>1. e.object # None /\ open.family # None /\ e.object # open.family
    BY DEF FamilyCloses
  <2>2. PICK i \in a..k : s[i].object # None /\ open.family = s[i].object
    BY <2>1 DEF OpenFrom
  <2>3. i \in a..b
    BY <1>0
  <2> QED BY <1>0, <2>1, <2>2, <2>3 DEF IsOnePiece
<1>7. next.current = Append(open.current, k + 1) /\ next.family = IF e.object # None THEN e.object ELSE open.family
  BY <1>1, <1>3, <1>5, <1>6 DEF Takes, Closes
<1>8. /\ Len(next.current) = Len(open.current) + 1
      /\ \A j \in 1..Len(open.current) : next.current[j] = open.current[j]
      /\ next.current[Len(open.current) + 1] = k + 1
  <2> DEFINE c == open.current
  <2>1. c \in Seq(Nat) /\ k + 1 \in Nat /\ next.current = Append(c, k + 1)
    BY <1>0, <1>4, <1>7
  <2> HIDE DEF c
  <2>2. /\ Len(Append(c, k + 1)) = Len(c) + 1 /\ Append(c, k + 1)[Len(c) + 1] = k + 1
        /\ \A j \in 1..Len(c) : Append(c, k + 1)[j] = c[j]
    BY <2>1
  <2> QED BY <2>1, <2>2 DEF c
<1>9. Len(next.current) = (k + 1) - a + 1
  BY <1>0, <1>4, <1>8
<1>10. \A j \in 1..Len(next.current) : next.current[j] = a + j - 1
  <2> TAKE j \in 1..Len(next.current)
  <2>1. CASE j \in 1..Len(open.current)
    BY <1>8, <2>1 DEF OpenFrom
  <2>2. CASE j = Len(open.current) + 1
    <3>1. a + j - 1 = k + 1
      BY <1>0, <1>4, <2>2
    <3> QED BY <1>8, <2>2, <3>1
  <2> QED BY <1>4, <1>8, <2>1, <2>2
<1>11. next.family = None \/ \E i \in a..k + 1 : s[i].object # None /\ next.family = s[i].object
  <2>1. CASE e.object # None
    <3>1. k + 1 \in a..k + 1
      BY <1>0
    <3> QED BY <1>7, <2>1, <3>1
  <2>2. CASE e.object = None
    <3>1. next.family = open.family
      BY <1>7, <2>2
    <3>2. \A i \in a..k : i \in a..k + 1
      BY <1>0
    <3> QED BY <3>1, <3>2 DEF OpenFrom
  <2> QED BY <2>1, <2>2
<1> QED
  BY <1>9, <1>10, <1>11 DEF OpenFrom

\* The positions of a stretch
WholeOf(a, b) == [j \in 1 .. b - a + 1 |-> a + j - 1]

\* A stretch in one piece is an episode when it is large enough.
LEMMA StretchIsEpisode ==
  ASSUME NEW s, IsStream(s), NEW loop, Runs(s, loop), NEW a, NEW b, IsStretch(s, a, b), IsOnePiece(s, a, b),
         BuildsEpisode(s, WholeOf(a, b))
  PROVE  Holds(FlushedInto(s, loop[Len(s)]), WholeOf(a, b))
<1>0. /\ a \in Nat /\ b \in Nat /\ a > 0 /\ a <= b /\ Len(s) \in Nat /\ a \in 1..Len(s) /\ b \in 1..Len(s)
      /\ s \in Seq(ObservedEvents)
  BY EventsAre DEF IsStretch, IsStream
<1>1. \A k \in 0..Len(s) : Sound(s, loop[k], k) /\ loop[k] \in OpenStates(s)
  BY <1>0, LoopStaysSound DEF Runs
<1> DEFINE Fine == {i \in Nat : a + i <= b => OpenFrom(s, loop[a + i], a, a + i)}
<1>2. 0 \in Fine
  <2>1. a - 1 \in 0..Len(s) /\ a + 0 = a
    BY <1>0
  <2>2. Takes(s, loop[a - 1], a, loop[a])
    BY <1>0 DEF Runs
  <2>3. OpenFrom(s, loop[a], a, a)
    BY <1>0, <1>1, <2>1, <2>2, StretchOpens DEF IsStretch
  <2> QED BY <2>1, <2>3
<1>3. ASSUME NEW i \in Nat, i \in Fine PROVE i + 1 \in Fine
  <2> SUFFICES ASSUME a + (i + 1) <= b PROVE OpenFrom(s, loop[a + (i + 1)], a, a + (i + 1))
    OBVIOUS
  <2> DEFINE k == a + i
  <2>1. k \in a .. b - 1 /\ k + 1 = a + (i + 1) /\ k \in 0..Len(s) /\ k + 1 \in 1..Len(s) /\ (k + 1) - 1 = k
    BY <1>0
  <2>2. OpenFrom(s, loop[k], a, k)
    BY <1>0, <1>3, <2>1
  <2> HIDE DEF k
  <2>3. Takes(s, loop[k], k + 1, loop[k + 1])
    <3>1. Takes(s, loop[(k + 1) - 1], k + 1, loop[k + 1])
      BY <2>1 DEF Runs
    <3> QED BY <2>1, <3>1
  <2>4. Sound(s, loop[k], k) /\ loop[k] \in OpenStates(s)
    BY <1>1, <2>1
  <2>5. OpenFrom(s, loop[k + 1], a, k + 1)
    BY <1>0, <2>1, <2>2, <2>3, <2>4, StretchStaysOpen
  <2> QED BY <2>1, <2>5
<1>4. OpenFrom(s, loop[b], a, b)
  <2>1. Nat \subseteq Fine
    <3> HIDE DEF Fine
    <3> QED BY <1>2, <1>3, NatSetInduction
  <2>2. b - a \in Nat /\ a + (b - a) = b
    BY <1>0
  <2>3. b - a \in Fine
    <3> HIDE DEF Fine
    <3> QED BY <2>1, <2>2
  <2> QED BY <1>0, <2>2, <2>3
<1> DEFINE open == loop[b]
<1>5. open \in OpenStates(s)
  <2>1. b \in 0..Len(s)
    BY <1>0
  <2> QED BY <1>1, <2>1
<1>6. open.current = WholeOf(a, b)
  <2>1. /\ Len(open.current) = b - a + 1 /\ \A j \in 1..Len(open.current) : open.current[j] = a + j - 1
        /\ open.current \in Seq(Nat)
    BY <1>4, <1>5 DEF OpenFrom, OpenStates
  <2>2. DOMAIN open.current = 1 .. b - a + 1 /\ open.current = [j \in DOMAIN open.current |-> open.current[j]]
    BY <2>1
  <2> HIDE DEF open
  <2>3. \A j \in 1 .. b - a + 1 : open.current[j] = a + j - 1
    BY <2>1
  <2>4. open.current = [j \in 1 .. b - a + 1 |-> a + j - 1]
    BY <2>2, <2>3
  <2> QED BY <2>4 DEF WholeOf
<1> HIDE DEF Fine
<1>7. CASE b = Len(s)
  <2>1. BuildsEpisode(s, loop[Len(s)].current) /\ loop[Len(s)] \in OpenStates(s) /\ loop[Len(s)].current = WholeOf(a, b)
    BY <1>5, <1>6, <1>7
  <2>2. Holds(FlushedInto(s, loop[Len(s)]), loop[Len(s)].current)
    BY <2>1, FlushedHolds
  <2> QED BY <2>1, <2>2
<1>8. CASE b < Len(s)
  <2> DEFINE next == loop[b + 1]
             e == s[b + 1]
  <2>1. b + 1 \in 1..Len(s) /\ (b + 1) - 1 = b /\ b + 1 \in 0..Len(s) /\ b > 0
    BY <1>0, <1>8
  <2>2. Takes(s, open, b + 1, next)
    <3>1. Takes(s, loop[(b + 1) - 1], b + 1, loop[b + 1])
      BY <2>1 DEF Runs
    <3> QED BY <2>1, <3>1
  <2>3. HardCut(s, b)
    BY <1>8 DEF IsStretch
  <2>4. ~s[b].boundary
    <3>1. CASE a = b
      BY <3>1 DEF IsStretch
    <3>2. CASE a < b
      <4>1. b - 1 \in a .. b - 1 /\ (b - 1) + 1 = b
        BY <1>0, <3>2
      <4>2. ~HardCut(s, b - 1)
        BY <4>1 DEF IsStretch
      <4> QED BY <4>1, <4>2 DEF HardCut
    <3> QED BY <1>0, <3>1, <3>2
  <2>5. next.episodes = FlushedInto(s, open)
    <3>1. CASE e.boundary
      BY <2>2, <3>1 DEF Takes
    <3>2. CASE ~e.boundary
      <4>1. b \in 0..Len(s)
        BY <1>0
      <4>2. open.last = s[b].at
        BY <1>1, <2>1, <2>4, <4>1 DEF Sound
      <4>3. GapCloses(open, e)
        BY <1>0, <2>1, <2>3, <2>4, <3>2, <4>2, NoGapNoCut
      <4> QED BY <2>2, <3>2, <4>3 DEF Takes, Closes
    <3> QED BY <3>1, <3>2
  <2>6. Holds(next.episodes, WholeOf(a, b))
    <3> HIDE DEF open, next
    <3>1. BuildsEpisode(s, open.current)
      BY <1>6
    <3>2. Holds(FlushedInto(s, open), open.current)
      BY <1>5, <3>1, FlushedHolds
    <3> QED BY <1>6, <2>5, <3>2
  <2> QED BY <1>0, <2>1, <2>6, EpisodesStay
<1> QED
  BY <1>0, <1>7, <1>8

\* Whatever was stored, in whatever order, its episodes are whole.
LEMMA StoredIsWhole == Stored => EpisodesAreWhole
<1> SUFFICES ASSUME Stored PROVE EpisodesAreWhole
  OBVIOUS
<1> DEFINE s == SortedEvents
           eps == SegmentEpisodes(s)
<1>1. IsStream(s) /\ s \in Seq(ObservedEvents) /\ Len(s) \in Nat /\ DOMAIN s = 1..Len(s)
  BY SortedIsStream, EventsAre DEF IsStream
<1> HIDE DEF s
<1>2. PICK loop : Runs(s, loop) /\ eps = FlushedInto(s, loop[Len(s)])
  BY <1>1, LoopIs
<1>3. Len(s) \in 0..Len(s)
  BY <1>1
<1> DEFINE open == loop[Len(s)]
<1>4. open \in OpenStates(s) /\ Sound(s, open, Len(s))
  BY <1>1, <1>2, <1>3, LoopStaysSound DEF Runs
<1> HIDE DEF open, eps
<1>5. eps = FlushedInto(s, open) /\ DOMAIN eps = 1..Len(eps)
  BY <1>2, <1>4, FlushedHolds DEF open
<1>6. ASSUME NEW n \in DOMAIN eps PROVE IsWhole(s, eps[n])
  <2>1. Unbroken(s, eps[n], Len(s)) /\ BuildsEpisode(s, eps[n])
    <3>1. Holds(FlushedInto(s, open), eps[n])
      BY <1>5 DEF Holds
    <3>2. (BuildsEpisode(s, open.current) /\ eps[n] = open.current) \/ Holds(open.episodes, eps[n])
      BY <1>4, <3>1, FlushedHolds
    <3> QED BY <1>4, <3>2 DEF Sound, Holds
  <2> QED BY <1>1, <1>3, <2>1, UnbrokenIsWhole
<1>7. ASSUME NEW ab \in Stretches(s), NEW whole, whole = [j \in 1 .. ab[2] - ab[1] + 1 |-> ab[1] + j - 1],
             BuildsEpisode(s, whole), Cardinality({s[k].object : k \in ab[1] .. ab[2]} \ {None}) <= 1,
             splitting => \A k \in ab[1] + 1 .. ab[2] : s[k].token # s[ab[1]].token
      PROVE  whole \in {eps[n] : n \in DOMAIN eps}
  <2> DEFINE a == ab[1]
             b == ab[2]
  <2>1. IsStretch(s, a, b)
    <3>1. ab \in (DOMAIN s) \X (DOMAIN s)
      BY DEF Stretches
    <3> QED BY <1>1, <3>1 DEF Stretches, IsStretch
  <2>2. a \in Nat /\ b \in Nat
    BY <1>1, <2>1 DEF IsStretch
  <2>3. IsOnePiece(s, a, b)
    <3>1. \A i, j \in a..b : s[i].object # None /\ s[j].object # None => s[i].object = s[j].object
      <4>1. Cardinality({s[k].object : k \in a .. b} \ {None}) <= 1
        BY <1>7
      <4> HIDE DEF a, b
      <4> QED BY <2>2, <4>1, OneObject
    <3> QED BY <1>7, <3>1 DEF IsOnePiece
  <2>4. whole = WholeOf(a, b) /\ BuildsEpisode(s, WholeOf(a, b))
    BY <1>7 DEF WholeOf
  <2> HIDE DEF a, b
  <2>5. Holds(FlushedInto(s, loop[Len(s)]), WholeOf(a, b))
    BY <1>1, <1>2, <2>1, <2>3, <2>4, StretchIsEpisode
  <2>6. Holds(eps, whole)
    BY <1>2, <2>4, <2>5
  <2> QED BY <1>5, <2>6 DEF Holds
<1> QED
  BY <1>6, <1>7 DEF EpisodesAreWhole, IsWhole, s, eps

\* Events of any age keep what is stored a sequence of observed events.
LEMMA StoredInductive == Stored /\ [SegmentNext]_segmentVars => Stored'
<1> SUFFICES ASSUME Stored, [SegmentNext]_segmentVars PROVE Stored'
  OBVIOUS
<1>1. CASE UNCHANGED segmentVars
  BY <1>1 DEF Stored, segmentVars
<1>2. ASSUME NEW kind \in EventKinds, NEW at \in Moments, StoreEvent(kind, at) PROVE Stored'
  <2>1. at \in Int
    <3>1. CASE arrived = <<>>
      BY <3>1 DEF Moments
    <3>2. CASE arrived # <<>>
      <4>1. PICK i \in DOMAIN arrived, g \in Gaps : at = arrived[i].at + g
        BY <3>2 DEF Moments
      <4>2. arrived[i].at \in Int /\ g \in Int
        BY EventsAre, TimesAssumption DEF Stored
      <4> QED BY <4>1, <4>2
    <3> QED BY <3>1, <3>2
  <2> DEFINE e == [token |-> kind.token, object |-> kind.object, boundary |-> kind.boundary, dur |-> kind.dur, at |-> at]
  <2>2. e \in ObservedEvents
    BY <2>1 DEF ObservedEvents
  <2>3. arrived' = Append(arrived, e)
    BY <1>2 DEF StoreEvent
  <2> HIDE DEF e
  <2> QED BY <2>2, <2>3 DEF Stored
<1> QED
  BY <1>1, <1>2 DEF SegmentNext

\* Whatever the order in which its events were stored, an episode is an unbroken stretch of work, no time is
\* invented, and no stretch about one object is lost: EpisodesAreWhole.
THEOREM EpisodesStayWhole == SegmentSpec => []EpisodesAreWhole
<1>1. SegmentInit => Stored
  BY DEF SegmentInit, Stored
<1>2. SegmentSpec => []Stored
  BY <1>1, StoredInductive, PTL DEF SegmentSpec
<1> QED
  BY <1>2, StoredIsWhole, PTL

-----------------------------------------------------------------------------
\* A set of numbers that is not empty has a smallest one, ...
LEMMA SmallestOne ==
  ASSUME NEW T, T \subseteq Nat, T # {}
  PROVE  Min(T) \in T /\ \A j \in T : Min(T) <= j
<1> DEFINE Without(n) == \A m \in 0..n : m \notin T
           Free == {n \in Nat : Without(n)}
<1>1. \E k \in T : \A j \in T : k <= j
  <2> SUFFICES ASSUME ~\E k \in T : \A j \in T : k <= j PROVE FALSE
    OBVIOUS
  <2>1. 0 \in Free
    <3> SUFFICES ASSUME 0 \in T PROVE FALSE
      OBVIOUS
    <3> QED
      OBVIOUS
  <2>2. ASSUME NEW n \in Nat, n \in Free PROVE n + 1 \in Free
    <3> SUFFICES ASSUME n + 1 \in T PROVE FALSE
      BY <2>2
    <3>1. \A j \in T : j \in Nat /\ ~(j <= n)
      BY <2>2
    <3> QED
      BY <3>1
  <2>3. Nat \subseteq Free
    <3> HIDE DEF Free
    <3> QED BY <2>1, <2>2, NatSetInduction
  <2>4. \A n \in T : n \in Free /\ n \in 0..n
    BY <2>3
  <2> QED
    BY <2>4
<1> QED
  BY <1>1, Zenon DEF Min

\* ... and a largest one if they are below a bound.
LEMMA LargestOne ==
  ASSUME NEW n \in Nat, NEW T, T \subseteq 0..n, T # {}
  PROVE  Max(T) \in T /\ \A j \in T : j <= Max(T)
<1> DEFINE R == {n - j : j \in T}
<1>1. R \subseteq Nat /\ R # {}
  <2>1. \A j \in T : n - j \in Nat
    OBVIOUS
  <2>2. PICK j : j \in T
    OBVIOUS
  <2>3. n - j \in R
    BY <2>2
  <2> QED
    BY <2>1, <2>3
<1>2. Min(R) \in R /\ \A j \in R : Min(R) <= j
  BY <1>1, SmallestOne
<1>3. PICK k \in T : Min(R) = n - k
  BY <1>2
<1>4. \A j \in T : k >= j
  <2> TAKE j \in T
  <2>1. n - j \in R
    OBVIOUS
  <2>2. n - k <= n - j
    BY <1>2, <1>3, <2>1
  <2> QED
    BY <2>2
<1>5. Max(T) \in T /\ \A j \in T : Max(T) >= j
  BY <1>3, <1>4, Zenon DEF Max
<1> QED
  BY <1>5


-----------------------------------------------------------------------------
(* Similarity: the edit distance is the same both ways. *)

\* A row of the table, cell by cell
RowOf(c, a, b, above, i, m) ==
  c = [n \in 0..m |-> IF n = 0 THEN i * InDel ELSE Cheapest(above[n - 1] + SubstitutionCost(a[i], b[n]), above[n] + InDel, c[n - 1] + InDel)]

\* The recursive function of NextRow is defined by its equation.
LEMMA RowDefined ==
  ASSUME NEW a, NEW b, NEW above, NEW i, NEW m \in Nat
  PROVE  \E c : RowOf(c, a, b, above, i, m)
<1> USE DEF RowOf
<1> DEFINE Fits(c, k) == RowOf(c, a, b, above, i, k)
           Defined == {k \in Nat : \E c : Fits(c, k)}
<1>1. 0 \in Defined
  <2> DEFINE c == [n \in 0..0 |-> i * InDel]
  <2>1. \A n \in 0..0 : n = 0
    OBVIOUS
  <2>2. Fits(c, 0)
    BY <2>1, Zenon
  <2> QED
    BY <2>2
<1>2. ASSUME NEW k \in Nat, k \in Defined PROVE k + 1 \in Defined
  <2>1. PICK c : Fits(c, k)
    BY <1>2
  <2> DEFINE next == Cheapest(above[k + 1 - 1] + SubstitutionCost(a[i], b[k + 1]), above[k + 1] + InDel, c[k] + InDel)
             d == [n \in 0..(k + 1) |-> IF n = k + 1 THEN next ELSE c[n]]
  <2>2. ASSUME NEW n \in 0..(k + 1)
        PROVE  d[n] = IF n = 0 THEN i * InDel ELSE Cheapest(above[n - 1] + SubstitutionCost(a[i], b[n]), above[n] + InDel, d[n - 1] + InDel)
    <3>1. CASE n = k + 1
      <4>1. n # 0 /\ d[n] = next /\ d[n - 1] = c[k] /\ k \in 0..(k + 1) /\ k # k + 1 /\ n - 1 = k
        BY <3>1
      <4> QED
        BY <3>1, <4>1
    <3>2. CASE n = 0
      <4>1. n # k + 1 /\ d[n] = c[n] /\ n \in 0..k
        BY <3>2
      <4> QED
        BY <2>1, <3>2, <4>1
    <3>3. CASE n # k + 1 /\ n # 0
      <4>1. d[n] = c[n] /\ d[n - 1] = c[n - 1] /\ n \in 0..k
        BY <3>3
      <4> QED
        BY <2>1, <3>3, <4>1
    <3> QED
      BY <3>1, <3>2, <3>3
  <2>3. Fits(d, k + 1)
    <3> DEFINE e == [n \in 0..(k + 1) |-> IF n = 0 THEN i * InDel ELSE Cheapest(above[n - 1] + SubstitutionCost(a[i], b[n]), above[n] + InDel, d[n - 1] + InDel)]
    <3>1. \A n \in 0..(k + 1) : d[n] = e[n]
      BY <2>2
    <3>2. d = [n \in 0..(k + 1) |-> d[n]]
      OBVIOUS
    <3> HIDE DEF d
    <3>3. d = e
      BY <3>1, <3>2
    <3> QED
      BY <3>3
  <2> HIDE DEF d, Fits
  <2> QED
    BY <2>3, k + 1 \in Nat
<1>3. Nat \subseteq Defined
  <2> HIDE DEF Defined
  <2> QED BY <1>1, <1>2, NatSetInduction
<1> QED
  BY <1>3

\* The least of three costs
LEMMA CheapestIs ==
  ASSUME NEW x \in Nat, NEW y \in Nat, NEW z \in Nat
  PROVE  Cheapest(x, y, z) \in Nat /\ Cheapest(x, y, z) = Cheapest(x, z, y)
<1>1. {x, y, z} \subseteq Nat /\ {x, y, z} # {} /\ {x, y, z} = {x, z, y}
  OBVIOUS
<1>2. Min({x, y, z}) \in {x, y, z}
  BY <1>1, SmallestOne
<1> QED
  BY <1>1, <1>2 DEF Cheapest

\* What a row of the table is, given the row above it
IsRow(row, a, b, above, i) ==
  /\ row \in [0..Len(b) -> Nat]
  /\ row[0] = i * InDel
  /\ \A j \in 1..Len(b) : row[j] =
       Cheapest(above[j - 1] + SubstitutionCost(a[i], b[j]), above[j] + InDel, row[j - 1] + InDel)

\* What a row holds
LEMMA RowIs ==
  ASSUME NEW a, NEW b, Len(b) \in Nat, NEW above \in [0..Len(b) -> Nat], NEW i \in Nat
  PROVE  IsRow(NextRow(a, b, above, i), a, b, above, i)
<1> DEFINE row == CHOOSE c : RowOf(c, a, b, above, i, Len(b))
           Cell(j) == Cheapest(above[j - 1] + SubstitutionCost(a[i], b[j]), above[j] + InDel, row[j - 1] + InDel)
<1>1. RowOf(row, a, b, above, i, Len(b))
  BY RowDefined
<1>2. NextRow(a, b, above, i) = row
  BY Zenon DEF NextRow, RowOf
<1> HIDE DEF row
<1>3. /\ row = [j \in 0..Len(b) |-> IF j = 0 THEN i * InDel ELSE Cell(j)]
  BY <1>1, Zenon DEF RowOf
<1>4. row[0] = i * InDel /\ \A j \in 1..Len(b) : row[j] = Cell(j)
  <2> HIDE DEF Cell
  <2>1. 0 \in 0..Len(b) /\ \A j \in 1..Len(b) : j \in 0..Len(b) /\ j # 0
    OBVIOUS
  <2> QED BY <1>3, <2>1, Zenon
<1> DEFINE Typed == {j \in Nat : j <= Len(b) => row[j] \in Nat}
<1>5. InDel \in Nat /\ \A x, y : SubstitutionCost(x, y) \in Nat
  BY DEF InDel, SubstitutionCost
<1>6. 0 \in Typed
  BY <1>4, <1>5
<1>7. ASSUME NEW j \in Nat, j \in Typed PROVE j + 1 \in Typed
  <2> SUFFICES ASSUME j + 1 <= Len(b) PROVE row[j + 1] \in Nat
    OBVIOUS
  <2>1. j + 1 \in 1..Len(b) /\ (j + 1) - 1 = j /\ j \in 0..Len(b) /\ j + 1 \in 0..Len(b) /\ j <= Len(b)
    OBVIOUS
  <2>2. row[j] \in Nat /\ above[j] \in Nat /\ above[j + 1] \in Nat
    BY <1>7, <2>1
  <2>3. /\ above[j] + SubstitutionCost(a[i], b[j + 1]) \in Nat /\ above[j + 1] + InDel \in Nat /\ row[j] + InDel \in Nat
    <3> DEFINE x == above[j]
               y == above[j + 1]
               z == row[j]
               cost == SubstitutionCost(a[i], b[j + 1])
    <3>1. x \in Nat /\ y \in Nat /\ z \in Nat
      BY <2>2
    <3>2. cost \in Nat /\ InDel \in Nat
      BY <1>5, Zenon
    <3> HIDE DEF x, y, z, cost
    <3>3. x + cost \in Nat /\ y + InDel \in Nat /\ z + InDel \in Nat
      BY ONLY <3>1, <3>2
    <3> QED BY <3>3 DEF x, y, z, cost
  <2>4. Cell(j + 1) = Cheapest(above[j] + SubstitutionCost(a[i], b[j + 1]), above[j + 1] + InDel, row[j] + InDel)
    BY <2>1
  <2>5. Cell(j + 1) \in Nat
    <3> DEFINE x == above[j] + SubstitutionCost(a[i], b[j + 1])
               y == above[j + 1] + InDel
               z == row[j] + InDel
    <3>1. x \in Nat /\ y \in Nat /\ z \in Nat /\ Cell(j + 1) = Cheapest(x, y, z)
      BY <2>3, <2>4
    <3> HIDE DEF Cell, x, y, z
    <3>2. Cheapest(x, y, z) \in Nat
      BY <3>1, CheapestIs
    <3> QED BY <3>1, <3>2
  <2> HIDE DEF Cell
  <2> QED BY <1>4, <2>1, <2>5
<1>8. row \in [0..Len(b) -> Nat]
  <2>1. Nat \subseteq Typed
    <3> HIDE DEF Typed
    <3> QED BY <1>6, <1>7, NatSetInduction
  <2>2. \A j \in 0..Len(b) : row[j] \in Nat
    BY <2>1
  <2> HIDE DEF Cell, Typed
  <2>3. DOMAIN row = 0..Len(b) /\ row = [j \in DOMAIN row |-> row[j]]
    BY <1>3
  <2> QED BY <2>2, <2>3
<1>9. IsRow(row, a, b, above, i)
  BY <1>4, <1>8, Zenon DEF IsRow
<1> QED
  BY <1>2, <1>9

\* The table, row by row
TableOf(c, a, b, m) ==
  c = [n \in 0..m |-> IF n = 0 THEN [j \in 0..Len(b) |-> j * InDel] ELSE NextRow(a, b, c[n - 1], n)]

\* The recursive function of Distance is defined by its equation.
LEMMA TableDefined ==
  ASSUME NEW a, NEW b, NEW m \in Nat
  PROVE  \E c : TableOf(c, a, b, m)
<1> USE DEF TableOf
<1> DEFINE Fits(c, k) == TableOf(c, a, b, k)
           Defined == {k \in Nat : \E c : Fits(c, k)}
<1>1. 0 \in Defined
  <2> DEFINE c == [n \in 0..0 |-> [j \in 0..Len(b) |-> j * InDel]]
  <2>1. \A n \in 0..0 : n = 0
    OBVIOUS
  <2>2. Fits(c, 0)
    BY <2>1, Zenon
  <2> QED
    BY <2>2
<1>2. ASSUME NEW k \in Nat, k \in Defined PROVE k + 1 \in Defined
  <2>1. PICK c : Fits(c, k)
    BY <1>2
  <2> DEFINE next == NextRow(a, b, c[k], k + 1)
             d == [n \in 0..(k + 1) |-> IF n = k + 1 THEN next ELSE c[n]]
  <2>2. ASSUME NEW n \in 0..(k + 1)
        PROVE  d[n] = IF n = 0 THEN [j \in 0..Len(b) |-> j * InDel] ELSE NextRow(a, b, d[n - 1], n)
    <3>1. CASE n = k + 1
      <4>1. n # 0 /\ d[n] = next /\ d[n - 1] = c[k] /\ k \in 0..(k + 1) /\ k # k + 1 /\ n - 1 = k
        BY <3>1
      <4> QED
        BY <3>1, <4>1
    <3>2. CASE n = 0
      <4>1. n # k + 1 /\ d[n] = c[n] /\ n \in 0..k
        BY <3>2
      <4> QED
        BY <2>1, <3>2, <4>1
    <3>3. CASE n # k + 1 /\ n # 0
      <4>1. d[n] = c[n] /\ d[n - 1] = c[n - 1] /\ n \in 0..k
        BY <3>3
      <4> QED
        BY <2>1, <3>3, <4>1
    <3> QED
      BY <3>1, <3>2, <3>3
  <2>3. Fits(d, k + 1)
    <3> DEFINE e == [n \in 0..(k + 1) |-> IF n = 0 THEN [j \in 0..Len(b) |-> j * InDel] ELSE NextRow(a, b, d[n - 1], n)]
    <3>1. \A n \in 0..(k + 1) : d[n] = e[n]
      BY <2>2
    <3>2. d = [n \in 0..(k + 1) |-> d[n]]
      OBVIOUS
    <3> HIDE DEF d
    <3>3. d = e
      BY <3>1, <3>2
    <3> QED
      BY <3>3
  <2> HIDE DEF d, Fits
  <2> QED
    BY <2>3, k + 1 \in Nat
<1>3. Nat \subseteq Defined
  <2> HIDE DEF Defined
  <2> QED BY <1>1, <1>2, NatSetInduction
<1> QED
  BY <1>3

\* What the table holds
IsTable(a, b, t) ==
  \A i \in 0..Len(a), j \in 0..Len(b) :
    /\ t[i][j] \in Nat
    /\ i = 0 => t[i][j] = j * InDel
    /\ j = 0 => t[i][j] = i * InDel
    /\ i > 0 /\ j > 0 =>
         t[i][j] = Cheapest(t[i - 1][j - 1] + SubstitutionCost(a[i], b[j]), t[i - 1][j] + InDel, t[i][j - 1] + InDel)

\* The table behind a distance
LEMMA TableIs ==
  ASSUME NEW a, NEW b, Len(a) \in Nat, Len(b) \in Nat
  PROVE  \E t : IsTable(a, b, t) /\ Distance(a, b) = t[Len(a)][Len(b)]
<1> DEFINE t == CHOOSE c : TableOf(c, a, b, Len(a))
<1>1. TableOf(t, a, b, Len(a))
  BY TableDefined
<1>2. Distance(a, b) = t[Len(a)][Len(b)]
  BY Zenon DEF Distance, TableOf
<1> HIDE DEF t
<1> DEFINE First == [j \in 0..Len(b) |-> j * InDel]
<1>3. t = [i \in 0..Len(a) |-> IF i = 0 THEN First ELSE NextRow(a, b, t[i - 1], i)]
  BY <1>1, Zenon DEF TableOf
<1>4. t[0] = First /\ \A i \in 1..Len(a) : t[i] = NextRow(a, b, t[i - 1], i)
  <2> HIDE DEF First
  <2>1. 0 \in 0..Len(a) /\ \A i \in 1..Len(a) : i \in 0..Len(a) /\ i # 0
    OBVIOUS
  <2> QED BY <1>3, <2>1, Zenon
<1>5. InDel \in Nat
  BY DEF InDel
<1>6. First \in [0..Len(b) -> Nat] /\ (\A j \in 0..Len(b) : First[j] = j * InDel) /\ First[0] = 0 * InDel
  <2>1. \A j \in 0..Len(b) : j * InDel \in Nat
    BY <1>5
  <2>2. First[0] = 0 * InDel
    BY 0 \in 0..Len(b)
  <2> QED BY <2>1, <2>2
<1> DEFINE Typed == {i \in Nat : i <= Len(a) => t[i] \in [0..Len(b) -> Nat]}
<1>7. 0 \in Typed
  <2> HIDE DEF First
  <2> QED BY <1>4, <1>6
<1>8. ASSUME NEW i \in Nat, i \in Typed PROVE i + 1 \in Typed
  <2> SUFFICES ASSUME i + 1 <= Len(a) PROVE t[i + 1] \in [0..Len(b) -> Nat]
    OBVIOUS
  <2>1. i + 1 \in 1..Len(a) /\ (i + 1) - 1 = i /\ i <= Len(a) /\ i + 1 \in Nat
    OBVIOUS
  <2>2. t[i] \in [0..Len(b) -> Nat]
    BY <1>8, <2>1
  <2>3. t[i + 1] = NextRow(a, b, t[i], i + 1)
    <3> HIDE DEF First
    <3>1. t[i + 1] = NextRow(a, b, t[(i + 1) - 1], i + 1)
      BY <1>4, <2>1
    <3> QED BY <2>1, <3>1
  <2>4. NextRow(a, b, t[i], i + 1) \in [0..Len(b) -> Nat]
    <3>1. IsRow(NextRow(a, b, t[i], i + 1), a, b, t[i], i + 1)
      <4> DEFINE above == t[i]
      <4>1. above \in [0..Len(b) -> Nat]
        BY <2>2
      <4> HIDE DEF above
      <4>2. IsRow(NextRow(a, b, above, i + 1), a, b, above, i + 1)
        BY <2>1, <4>1, RowIs, ZenonT(60)
      <4> QED BY <4>2 DEF above
    <3> QED BY <3>1, ZenonT(60) DEF IsRow
  <2> QED BY <2>3, <2>4
<1>9. \A i \in 0..Len(a) : t[i] \in [0..Len(b) -> Nat]
  <2>1. Nat \subseteq Typed
    <3> HIDE DEF Typed
    <3> QED BY <1>7, <1>8, NatSetInduction
  <2> QED BY <2>1
<1>10. ASSUME NEW i \in 0..Len(a), NEW j \in 0..Len(b)
       PROVE  /\ t[i][j] \in Nat
              /\ i = 0 => t[i][j] = j * InDel
              /\ j = 0 => t[i][j] = i * InDel
              /\ i > 0 /\ j > 0 =>
                   t[i][j] = Cheapest(t[i - 1][j - 1] + SubstitutionCost(a[i], b[j]), t[i - 1][j] + InDel,
                                      t[i][j - 1] + InDel)
  <2>1. t[i][j] \in Nat
    BY <1>9
  <2>2. CASE i = 0
    <3>1. t[i] = First
      BY <1>4, <2>2
    <3>2. t[i][j] = j * InDel
      <4> HIDE DEF First
      <4> QED BY <1>6, <3>1
    <3>3. j = 0 => t[i][j] = i * InDel
      BY <2>2, <3>2
    <3> QED BY <2>1, <2>2, <3>2, <3>3
  <2>3. CASE i > 0
    <3>1. i \in 1..Len(a) /\ i - 1 \in 0..Len(a) /\ i \in Nat /\ i # 0
      BY <2>3
    <3> DEFINE above == t[i - 1]
    <3>2. t[i] = NextRow(a, b, above, i) /\ above \in [0..Len(b) -> Nat]
      <4> HIDE DEF First
      <4> QED BY <1>4, <1>9, <3>1
    <3> HIDE DEF above
    <3>3. /\ NextRow(a, b, above, i)[0] = i * InDel
          /\ \A n \in 1..Len(b) : NextRow(a, b, above, i)[n] =
               Cheapest(above[n - 1] + SubstitutionCost(a[i], b[n]), above[n] + InDel, NextRow(a, b, above, i)[n - 1] + InDel)
      <4>1. IsRow(NextRow(a, b, above, i), a, b, above, i)
        BY <3>1, <3>2, RowIs, ZenonT(60)
      <4> QED BY <4>1, ZenonT(60) DEF IsRow
    <3>4. j = 0 => t[i][j] = i * InDel
      BY <3>2, <3>3
    <3>5. j > 0 => t[i][j] = Cheapest(above[j - 1] + SubstitutionCost(a[i], b[j]), above[j] + InDel, t[i][j - 1] + InDel)
      <4>1. j > 0 => j \in 1..Len(b)
        OBVIOUS
      <4> QED BY <3>2, <3>3, <4>1
    <3> QED BY <2>1, <3>1, <3>4, <3>5 DEF above
  <2> QED BY <2>2, <2>3
<1> QED
  BY <1>2, <1>10 DEF IsTable

\* Replacing costs the same either way.
LEMMA CostIsSymmetric ==
  ASSUME NEW x, NEW y
  PROVE  SubstitutionCost(x, y) = SubstitutionCost(y, x) /\ SubstitutionCost(x, y) \in Nat
BY DEF SubstitutionCost

\* The table of b and a is that of a and b, turned.
LEMMA TablesTurn ==
  ASSUME NEW a, NEW b, Len(a) \in Nat, Len(b) \in Nat, NEW t, NEW u, IsTable(a, b, t), IsTable(b, a, u)
  PROVE  \A i \in 0..Len(a), j \in 0..Len(b) : t[i][j] = u[j][i]
<1> DEFINE Same(i, j) == t[i][j] = u[j][i]
           Rows == {i \in Nat : i <= Len(a) => \A j \in 0..Len(b) : Same(i, j)}
<1>1. 0 \in Rows
  <2>1. ASSUME NEW j \in 0..Len(b) PROVE Same(0, j)
    <3>1. 0 \in 0..Len(a)
      OBVIOUS
    <3> QED BY <3>1 DEF IsTable
  <2> QED BY <2>1
<1>2. ASSUME NEW i \in Nat, i \in Rows PROVE i + 1 \in Rows
  <2> SUFFICES ASSUME i + 1 <= Len(a) PROVE \A j \in 0..Len(b) : Same(i + 1, j)
    OBVIOUS
  <2>0. /\ i \in 0..Len(a) /\ i + 1 \in 0..Len(a) /\ (i + 1) - 1 = i /\ i + 1 > 0
        /\ \A j \in 0..Len(b) : Same(i, j)
    BY <1>2
  <2> DEFINE Cells == {j \in Nat : j <= Len(b) => Same(i + 1, j)}
  <2>1. 0 \in Cells
    <3>1. 0 \in 0..Len(b)
      OBVIOUS
    <3> QED BY <2>0, <3>1 DEF IsTable
  <2>2. ASSUME NEW j \in Nat, j \in Cells PROVE j + 1 \in Cells
    <3> SUFFICES ASSUME j + 1 <= Len(b) PROVE Same(i + 1, j + 1)
      OBVIOUS
    <3>1. j \in 0..Len(b) /\ j + 1 \in 0..Len(b) /\ (j + 1) - 1 = j /\ j + 1 > 0 /\ j <= Len(b)
      OBVIOUS
    <3>2. t[i][j] = u[j][i] /\ t[i][j + 1] = u[j + 1][i] /\ t[i + 1][j] = u[j][i + 1]
      BY <2>0, <2>2, <3>1
    <3>3. t[i][j] \in Nat /\ t[i][j + 1] \in Nat /\ t[i + 1][j] \in Nat
      BY <2>0, <3>1 DEF IsTable
    <3>4. t[i + 1][j + 1] =
            Cheapest(t[i][j] + SubstitutionCost(a[i + 1], b[j + 1]), t[i][j + 1] + InDel, t[i + 1][j] + InDel)
      BY <2>0, <3>1 DEF IsTable
    <3>5. u[j + 1][i + 1] =
            Cheapest(u[j][i] + SubstitutionCost(b[j + 1], a[i + 1]), u[j][i + 1] + InDel, u[j + 1][i] + InDel)
      BY <2>0, <3>1 DEF IsTable
    <3> DEFINE x == t[i][j] + SubstitutionCost(a[i + 1], b[j + 1])
               y == t[i][j + 1] + InDel
               z == t[i + 1][j] + InDel
    <3>6. x \in Nat /\ y \in Nat /\ z \in Nat
      <4>1. SubstitutionCost(a[i + 1], b[j + 1]) \in Nat /\ InDel \in Nat
        BY CostIsSymmetric DEF InDel
      <4>2. x \in Nat
        BY ONLY <3>3, <4>1
      <4>3. y \in Nat /\ z \in Nat
        BY ONLY <3>3, <4>1
      <4> QED BY <4>2, <4>3
    <3>7. x = u[j][i] + SubstitutionCost(b[j + 1], a[i + 1])
      BY <3>2, CostIsSymmetric
    <3>8. t[i + 1][j + 1] = Cheapest(x, y, z) /\ u[j + 1][i + 1] = Cheapest(x, z, y)
      BY <3>2, <3>4, <3>5, <3>7
    <3> HIDE DEF x, y, z
    <3> QED BY <3>6, <3>8, CheapestIs
  <2>3. Nat \subseteq Cells
    <3> HIDE DEF Cells
    <3> QED BY <2>1, <2>2, NatSetInduction
  <2> QED BY <2>3
<1>3. Nat \subseteq Rows
  <2> HIDE DEF Rows
  <2> QED BY <1>1, <1>2, NatSetInduction
<1> QED
  BY <1>3

\* The distance is a natural number, whichever sequence comes first.
LEMMA DistanceIs ==
  ASSUME NEW a, NEW b, Len(a) \in Nat, Len(b) \in Nat
  PROVE  Distance(a, b) \in Nat /\ Distance(a, b) = Distance(b, a)
<1>1. PICK t : IsTable(a, b, t) /\ Distance(a, b) = t[Len(a)][Len(b)]
  BY TableIs
<1>2. PICK u : IsTable(b, a, u) /\ Distance(b, a) = u[Len(b)][Len(a)]
  BY TableIs
<1>3. Len(a) \in 0..Len(a) /\ Len(b) \in 0..Len(b)
  OBVIOUS
<1>4. t[Len(a)][Len(b)] \in Nat
  BY <1>1, <1>3 DEF IsTable
<1>5. t[Len(a)][Len(b)] = u[Len(b)][Len(a)]
  BY <1>1, <1>2, <1>3, TablesTurn
<1> QED
  BY <1>1, <1>2, <1>4, <1>5

\* What is clamped is a share.
LEMMA ClampIs ==
  ASSUME NEW x \in Int
  PROVE  Clamp01(x) \in 0..1000
BY DEF Clamp01

\* Similarity is a share, whichever sequence comes first.
LEMMA SimilarityIs ==
  ASSUME NEW S, NEW a \in Seq(S), NEW b \in Seq(S)
  PROVE  SequenceSimilarity(a, b) \in 0..1000 /\ SequenceSimilarity(a, b) = SequenceSimilarity(b, a)
<1>0. Len(a) \in Nat /\ Len(b) \in Nat /\ (a = <<>> <=> Len(a) = 0) /\ (b = <<>> <=> Len(b) = 0)
  BY EmptySeq, LenProperties
<1>1. Distance(a, b) \in Nat /\ Distance(a, b) = Distance(b, a)
  BY <1>0, DistanceIs
<1> DEFINE longest == Max({Len(a), Len(b)})
           x == 1000 - (Distance(a, b) * 1000) \div (longest * InDel)
<1>2. {Len(a), Len(b)} = {Len(b), Len(a)}
  OBVIOUS
<1>3. CASE a # <<>> /\ b # <<>>
  <2>1. longest \in {Len(a), Len(b)}
    <3>1. Len(a) + Len(b) \in Nat /\ {Len(a), Len(b)} \subseteq 0..(Len(a) + Len(b)) /\ {Len(a), Len(b)} # {}
      BY <1>0
    <3> QED BY <3>1, LargestOne
  <2>2. longest \in Nat /\ longest > 0
    BY <1>0, <1>3, <2>1
  <2> HIDE DEF longest
  <2>3. longest * InDel \in Nat /\ longest * InDel > 0 /\ Distance(a, b) * 1000 \in Nat
    BY <1>1, <2>2 DEF InDel
  <2>4. x \in Int
    BY <2>3
  <2>5. SequenceSimilarity(a, b) = Clamp01(x)
    BY <1>3 DEF SequenceSimilarity, longest
  <2>6. SequenceSimilarity(b, a) = Clamp01(x)
    <3>1. SequenceSimilarity(b, a) = Clamp01(1000 - (Distance(b, a) * 1000) \div (Max({Len(b), Len(a)}) * InDel))
      BY <1>3 DEF SequenceSimilarity
    <3>2. Max({Len(b), Len(a)}) = longest
      BY <1>2, Zenon DEF longest
    <3>3. SequenceSimilarity(b, a) = Clamp01(1000 - (Distance(a, b) * 1000) \div (longest * InDel))
      BY ONLY <1>1, <3>1, <3>2
    <3> QED BY ONLY <3>3 DEF x
  <2> HIDE DEF x
  <2> QED BY <2>4, <2>5, <2>6, ClampIs, ZenonT(60)
<1>4. CASE a = <<>> \/ b = <<>>
  <2>1. CASE a = <<>> /\ b = <<>>
    <3>1. SequenceSimilarity(a, b) = 1000 /\ SequenceSimilarity(b, a) = 1000
      BY <2>1 DEF SequenceSimilarity
    <3> QED BY <3>1
  <2>2. CASE ~(a = <<>> /\ b = <<>>)
    <3>1. SequenceSimilarity(a, b) = 0 /\ SequenceSimilarity(b, a) = 0
      BY <1>4, <2>2 DEF SequenceSimilarity
    <3> QED BY <3>1
  <2> QED BY <2>1, <2>2
<1> QED
  BY <1>3, <1>4

-----------------------------------------------------------------------------
(* Clusters: any two runs of one are alike. *)

\* Every run that can be recorded, and the tokens of its events
RecordedRuns ==
  {[events |-> shape.events, minutes |-> shape.minutes, kept |-> shape.kept, day |-> d] : shape \in Shapes, d \in Nat}
KnownTokens == UNION {{Token(shape.events[k]) : k \in DOMAIN shape.events} : shape \in Shapes}

\* What a recorded run holds
LEMMA RunsAre ==
  ASSUME NEW run \in RecordedRuns
  PROVE  run.minutes \in Nat /\ run.day \in Nat /\ Tokens(run) \in Seq(KnownTokens)
<1>1. PICK shape \in Shapes, d \in Nat :
        run = [events |-> shape.events, minutes |-> shape.minutes, kept |-> shape.kept, day |-> d]
  BY DEF RecordedRuns
<1>2. run.events = shape.events /\ run.minutes = shape.minutes /\ run.day = d
  BY <1>1
<1> DEFINE T == {shape.events[k] : k \in DOMAIN shape.events}
<1>3. shape.minutes \in Nat /\ shape.events \in Seq(T)
  BY ShapesAssumption
<1>4. \A k \in DOMAIN shape.events : Token(shape.events[k]) \in KnownTokens
  BY DEF KnownTokens
<1>5. [k \in DOMAIN shape.events |-> Token(shape.events[k])] \in [DOMAIN shape.events -> KnownTokens]
  BY <1>4
<1> HIDE DEF T
<1>6. [k \in DOMAIN shape.events |-> Token(shape.events[k])] \in Seq(KnownTokens)
  BY <1>3, <1>5, SameLength
<1>7. Tokens(run) = [k \in DOMAIN shape.events |-> Token(shape.events[k])]
  BY <1>2 DEF Tokens
<1> QED
  BY <1>2, <1>3, <1>6, <1>7

\* The checks are the same whichever run comes first.
LEMMA SanityTurns ==
  ASSUME NEW x, NEW y
  PROVE  PassesSanityChecks(x, y) <=> PassesSanityChecks(y, x)
<1>1. /\ {x.minutes, y.minutes} = {y.minutes, x.minutes}
      /\ AppsOf(x) \cap AppsOf(y) = AppsOf(y) \cap AppsOf(x)
      /\ AppsOf(x) \cup AppsOf(y) = AppsOf(y) \cup AppsOf(x)
  OBVIOUS
<1> QED
  BY <1>1, Zenon DEF PassesSanityChecks

\* The similarity of two runs is a share, whichever comes first.
LEMMA PairIs ==
  ASSUME NEW x \in RecordedRuns, NEW y \in RecordedRuns
  PROVE  PairSimilarity(x, y) \in 0..1000 /\ PairSimilarity(x, y) = PairSimilarity(y, x)
<1>1. Tokens(x) \in Seq(KnownTokens) /\ Tokens(y) \in Seq(KnownTokens)
  BY RunsAre
<1>2. /\ SequenceSimilarity(Tokens(x), Tokens(y)) \in 0..1000
      /\ SequenceSimilarity(Tokens(x), Tokens(y)) = SequenceSimilarity(Tokens(y), Tokens(x))
  BY <1>1, SimilarityIs
<1>3. PassesSanityChecks(x, y) <=> PassesSanityChecks(y, x)
  BY SanityTurns
<1> QED
  BY <1>2, <1>3 DEF PairSimilarity

\* A share for every two of K, whichever comes first
IsSimilarity(sim, K) == \A i, j \in K : sim[<<i, j>>] \in 0..1000 /\ sim[<<i, j>>] = sim[<<j, i>>]

\* Runs that are recorded at different positions, and alike
AreAlike(sim, K, c) ==
  /\ c \in Seq(K) /\ c # <<>>
  /\ \A p, q \in DOMAIN c : p # q => c[p] # c[q] /\ sim[<<c[p], c[q]>>] >= SimilarityThreshold
SharedNone(c, d) == \A p \in DOMAIN c, q \in DOMAIN d : c[p] # d[q]
Clustered(sim, K, clusters) ==
  /\ DOMAIN clusters = 1..Len(clusters) /\ Len(clusters) \in Nat /\ clusters \in Seq(Seq(K))
  /\ \A n \in DOMAIN clusters : AreAlike(sim, K, clusters[n])
  /\ \A m, n \in DOMAIN clusters : m # n => SharedNone(clusters[m], clusters[n])

\* The least similar pair of two clusters
LEMMA LinkageIs ==
  ASSUME NEW K, NEW sim, IsSimilarity(sim, K), NEW c, NEW d, AreAlike(sim, K, c), AreAlike(sim, K, d)
  PROVE  /\ Linkage(sim, c, d) \in 0..1000
         /\ \A p \in DOMAIN c, q \in DOMAIN d : Linkage(sim, c, d) <= sim[<<c[p], d[q]>>]
<1>1. c \in Seq(K) /\ d \in Seq(K) /\ c # <<>> /\ d # <<>>
  BY DEF AreAlike
<1>2. 1 \in DOMAIN c /\ 1 \in DOMAIN d
  BY <1>1, EmptySeq, LenProperties
<1>3. (\A p \in DOMAIN c : c[p] \in K) /\ (\A q \in DOMAIN d : d[q] \in K)
  BY <1>1, Elements
<1> DEFINE T == {sim[ij] : ij \in ToSet(c) \X ToSet(d)}
<1>4. \A p \in DOMAIN c, q \in DOMAIN d : sim[<<c[p], d[q]>>] \in T
  BY DEF ToSet
<1>5. \A x \in T : \E p \in DOMAIN c, q \in DOMAIN d : x = sim[<<c[p], d[q]>>]
  BY DEF ToSet
<1> HIDE DEF T
<1>6. ASSUME NEW x \in T PROVE x \in 0..1000 /\ x \in Nat
  <2>1. PICK p \in DOMAIN c, q \in DOMAIN d : x = sim[<<c[p], d[q]>>]
    BY <1>5
  <2>2. c[p] \in K /\ d[q] \in K
    BY <1>3
  <2>3. sim[<<c[p], d[q]>>] \in 0..1000
    BY <2>2, ZenonT(60) DEF IsSimilarity
  <2> QED BY <2>1, <2>3
<1>7. T # {} /\ T \subseteq Nat
  <2>1. sim[<<c[1], d[1]>>] \in T
    BY <1>2, <1>4
  <2> QED BY <2>1, <1>6
<1>8. Min(T) \in T /\ \A x \in T : Min(T) <= x
  BY <1>7, SmallestOne
<1>9. Linkage(sim, c, d) = Min(T)
  BY Zenon DEF Linkage, T
<1> QED
  BY <1>4, <1>6, <1>8, <1>9

\* Two clusters, whose least similar pair is alike, make one.
LEMMA TwoAreAlike ==
  ASSUME NEW K, NEW sim, IsSimilarity(sim, K), NEW c, NEW d, AreAlike(sim, K, c), AreAlike(sim, K, d),
         SharedNone(c, d), Linkage(sim, c, d) >= SimilarityThreshold
  PROVE  /\ AreAlike(sim, K, c \o d)
         /\ \A e : SharedNone(e, c) /\ SharedNone(e, d) => SharedNone(e, c \o d) /\ SharedNone(c \o d, e)
<1> DEFINE both == c \o d
<1>1. /\ c \in Seq(K) /\ d \in Seq(K) /\ c # <<>> /\ DOMAIN c = 1..Len(c) /\ DOMAIN d = 1..Len(d)
      /\ Len(c) \in Nat /\ Len(d) \in Nat
  BY LenProperties DEF AreAlike
<1>2. /\ both \in Seq(K) /\ DOMAIN both = 1..Len(c) + Len(d)
      /\ \A p \in 1..Len(c) + Len(d) : both[p] = IF p <= Len(c) THEN c[p] ELSE d[p - Len(c)]
  BY <1>1, ConcatProperties, LenProperties
<1>3. both # <<>>
  <2>1. Len(c) # 0
    BY <1>1, EmptySeq
  <2>2. 1 \in DOMAIN both
    BY <1>1, <1>2, <2>1
  <2>3. DOMAIN <<>> = {}
    OBVIOUS
  <2> HIDE DEF both
  <2> QED BY <2>2, <2>3
<1> HIDE DEF both
<1>4. \A p \in DOMAIN both : \/ p \in DOMAIN c /\ both[p] = c[p]
                             \/ p - Len(c) \in DOMAIN d /\ both[p] = d[p - Len(c)] /\ p > Len(c)
  BY <1>1, <1>2
<1>5. (\A p \in DOMAIN c : c[p] \in K) /\ (\A q \in DOMAIN d : d[q] \in K)
  BY <1>1, Elements
<1>6. ASSUME NEW p \in DOMAIN c, NEW q \in DOMAIN d
      PROVE  /\ c[p] # d[q] /\ d[q] # c[p]
             /\ sim[<<c[p], d[q]>>] >= SimilarityThreshold /\ sim[<<d[q], c[p]>>] >= SimilarityThreshold
  <2>1. Linkage(sim, c, d) \in 0..1000 /\ Linkage(sim, c, d) <= sim[<<c[p], d[q]>>]
    BY LinkageIs
  <2>2. sim[<<c[p], d[q]>>] \in 0..1000 /\ sim[<<c[p], d[q]>>] = sim[<<d[q], c[p]>>]
    BY <1>5 DEF IsSimilarity
  <2>3. c[p] # d[q]
    BY DEF SharedNone
  <2>4. sim[<<c[p], d[q]>>] >= SimilarityThreshold
    <3> DEFINE x == Linkage(sim, c, d)
               y == sim[<<c[p], d[q]>>]
    <3>a. x \in 0..1000 /\ x <= y
      BY <2>1
    <3>b. y \in 0..1000
      BY <2>2
    <3>c. x >= SimilarityThreshold
      OBVIOUS
    <3>d. SimilarityThreshold \in Nat
      BY DEF SimilarityThreshold
    <3> HIDE DEF x, y
    <3>2. y >= SimilarityThreshold
      BY ONLY <3>a, <3>b, <3>c, <3>d
    <3> QED BY <3>2 DEF y
  <2> QED BY <2>2, <2>3, <2>4
<1>7. ASSUME NEW p \in DOMAIN both, NEW q \in DOMAIN both, p # q
      PROVE  both[p] # both[q] /\ sim[<<both[p], both[q]>>] >= SimilarityThreshold
  <2>1. CASE p \in DOMAIN c /\ both[p] = c[p] /\ q \in DOMAIN c /\ both[q] = c[q]
    BY <1>7, <2>1 DEF AreAlike
  <2>2. CASE p \in DOMAIN c /\ both[p] = c[p] /\ q - Len(c) \in DOMAIN d /\ both[q] = d[q - Len(c)] /\ q > Len(c)
    BY <1>6, <2>2
  <2>3. CASE p - Len(c) \in DOMAIN d /\ both[p] = d[p - Len(c)] /\ p > Len(c) /\ q \in DOMAIN c /\ both[q] = c[q]
    BY <1>6, <2>3
  <2>4. CASE /\ p - Len(c) \in DOMAIN d /\ both[p] = d[p - Len(c)] /\ p > Len(c)
             /\ q - Len(c) \in DOMAIN d /\ both[q] = d[q - Len(c)] /\ q > Len(c)
    <3>1. p - Len(c) # q - Len(c)
      BY <1>1, <1>2, <1>7
    <3> QED BY <2>4, <3>1 DEF AreAlike
  <2> QED BY <1>4, <2>1, <2>2, <2>3, <2>4
<1>8. AreAlike(sim, K, both)
  BY <1>2, <1>3, <1>7 DEF AreAlike
<1>9. ASSUME NEW e, SharedNone(e, c), SharedNone(e, d) PROVE SharedNone(e, both) /\ SharedNone(both, e)
  BY <1>4, <1>9 DEF SharedNone
<1> QED
  BY <1>8, <1>9 DEF both

\* What is left when a cluster is taken out
LEMMA StayClustered ==
  ASSUME NEW K, NEW sim, NEW clusters, Clustered(sim, K, clusters), NEW n \in DOMAIN clusters
  PROVE  /\ Clustered(sim, K, RemoveAt(clusters, n))
         /\ \A m \in DOMAIN RemoveAt(clusters, n) : \E k \in DOMAIN clusters :
              k # n /\ RemoveAt(clusters, n)[m] = clusters[k]
         /\ \A m \in DOMAIN clusters : m < n => m \in DOMAIN RemoveAt(clusters, n) /\ RemoveAt(clusters, n)[m] = clusters[m]
<1> DEFINE rest == RemoveAt(clusters, n)
           From(m) == IF m < n THEN m ELSE m + 1
<1>1. clusters \in Seq(Seq(K)) /\ DOMAIN clusters = 1..Len(clusters) /\ Len(clusters) \in Nat /\ n \in Nat
  BY DEF Clustered
<1>2. /\ rest \in Seq(Seq(K)) /\ Len(rest) = Len(clusters) - 1 /\ Len(rest) \in Nat /\ DOMAIN rest = 1..Len(rest)
      /\ \A m \in DOMAIN rest :
              /\ m \in Nat
              /\ m < n => m \in DOMAIN clusters /\ rest[m] = clusters[m]
              /\ ~(m < n) => m + 1 \in DOMAIN clusters /\ rest[m] = clusters[m + 1]
  <2> DEFINE S == Seq(K)
  <2>1. clusters \in Seq(S)
    BY <1>1
  <2> HIDE DEF S
  <2>2. /\ rest \in Seq(S) /\ Len(rest) = Len(clusters) - 1
        /\ \A m \in DOMAIN rest :
              /\ m \in Nat
              /\ m < n => m \in DOMAIN clusters /\ rest[m] = clusters[m]
              /\ ~(m < n) => m + 1 \in DOMAIN clusters /\ rest[m] = clusters[m + 1]
    BY <2>1, RemovedInOrder
  <2> HIDE DEF rest
  <2>3. Len(rest) \in Nat /\ DOMAIN rest = 1..Len(rest)
    BY <2>2, LenProperties
  <2> QED BY <2>2, <2>3 DEF S
<1> HIDE DEF rest
<1>3. \A m \in DOMAIN rest : From(m) \in DOMAIN clusters /\ From(m) # n /\ rest[m] = clusters[From(m)]
  BY <1>1, <1>2
<1>4. ASSUME NEW l \in DOMAIN rest, NEW m \in DOMAIN rest, l # m PROVE From(l) # From(m)
  <2>1. l \in Nat /\ m \in Nat /\ n \in Nat
    BY <1>1, <1>2
  <2> QED BY ONLY <1>4, <2>1
<1>5. \A m \in DOMAIN clusters : m < n => m \in DOMAIN rest /\ rest[m] = clusters[m]
  <2> SUFFICES ASSUME NEW m \in DOMAIN clusters, m < n PROVE m \in DOMAIN rest /\ rest[m] = clusters[m]
    OBVIOUS
  <2>1. m \in DOMAIN rest
    BY <1>1, <1>2
  <2> QED BY <1>2, <2>1
<1> HIDE DEF From
<1>6. \A m \in DOMAIN rest : AreAlike(sim, K, rest[m])
  BY <1>3 DEF Clustered
<1>7. \A l, m \in DOMAIN rest : l # m => SharedNone(rest[l], rest[m])
  BY <1>3, <1>4 DEF Clustered
<1>8. Clustered(sim, K, rest)
  BY <1>2, <1>6, <1>7 DEF Clustered
<1> QED
  BY <1>3, <1>5, <1>8 DEF rest

\* The clusters, merge by merge
Merging(c, ks, sim, m) ==
  c = [n \in 0..m |-> IF n = 0 THEN [i \in DOMAIN ks |-> <<ks[i]>>] ELSE MergeOnce(sim, c[n - 1])]

\* The recursive function of ClusterEpisodes is defined by its equation.
LEMMA MergingDefined ==
  ASSUME NEW ks, NEW sim, NEW m \in Nat
  PROVE  \E c : Merging(c, ks, sim, m)
<1> USE DEF Merging
<1> DEFINE Fits(c, k) == Merging(c, ks, sim, k)
           Defined == {k \in Nat : \E c : Fits(c, k)}
<1>1. 0 \in Defined
  <2> DEFINE c == [n \in 0..0 |-> [i \in DOMAIN ks |-> <<ks[i]>>]]
  <2>1. \A n \in 0..0 : n = 0
    OBVIOUS
  <2>2. Fits(c, 0)
    BY <2>1, Zenon
  <2> QED
    BY <2>2
<1>2. ASSUME NEW k \in Nat, k \in Defined PROVE k + 1 \in Defined
  <2>1. PICK c : Fits(c, k)
    BY <1>2
  <2> DEFINE next == MergeOnce(sim, c[k])
             d == [n \in 0..(k + 1) |-> IF n = k + 1 THEN next ELSE c[n]]
  <2>2. ASSUME NEW n \in 0..(k + 1)
        PROVE  d[n] = IF n = 0 THEN [i \in DOMAIN ks |-> <<ks[i]>>] ELSE MergeOnce(sim, d[n - 1])
    <3>1. CASE n = k + 1
      <4>1. n # 0 /\ d[n] = next /\ d[n - 1] = c[k] /\ k \in 0..(k + 1) /\ k # k + 1 /\ n - 1 = k
        BY <3>1
      <4> QED
        BY <3>1, <4>1
    <3>2. CASE n = 0
      <4>1. n # k + 1 /\ d[n] = c[n] /\ n \in 0..k
        BY <3>2
      <4> QED
        BY <2>1, <3>2, <4>1
    <3>3. CASE n # k + 1 /\ n # 0
      <4>1. d[n] = c[n] /\ d[n - 1] = c[n - 1] /\ n \in 0..k
        BY <3>3
      <4> QED
        BY <2>1, <3>3, <4>1
    <3> QED
      BY <3>1, <3>2, <3>3
  <2>3. Fits(d, k + 1)
    <3> DEFINE e == [n \in 0..(k + 1) |-> IF n = 0 THEN [i \in DOMAIN ks |-> <<ks[i]>>] ELSE MergeOnce(sim, d[n - 1])]
    <3>1. \A n \in 0..(k + 1) : d[n] = e[n]
      BY <2>2
    <3>2. d = [n \in 0..(k + 1) |-> d[n]]
      OBVIOUS
    <3> HIDE DEF d
    <3>3. d = e
      BY <3>1, <3>2
    <3> QED
      BY <3>3
  <2> HIDE DEF d, Fits
  <2> QED
    BY <2>3, k + 1 \in Nat
<1>3. Nat \subseteq Defined
  <2> HIDE DEF Defined
  <2> QED BY <1>1, <1>2, NatSetInduction
<1> QED
  BY <1>3


\* The first of some pairs of naturals, in the order of their first members and then of their second
LEMMA FirstPair ==
  ASSUME NEW R, R \subseteq Nat \X Nat, R # {}
  PROVE  \E ab \in R : \A o \in R : ab[1] < o[1] \/ (ab[1] = o[1] /\ ab[2] <= o[2])
<1> DEFINE firsts == {ab[1] : ab \in R}
           a == Min(firsts)
           seconds == {ab[2] : ab \in {o \in R : o[1] = a}}
           b == Min(seconds)
<1>1. firsts \subseteq Nat /\ firsts # {} /\ \A o \in R : o[1] \in firsts
  OBVIOUS
<1>2. a \in firsts /\ \A x \in firsts : a <= x
  <2> HIDE DEF firsts
  <2> QED BY <1>1, SmallestOne
<1>3. seconds \subseteq Nat /\ seconds # {} /\ \A o \in R : o[1] = a => o[2] \in seconds
  <2>1. PICK ab \in R : ab[1] = a
    BY <1>2
  <2> HIDE DEF a
  <2>2. ab[2] \in seconds
    BY <2>1
  <2>3. \A o \in R : o[1] = a => o[2] \in seconds
    OBVIOUS
  <2>4. \A x \in seconds : x \in Nat
    OBVIOUS
  <2> HIDE DEF seconds
  <2> QED BY <2>2, <2>3, <2>4
<1>4. b \in seconds /\ \A x \in seconds : b <= x
  <2> HIDE DEF seconds
  <2> QED BY <1>3, SmallestOne
<1>5. PICK ab \in R : ab[1] = a /\ ab[2] = b
  <2> HIDE DEF a, b
  <2> QED BY <1>4
<1> HIDE DEF firsts, seconds, a, b
<1>6. \A o \in R : o[1] \in Nat /\ o[2] \in Nat
  OBVIOUS
<1>7. ASSUME NEW o \in R PROVE ab[1] < o[1] \/ (ab[1] = o[1] /\ ab[2] <= o[2])
  <2>1. a <= o[1] /\ (o[1] = a => b <= o[2]) /\ a \in Nat /\ o[1] \in Nat
    BY <1>1, <1>2, <1>3, <1>4, <1>5, <1>6
  <2> QED BY <1>5, <2>1
<1> QED
  BY <1>7

\* One merge: nothing, when no two clusters are near, or two near clusters become one.
Merges(sim, clusters, merged) ==
  \E a, b \in DOMAIN clusters :
    /\ a < b /\ Linkage(sim, clusters[a], clusters[b]) >= SimilarityThreshold
    /\ merged = Append(RemoveAt(RemoveAt(clusters, b), a), clusters[a] \o clusters[b])

\* One turn of the clustering merges two clusters that are similar enough, or none.
LEMMA MergeOnceIs ==
  ASSUME NEW K, NEW sim, IsSimilarity(sim, K), NEW clusters, Clustered(sim, K, clusters)
  PROVE  MergeOnce(sim, clusters) = clusters \/ Merges(sim, clusters, MergeOnce(sim, clusters))
<1> DEFINE strength(ab) == Linkage(sim, clusters[ab[1]], clusters[ab[2]])
           near == {ab \in (DOMAIN clusters) \X (DOMAIN clusters) : ab[1] < ab[2] /\ strength(ab) >= SimilarityThreshold}
           strengths == {strength(o) : o \in near}
           strongest == {ab \in near : strength(ab) = Max(strengths)}
           best == CHOOSE ab \in strongest :
                     \A o \in strongest : ab[1] < o[1] \/ (ab[1] = o[1] /\ ab[2] <= o[2])
<1>1. MergeOnce(sim, clusters) =
        IF near = {} THEN clusters
        ELSE Append(RemoveAt(RemoveAt(clusters, best[2]), best[1]), clusters[best[1]] \o clusters[best[2]])
  BY DEF MergeOnce
<1>2. DOMAIN clusters = 1..Len(clusters) /\ Len(clusters) \in Nat
  BY DEF Clustered
<1>3. CASE near # {}
  <2>1. \A ab \in near : ab[1] \in DOMAIN clusters /\ ab[2] \in DOMAIN clusters /\ ab[1] < ab[2]
    OBVIOUS
  <2>2. \A ab \in near : strength(ab) \in 0..1000
    <3> SUFFICES ASSUME NEW ab \in near PROVE strength(ab) \in 0..1000
      OBVIOUS
    <3>1. ab[1] \in DOMAIN clusters /\ ab[2] \in DOMAIN clusters
      BY <2>1
    <3>2. AreAlike(sim, K, clusters[ab[1]]) /\ AreAlike(sim, K, clusters[ab[2]])
      BY <3>1 DEF Clustered
    <3> DEFINE c == clusters[ab[1]]
               d == clusters[ab[2]]
    <3>3. strength(ab) = Linkage(sim, c, d) /\ AreAlike(sim, K, c) /\ AreAlike(sim, K, d)
      BY <3>2
    <3> HIDE DEF c, d, strength
    <3>4. Linkage(sim, c, d) \in 0..1000
      BY <3>3, LinkageIs
    <3> QED BY <3>3, <3>4
  <2>3. near \subseteq Nat \X Nat
    BY <1>2
  <2>4. \A ab \in near : strength(ab) \in strengths
    OBVIOUS
  <2>5. strengths \subseteq 0..1000 /\ strengths # {}
    <3> HIDE DEF near, strength
    <3>1. \A x \in strengths : x \in 0..1000
      BY <2>2
    <3>2. PICK ab : ab \in near
      BY <1>3
    <3>3. strength(ab) \in strengths
      BY <2>4, <3>2
    <3> HIDE DEF strengths
    <3> QED BY <3>1, <3>3
  <2>6. Max(strengths) \in strengths
    <3> HIDE DEF strengths
    <3> QED BY <2>5, LargestOne, 1000 \in Nat, ZenonT(60)
  <2>7. strongest # {} /\ strongest \subseteq near
    <3> HIDE DEF near, strength
    <3>1. PICK ab \in near : strength(ab) = Max(strengths)
      BY <2>6
    <3> QED BY <3>1
  <2>8. best \in strongest
    <3>1. strongest \subseteq Nat \X Nat
      <4> HIDE DEF strongest, near
      <4> QED BY <2>3, <2>7
    <3> HIDE DEF strongest
    <3>2. \E ab \in strongest : \A o \in strongest : ab[1] < o[1] \/ (ab[1] = o[1] /\ ab[2] <= o[2])
      BY <2>7, <3>1, FirstPair
    <3> QED BY <3>2
  <2> DEFINE a == best[1]
             b == best[2]
  <2>9. best \in near
    <3> HIDE DEF best, near, strongest
    <3> QED BY <2>7, <2>8
  <2>10. a \in DOMAIN clusters /\ b \in DOMAIN clusters /\ a < b
    <3> HIDE DEF best, near
    <3> QED BY <2>1, <2>9
  <2>11. Linkage(sim, clusters[a], clusters[b]) >= SimilarityThreshold
    <3> HIDE DEF best
    <3> QED BY <2>9
  <2>12. MergeOnce(sim, clusters) = Append(RemoveAt(RemoveAt(clusters, b), a), clusters[a] \o clusters[b])
    <3> HIDE DEF best, near
    <3> QED BY <1>1, <1>3
  <2> HIDE DEF a, b
  <2> QED BY <2>10, <2>11, <2>12 DEF Merges
<1>4. CASE near = {}
  <2> HIDE DEF near, best
  <2> QED BY <1>1, <1>4
<1> QED
  BY <1>3, <1>4

\* A merge keeps the clusters alike and apart.
LEMMA MergeKeeps ==
  ASSUME NEW K, NEW sim, IsSimilarity(sim, K), NEW clusters, Clustered(sim, K, clusters)
  PROVE  Clustered(sim, K, MergeOnce(sim, clusters))
<1> SUFFICES ASSUME Merges(sim, clusters, MergeOnce(sim, clusters)) PROVE Clustered(sim, K, MergeOnce(sim, clusters))
  BY MergeOnceIs
<1>1. PICK a \in DOMAIN clusters, b \in DOMAIN clusters :
        /\ a < b /\ Linkage(sim, clusters[a], clusters[b]) >= SimilarityThreshold
        /\ MergeOnce(sim, clusters) = Append(RemoveAt(RemoveAt(clusters, b), a), clusters[a] \o clusters[b])
  BY DEF Merges
<1>2. a \in Nat /\ b \in Nat /\ a # b
  BY <1>1 DEF Clustered
<1> DEFINE less == RemoveAt(clusters, b)
           rest == RemoveAt(less, a)
           both == clusters[a] \o clusters[b]
<1>3. /\ Clustered(sim, K, less) /\ a \in DOMAIN less /\ less[a] = clusters[a]
      /\ \A m \in DOMAIN less : \E k \in DOMAIN clusters : k # b /\ less[m] = clusters[k]
  BY <1>1, StayClustered
<1> HIDE DEF less
<1>4. /\ Clustered(sim, K, rest)
      /\ \A m \in DOMAIN rest : \E k \in DOMAIN less : k # a /\ rest[m] = less[k]
  BY <1>3, StayClustered
<1> HIDE DEF rest
<1>5. /\ AreAlike(sim, K, clusters[a]) /\ AreAlike(sim, K, clusters[b]) /\ SharedNone(clusters[a], clusters[b])
  BY <1>2 DEF Clustered
<1>6. /\ AreAlike(sim, K, both)
      /\ \A e : SharedNone(e, clusters[a]) /\ SharedNone(e, clusters[b]) => SharedNone(e, both) /\ SharedNone(both, e)
  BY <1>1, <1>5, TwoAreAlike
<1> HIDE DEF both
<1>7. ASSUME NEW m \in DOMAIN rest PROVE SharedNone(rest[m], both) /\ SharedNone(both, rest[m])
  <2>1. PICK k \in DOMAIN less : k # a /\ rest[m] = less[k]
    BY <1>4
  <2>2. SharedNone(rest[m], clusters[a])
    BY <1>3, <2>1 DEF Clustered
  <2>3. PICK l \in DOMAIN clusters : l # b /\ less[k] = clusters[l]
    BY <1>3
  <2>4. SharedNone(rest[m], clusters[b])
    BY <2>1, <2>3 DEF Clustered
  <2> QED BY <1>6, <2>2, <2>4
<1> DEFINE merged == Append(rest, both)
           S == Seq(K)
<1>8. rest \in Seq(S) /\ both \in S
  BY <1>4, <1>6 DEF Clustered, AreAlike
<1> HIDE DEF S
<1>9. /\ merged \in Seq(S) /\ DOMAIN merged = DOMAIN rest \cup {Len(rest) + 1} /\ Len(rest) + 1 \notin DOMAIN rest
      /\ (\A i \in DOMAIN rest : merged[i] = rest[i]) /\ merged[Len(rest) + 1] = both
  BY <1>8, Appended
<1> HIDE DEF merged
<1>10. Len(merged) \in Nat /\ DOMAIN merged = 1..Len(merged) /\ merged \in Seq(Seq(K))
  BY <1>9, LenProperties DEF S
<1>11. \A n \in DOMAIN merged : AreAlike(sim, K, merged[n])
  BY <1>4, <1>6, <1>9 DEF Clustered
<1>12. ASSUME NEW m \in DOMAIN merged, NEW n \in DOMAIN merged, m # n PROVE SharedNone(merged[m], merged[n])
  <2>1. CASE m \in DOMAIN rest /\ n \in DOMAIN rest
    BY <1>4, <1>9, <1>12, <2>1 DEF Clustered
  <2>2. CASE m \in DOMAIN rest /\ n = Len(rest) + 1
    BY <1>7, <1>9, <2>2
  <2>3. CASE m = Len(rest) + 1 /\ n \in DOMAIN rest
    BY <1>7, <1>9, <2>3
  <2> QED BY <1>9, <1>12, <2>1, <2>2, <2>3
<1>13. Clustered(sim, K, merged)
  BY <1>10, <1>11, <1>12 DEF Clustered
<1>14. MergeOnce(sim, clusters) = merged
  BY <1>1 DEF merged, rest, less, both
<1> QED
  BY <1>13, <1>14

\* What has been learned is of recorded runs.
Remembered == recorded \in Seq(RecordedRuns) /\ tuning \in Tunings

\* What the similarities of some runs are looked up in
LEMMA PairsAre ==
  ASSUME Remembered, NEW ks \in Seq(DOMAIN recorded)
  PROVE  /\ IsSimilarity(PairSimilarities(ks), ToSet(ks))
         /\ \A i, j \in ToSet(ks) : PairSimilarities(ks)[<<i, j>>] = PairSimilarity(recorded[i], recorded[j])
<1>1. \A k \in ToSet(ks) : k \in DOMAIN recorded
  <2>1. \A n \in DOMAIN ks : ks[n] \in DOMAIN recorded
    BY Elements
  <2> QED BY <2>1 DEF ToSet
<1>2. \A k \in ToSet(ks) : recorded[k] \in RecordedRuns
  <2>1. recorded \in Seq(RecordedRuns)
    BY DEF Remembered
  <2> QED BY <1>1, <2>1, Elements
<1>3. ASSUME NEW i \in ToSet(ks), NEW j \in ToSet(ks)
      PROVE  PairSimilarities(ks)[<<i, j>>] = PairSimilarity(recorded[i], recorded[j])
  <2> DEFINE ij == <<i, j>>
  <2>1. ij \in ToSet(ks) \X ToSet(ks) /\ ij[1] = i /\ ij[2] = j
    OBVIOUS
  <2> HIDE DEF ij
  <2>2. PairSimilarities(ks)[ij] = PairSimilarity(recorded[i], recorded[j])
    BY <2>1 DEF PairSimilarities
  <2> QED BY <2>2 DEF ij
<1>4. ASSUME NEW i \in ToSet(ks), NEW j \in ToSet(ks)
      PROVE  /\ PairSimilarities(ks)[<<i, j>>] \in 0..1000
             /\ PairSimilarities(ks)[<<i, j>>] = PairSimilarities(ks)[<<j, i>>]
  <2>1. recorded[i] \in RecordedRuns /\ recorded[j] \in RecordedRuns
    BY <1>2
  <2>2. /\ PairSimilarity(recorded[i], recorded[j]) \in 0..1000
        /\ PairSimilarity(recorded[i], recorded[j]) = PairSimilarity(recorded[j], recorded[i])
    BY <2>1, PairIs, ZenonT(60)
  <2>3. /\ PairSimilarities(ks)[<<i, j>>] = PairSimilarity(recorded[i], recorded[j])
        /\ PairSimilarities(ks)[<<j, i>>] = PairSimilarity(recorded[j], recorded[i])
    BY <1>3
  <2> DEFINE there == PairSimilarities(ks)[<<i, j>>]
             back == PairSimilarities(ks)[<<j, i>>]
             x == PairSimilarity(recorded[i], recorded[j])
             y == PairSimilarity(recorded[j], recorded[i])
  <2>4. there = x /\ back = y /\ x \in 0..1000 /\ x = y
    BY <2>2, <2>3
  <2>5. there \in 0..1000 /\ there = back
    <3> HIDE DEF there, back, x, y
    <3> QED BY <2>4
  <2> QED BY <2>5
<1> QED
  BY <1>3, <1>4 DEF IsSimilarity

\* Every cluster of different runs is of runs that are alike.
LEMMA ClustersAre ==
  ASSUME Remembered, NEW ks \in Seq(DOMAIN recorded), \A m, n \in DOMAIN ks : m # n => ks[m] # ks[n]
  PROVE  Clustered(PairSimilarities(ks), ToSet(ks), ClusterEpisodes(ks))
<1> DEFINE sim == PairSimilarities(ks)
           K == ToSet(ks)
           merged == CHOOSE c : Merging(c, ks, sim, Len(ks))
           first == [i \in DOMAIN ks |-> <<ks[i]>>]
<1>0. Len(ks) \in Nat /\ DOMAIN ks = 1..Len(ks)
  BY LenProperties
<1>1. Merging(merged, ks, sim, Len(ks))
  BY <1>0, MergingDefined
<1>2. ClusterEpisodes(ks) = merged[Len(ks)]
  BY Zenon DEF ClusterEpisodes, Merging
<1>3. IsSimilarity(sim, K)
  BY PairsAre
<1> HIDE DEF merged, sim
<1>4. merged[0] = first /\ \A n \in 1..Len(ks) : merged[n] = MergeOnce(sim, merged[n - 1])
  <2>1. \A n \in 0..Len(ks) : merged[n] = IF n = 0 THEN first ELSE MergeOnce(sim, merged[n - 1])
    BY <1>1, Zenon DEF Merging
  <2> HIDE DEF first
  <2>2. 0 \in 0..Len(ks) /\ \A n \in 1..Len(ks) : n \in 0..Len(ks) /\ n # 0
    BY <1>0
  <2> QED BY <2>1, <2>2, Zenon
<1>5. Clustered(sim, K, first)
  <2>1. \A i \in DOMAIN ks : ks[i] \in K
    BY DEF ToSet
  <2> HIDE DEF K
  <2>2. first \in [DOMAIN ks -> Seq(K)]
    BY <2>1
  <2>3. first \in Seq(Seq(K)) /\ Len(first) = Len(ks) /\ DOMAIN first = DOMAIN ks
    <3> HIDE DEF first
    <3> QED BY <2>2, SameLength
  <2>4. ASSUME NEW i \in DOMAIN ks PROVE AreAlike(sim, K, first[i])
    <3> DEFINE one == <<ks[i]>>
    <3>1. one \in Seq(K) /\ DOMAIN one = {1} /\ one # <<>> /\ first[i] = one
      BY <2>1
    <3> HIDE DEF one, first
    <3> QED BY <3>1 DEF AreAlike
  <2>5. ASSUME NEW m \in DOMAIN ks, NEW n \in DOMAIN ks, m # n PROVE SharedNone(first[m], first[n])
    <3> DEFINE one == <<ks[m]>>
               other == <<ks[n]>>
    <3>1. /\ first[m] = one /\ first[n] = other /\ DOMAIN one = {1} /\ DOMAIN other = {1}
          /\ one[1] = ks[m] /\ other[1] = ks[n]
      OBVIOUS
    <3>2. ks[m] # ks[n]
      BY <2>5
    <3> HIDE DEF one, other, first
    <3> QED BY <3>1, <3>2 DEF SharedNone
  <2> HIDE DEF first
  <2> QED BY <1>0, <2>3, <2>4, <2>5 DEF Clustered
<1> HIDE DEF first, K
<1> DEFINE Fine == {n \in Nat : n <= Len(ks) => Clustered(sim, K, merged[n])}
<1>6. 0 \in Fine
  BY <1>4, <1>5
<1>7. ASSUME NEW n \in Nat, n \in Fine PROVE n + 1 \in Fine
  <2> SUFFICES ASSUME n + 1 <= Len(ks) PROVE Clustered(sim, K, merged[n + 1])
    OBVIOUS
  <2>1. n + 1 \in 1..Len(ks) /\ (n + 1) - 1 = n /\ n <= Len(ks)
    BY <1>0
  <2>2. Clustered(sim, K, merged[n]) /\ merged[n + 1] = MergeOnce(sim, merged[n])
    BY <1>4, <1>7, <2>1
  <2> QED BY <1>3, <2>2, MergeKeeps
<1>8. Nat \subseteq Fine
  <2> HIDE DEF Fine
  <2> QED BY <1>6, <1>7, NatSetInduction
<1>9. Clustered(sim, K, merged[Len(ks)])
  BY <1>0, <1>8
<1> QED
  BY <1>2, <1>9 DEF sim, K

-----------------------------------------------------------------------------
(* Replay: what is called a match is one. *)

\* Twice the median of integers is an integer.
LEMMA MedianIs ==
  ASSUME NEW values \in Seq(Int)
  PROVE  Median2(values) \in Int
<1> DEFINE v == ByRank(values, values)
           n == Len(values)
<1>0. n \in Nat /\ DOMAIN values = 1..n
  BY LenProperties
<1>1. \A i \in DOMAIN values : values[i] \in Int
  BY Elements
<1>2. v \in Seq(Int) /\ DOMAIN v = 1..n
  BY <1>0, <1>1, ByRankIs
<1>3. Median2(values) = IF n = 0 THEN 0 ELSE v[(n + 1) \div 2] + v[n \div 2 + 1]
  BY Zenon DEF Median2, MiddleTwo
<1> HIDE DEF v, n
<1>4. n # 0 => (n + 1) \div 2 \in 1..n /\ n \div 2 + 1 \in 1..n
  BY <1>0
<1>5. \A i \in 1..n : v[i] \in Int
  BY <1>2, Elements
<1>6. CASE n = 0
  BY <1>3, <1>6
<1>7. CASE n # 0
  <2>1. v[(n + 1) \div 2] \in Int /\ v[n \div 2 + 1] \in Int
    BY <1>4, <1>5, <1>7
  <2> QED BY <1>3, <1>7, <2>1
<1> QED
  BY <1>6, <1>7

\* The sequence nearest the median is one of them.
LEMMA NearestIs ==
  ASSUME NEW S, NEW seqs \in Seq(Seq(S)), seqs # <<>>, NEW target \in Int
  PROVE  Nearest(seqs, target) \in Seq(S)
<1> DEFINE off == [n \in DOMAIN seqs |-> Apart(2 * Len(seqs[n]), target)]
           one == CHOOSE n \in DOMAIN seqs : \A o \in DOMAIN seqs : off[n] < off[o] \/ (off[n] = off[o] /\ n <= o)
           R == {<<off[n], n>> : n \in DOMAIN seqs}
<1>1. DOMAIN seqs = 1..Len(seqs) /\ Len(seqs) \in Nat /\ Len(seqs) # 0 /\ \A n \in DOMAIN seqs : seqs[n] \in Seq(S)
  BY EmptySeq, LenProperties, Elements
<1>2. \A n \in DOMAIN seqs : off[n] \in Nat
  <2> TAKE n \in DOMAIN seqs
  <2>1. Len(seqs[n]) \in Nat
    BY <1>1, LenProperties
  <2> DEFINE x == 2 * Len(seqs[n])
  <2>2. x \in Int
    BY <2>1
  <2> HIDE DEF x
  <2>3. Apart(x, target) \in Nat
    BY <2>2 DEF Apart
  <2> QED BY <2>3 DEF x
<1> HIDE DEF off
<1>3. R \subseteq Nat \X Nat /\ R # {}
  <2>1. \A n \in DOMAIN seqs : n \in Nat /\ off[n] \in Nat
    BY <1>1, <1>2
  <2>2. 1 \in DOMAIN seqs
    BY <1>1
  <2>3. <<off[1], 1>> \in R
    BY <2>2
  <2>4. \A ab \in R : ab \in Nat \X Nat
    BY <2>1
  <2> HIDE DEF R
  <2> QED BY <2>3, <2>4
<1>4. \E ab \in R : \A o \in R : ab[1] < o[1] \/ (ab[1] = o[1] /\ ab[2] <= o[2])
  <2> HIDE DEF R
  <2> QED BY <1>3, FirstPair
<1>5. \E n \in DOMAIN seqs : \A o \in DOMAIN seqs : off[n] < off[o] \/ (off[n] = off[o] /\ n <= o)
  <2>1. PICK ab \in R : \A o \in R : ab[1] < o[1] \/ (ab[1] = o[1] /\ ab[2] <= o[2])
    BY <1>4
  <2>2. PICK n \in DOMAIN seqs : ab = <<off[n], n>>
    BY <2>1
  <2>3. ab[1] = off[n] /\ ab[2] = n
    BY <2>2
  <2>4. ASSUME NEW o \in DOMAIN seqs PROVE off[n] < off[o] \/ (off[n] = off[o] /\ n <= o)
    <3> DEFINE p == <<off[o], o>>
    <3>1. p \in R /\ p[1] = off[o] /\ p[2] = o
      OBVIOUS
    <3> HIDE DEF p, R
    <3> QED BY <2>1, <2>3, <3>1
  <2> QED BY <2>4
<1>6. one \in DOMAIN seqs
  BY <1>5
<1>7. Nearest(seqs, target) = seqs[one]
  BY Zenon DEF Nearest, off
<1> HIDE DEF one
<1> QED
  BY <1>1, <1>6, <1>7

\* What stands for some runs is made of known tokens.
LEMMA RepresentativeIs ==
  ASSUME Remembered, NEW ks \in Seq(DOMAIN recorded), ks # <<>>
  PROVE  Representative(ks) \in Seq(KnownTokens)
<1> DEFINE seqs == [n \in DOMAIN ks |-> Tokens(recorded[ks[n]])]
           lens == [n \in DOMAIN seqs |-> Len(seqs[n])]
<1>1. \A n \in DOMAIN ks : Tokens(recorded[ks[n]]) \in Seq(KnownTokens)
  <2> TAKE n \in DOMAIN ks
  <2>1. ks[n] \in DOMAIN recorded
    BY Elements
  <2>2. recorded[ks[n]] \in RecordedRuns
    BY <2>1, Elements DEF Remembered
  <2> QED BY <2>2, RunsAre
<1>2. seqs \in Seq(Seq(KnownTokens)) /\ DOMAIN seqs = DOMAIN ks /\ Len(seqs) = Len(ks)
  <2>1. seqs \in [DOMAIN ks -> Seq(KnownTokens)]
    BY <1>1
  <2> HIDE DEF seqs
  <2> QED BY <2>1, SameLength
<1>3. \A n \in DOMAIN seqs : Len(seqs[n]) \in Int
  <2>1. \A n \in DOMAIN seqs : seqs[n] \in Seq(KnownTokens)
    BY <1>1
  <2> HIDE DEF seqs
  <2> QED BY <2>1, LenProperties
<1> HIDE DEF seqs
<1>4. lens \in Seq(Int)
  <2>1. lens \in [DOMAIN seqs -> Int]
    BY <1>3
  <2> HIDE DEF lens
  <2> DEFINE S == Seq(KnownTokens)
  <2>2. seqs \in Seq(S)
    BY <1>2
  <2> HIDE DEF S
  <2> QED BY <2>1, <2>2, SameLength
<1>5. seqs # <<>>
  <2>1. Len(ks) # 0 /\ Len(<<>>) = 0
    BY EmptySeq
  <2> QED BY <1>2, <2>1
<1>6. Median2(lens) \in Int
  <2> HIDE DEF lens
  <2> QED BY <1>4, MedianIs
<1>7. Nearest(seqs, Median2(lens)) \in Seq(KnownTokens)
  <2> HIDE DEF lens
  <2> QED BY <1>2, <1>5, <1>6, NearestIs
<1>8. Representative(ks) = Nearest(seqs, Median2(lens))
  BY DEF Representative, RepresentativeSequence, seqs
<1> QED
  BY <1>7, <1>8

\* What the walk may have found
Positions == [cursor : Nat \ {0}, aligned : Nat, lost : BOOLEAN]

\* One step of the walk goes on, past the token it found, or is lost.
LEMMA AlignIs ==
  ASSUME NEW S, NEW trace \in Seq(S), NEW at \in Positions, NEW step
  PROVE  LET on == Align(trace, at, step) IN
         /\ on \in Positions
         /\ ~on.lost => /\ ~at.lost /\ on.aligned = at.aligned + 1
                        /\ on.cursor - 1 \in DOMAIN trace /\ on.cursor - 1 >= at.cursor
                        /\ ComparisonKey(trace[on.cursor - 1]) = ComparisonKey(step)
<1> DEFINE next == {j \in at.cursor .. Len(trace) : ComparisonKey(trace[j]) = ComparisonKey(step)}
           on == Align(trace, at, step)
<1>0. /\ Len(trace) \in Nat /\ DOMAIN trace = 1..Len(trace)
      /\ at.cursor \in Nat /\ at.cursor > 0 /\ at.aligned \in Nat /\ at.lost \in BOOLEAN
  BY LenProperties DEF Positions
<1>1. on = IF at.lost \/ next = {} THEN [at EXCEPT !.lost = TRUE]
           ELSE [cursor |-> Min(next) + 1, aligned |-> at.aligned + 1, lost |-> FALSE]
  BY Zenon DEF Align
<1>2. next \subseteq at.cursor .. Len(trace) /\ \A j \in next : ComparisonKey(trace[j]) = ComparisonKey(step)
  OBVIOUS
<1> HIDE DEF next, on
<1>3. CASE at.lost \/ next = {}
  <2>1. on = [at EXCEPT !.lost = TRUE]
    BY <1>1, <1>3
  <2>2. on \in Positions /\ on.lost
    BY <2>1 DEF Positions
  <2> QED BY <2>2 DEF on
<1>4. CASE ~at.lost /\ next # {}
  <2>1. Min(next) \in next
    <3>1. next \subseteq Nat
      BY <1>0, <1>2
    <3> QED BY <1>4, <3>1, SmallestOne
  <2> DEFINE j == Min(next)
  <2> HIDE DEF j
  <2>2. j \in Nat /\ j \in 1..Len(trace) /\ j >= at.cursor /\ ComparisonKey(trace[j]) = ComparisonKey(step)
    <3>1. j \in at.cursor .. Len(trace) /\ ComparisonKey(trace[j]) = ComparisonKey(step)
      BY <1>2, <2>1, Zenon DEF j
    <3> QED BY <1>0, <3>1
  <2>3. on = [cursor |-> j + 1, aligned |-> at.aligned + 1, lost |-> FALSE]
    BY <1>1, <1>4 DEF j
  <2>4. j + 1 \in Nat \ {0} /\ at.aligned + 1 \in Nat /\ (j + 1) - 1 = j
    BY <1>0, <2>2
  <2>5. on \in Positions /\ ~on.lost /\ on.aligned = at.aligned + 1 /\ on.cursor - 1 = j
    BY <2>3, <2>4 DEF Positions
  <2> QED BY <1>0, <1>4, <2>2, <2>5 DEF on
<1> QED
  BY <1>0, <1>3, <1>4

\* The walk along the trace, step by step
Walking(c, steps, trace, m) ==
  c = [n \in 0..m |-> IF n = 0 THEN [cursor |-> 1, aligned |-> 0, lost |-> FALSE] ELSE Align(trace, c[n - 1], steps[n])]

\* The recursive function of Walk is defined by its equation.
LEMMA WalkingDefined ==
  ASSUME NEW steps, NEW trace, NEW m \in Nat
  PROVE  \E c : Walking(c, steps, trace, m)
<1> USE DEF Walking
<1> DEFINE Fits(c, k) == Walking(c, steps, trace, k)
           Defined == {k \in Nat : \E c : Fits(c, k)}
<1>1. 0 \in Defined
  <2> DEFINE c == [n \in 0..0 |-> [cursor |-> 1, aligned |-> 0, lost |-> FALSE]]
  <2>1. \A n \in 0..0 : n = 0
    OBVIOUS
  <2>2. Fits(c, 0)
    BY <2>1, Zenon
  <2> QED
    BY <2>2
<1>2. ASSUME NEW k \in Nat, k \in Defined PROVE k + 1 \in Defined
  <2>1. PICK c : Fits(c, k)
    BY <1>2
  <2> DEFINE next == Align(trace, c[k], steps[k + 1])
             d == [n \in 0..(k + 1) |-> IF n = k + 1 THEN next ELSE c[n]]
  <2>2. ASSUME NEW n \in 0..(k + 1)
        PROVE  d[n] = IF n = 0 THEN [cursor |-> 1, aligned |-> 0, lost |-> FALSE] ELSE Align(trace, d[n - 1], steps[n])
    <3>1. CASE n = k + 1
      <4>1. n # 0 /\ d[n] = next /\ d[n - 1] = c[k] /\ k \in 0..(k + 1) /\ k # k + 1 /\ n - 1 = k
        BY <3>1
      <4> QED
        BY <3>1, <4>1
    <3>2. CASE n = 0
      <4>1. n # k + 1 /\ d[n] = c[n] /\ n \in 0..k
        BY <3>2
      <4> QED
        BY <2>1, <3>2, <4>1
    <3>3. CASE n # k + 1 /\ n # 0
      <4>1. d[n] = c[n] /\ d[n - 1] = c[n - 1] /\ n \in 0..k
        BY <3>3
      <4> QED
        BY <2>1, <3>3, <4>1
    <3> QED
      BY <3>1, <3>2, <3>3
  <2>3. Fits(d, k + 1)
    <3> DEFINE e == [n \in 0..(k + 1) |-> IF n = 0 THEN [cursor |-> 1, aligned |-> 0, lost |-> FALSE] ELSE Align(trace, d[n - 1], steps[n])]
    <3>1. \A n \in 0..(k + 1) : d[n] = e[n]
      BY <2>2
    <3>2. d = [n \in 0..(k + 1) |-> d[n]]
      OBVIOUS
    <3> HIDE DEF d
    <3>3. d = e
      BY <3>1, <3>2
    <3> QED
      BY <3>3
  <2> HIDE DEF d, Fits
  <2> QED
    BY <2>3, k + 1 \in Nat
<1>3. Nat \subseteq Defined
  <2> HIDE DEF Defined
  <2> QED BY <1>1, <1>2, NatSetInduction
<1> QED
  BY <1>3

\* What is called a match embeds every step in the trace.
LEMMA WalkIs ==
  ASSUME NEW S, NEW steps \in Seq(S), NEW trace \in Seq(S)
  PROVE  LET walked == Walk(steps, trace) IN
         /\ walked.verdict = "insufficient_evidence" <=> steps = <<>> \/ trace = <<>>
         /\ walked.expected = Len(steps) /\ walked.aligned \in Nat
         /\ walked.verdict = "match" => /\ steps # <<>> /\ trace # <<>>
                                       /\ walked.aligned = Len(steps) /\ Embeds(steps, trace)
<1> DEFINE at == CHOOSE c : Walking(c, steps, trace, Len(steps))
           Start == [cursor |-> 1, aligned |-> 0, lost |-> FALSE]
           end == at[Len(steps)]
           walked == Walk(steps, trace)
<1>0. Len(steps) \in Nat /\ DOMAIN steps = 1..Len(steps)
  BY LenProperties
<1>1. Walking(at, steps, trace, Len(steps))
  BY <1>0, WalkingDefined
<1>2. walked = Verdict(steps, trace, end)
  BY Zenon DEF Walk, Walking
<1> HIDE DEF at
<1>3. at[0] = Start /\ \A n \in 1..Len(steps) : at[n] = Align(trace, at[n - 1], steps[n])
  <2>1. \A n \in 0..Len(steps) : at[n] = IF n = 0 THEN Start ELSE Align(trace, at[n - 1], steps[n])
    BY <1>1, Zenon DEF Walking
  <2> HIDE DEF Start
  <2>2. 0 \in 0..Len(steps) /\ \A n \in 1..Len(steps) : n \in 0..Len(steps) /\ n # 0
    BY <1>0
  <2> QED BY <2>1, <2>2, Zenon
<1> DEFINE Placed(n) == ~at[n].lost =>
             /\ at[n].aligned = n
             /\ \A i \in 1..n : /\ at[i].cursor \in Nat /\ at[i].cursor <= at[n].cursor
                                /\ at[i].cursor - 1 \in DOMAIN trace
                                /\ ComparisonKey(steps[i]) = ComparisonKey(trace[at[i].cursor - 1])
             /\ \A i, j \in 1..n : i < j => at[i].cursor < at[j].cursor
           Fine == {n \in Nat : n <= Len(steps) => at[n] \in Positions /\ Placed(n)}
<1>4. 0 \in Fine
  <2>1. Start \in Positions /\ Start.aligned = 0
    BY DEF Positions
  <2>2. 1..0 = {}
    OBVIOUS
  <2> HIDE DEF Start
  <2> QED BY <1>3, <2>1, <2>2
<1>5. ASSUME NEW n \in Nat, n \in Fine PROVE n + 1 \in Fine
  <2> HIDE DEF Placed
  <2> SUFFICES ASSUME n + 1 <= Len(steps) PROVE at[n + 1] \in Positions /\ Placed(n + 1)
    OBVIOUS
  <2> USE DEF Placed
  <2>1. n + 1 \in 1..Len(steps) /\ (n + 1) - 1 = n /\ n <= Len(steps)
    BY <1>0
  <2>2. at[n] \in Positions /\ Placed(n) /\ at[n + 1] = Align(trace, at[n], steps[n + 1])
    BY <1>3, <1>5, <2>1
  <2> DEFINE on == at[n + 1]
  <2>3. /\ on \in Positions
        /\ ~on.lost => /\ ~at[n].lost /\ on.aligned = at[n].aligned + 1
                       /\ on.cursor - 1 \in DOMAIN trace /\ on.cursor - 1 >= at[n].cursor
                       /\ ComparisonKey(trace[on.cursor - 1]) = ComparisonKey(steps[n + 1])
    <3> HIDE DEF Placed
    <3> QED BY <2>2, AlignIs, SMTT(30)
  <2>4. at[n].cursor \in Nat /\ on.cursor \in Nat
    BY <2>2, <2>3 DEF Positions
  <2>5. ASSUME ~on.lost PROVE on.aligned = n + 1
    BY <2>2, <2>3, <2>5
  <2>6. ASSUME ~on.lost, NEW i \in 1..n + 1
        PROVE  /\ at[i].cursor \in Nat /\ at[i].cursor <= on.cursor
               /\ at[i].cursor - 1 \in DOMAIN trace
               /\ ComparisonKey(steps[i]) = ComparisonKey(trace[at[i].cursor - 1])
    <3>1. CASE i = n + 1
      BY <2>3, <2>4, <2>6, <3>1
    <3>2. CASE i \in 1..n
      <4>1. /\ at[i].cursor \in Nat /\ at[i].cursor <= at[n].cursor
            /\ at[i].cursor - 1 \in DOMAIN trace
            /\ ComparisonKey(steps[i]) = ComparisonKey(trace[at[i].cursor - 1])
        BY <2>2, <2>3, <2>6, <3>2
      <4>2. on.cursor - 1 >= at[n].cursor
        BY <2>3, <2>6
      <4> HIDE DEF on
      <4>3. at[i].cursor <= on.cursor
        BY <2>4, <4>1, <4>2
      <4> QED BY <4>1, <4>3
    <3> QED BY <3>1, <3>2
  <2>7. ASSUME ~on.lost, NEW i \in 1..n + 1, NEW j \in 1..n + 1, i < j PROVE at[i].cursor < at[j].cursor
    <3>1. CASE j = n + 1
      <4>1. i \in 1..n
        BY <2>7, <3>1
      <4>2. at[i].cursor \in Nat /\ at[i].cursor <= at[n].cursor
        BY <2>2, <2>3, <2>7, <4>1
      <4>3. on.cursor - 1 >= at[n].cursor
        BY <2>3, <2>7
      <4> HIDE DEF on
      <4>4. at[i].cursor < on.cursor
        BY <2>4, <4>2, <4>3
      <4> QED BY <3>1, <4>4 DEF on
    <3>2. CASE j \in 1..n
      <4>1. i \in 1..n
        BY <2>7, <3>2
      <4> QED BY <2>2, <2>3, <2>7, <3>2, <4>1
    <3> QED BY <3>1, <3>2
  <2> QED BY <2>3, <2>5, <2>6, <2>7
<1>6. end \in Positions /\ Placed(Len(steps))
  <2>1. Nat \subseteq Fine
    <3> HIDE DEF Fine
    <3> QED BY <1>4, <1>5, NatSetInduction
  <2> HIDE DEF Placed
  <2> QED BY <1>0, <2>1
<1>7. /\ walked.verdict = IF steps = <<>> \/ trace = <<>> THEN "insufficient_evidence"
                         ELSE IF ~end.lost THEN "match" ELSE IF end.aligned = 0 THEN "miss" ELSE "partial"
      /\ walked.aligned = end.aligned /\ walked.expected = Len(steps)
  <2> HIDE DEF end, walked
  <2> QED BY <1>2 DEF Verdict
<1>8. end.aligned \in Nat
  BY <1>6 DEF Positions
<1>9. ASSUME ~end.lost PROVE end.aligned = Len(steps) /\ Embeds(steps, trace)
  <2> DEFINE f == [i \in DOMAIN steps |-> at[i].cursor - 1]
  <2>1. f \in [DOMAIN steps -> DOMAIN trace]
    BY <1>0, <1>6, <1>9
  <2>2. \A i \in DOMAIN steps : ComparisonKey(steps[i]) = ComparisonKey(trace[f[i]])
    BY <1>0, <1>6, <1>9
  <2>3. ASSUME NEW i \in DOMAIN steps, NEW j \in DOMAIN steps, i < j PROVE f[i] < f[j]
    <3>1. at[i].cursor \in Nat /\ at[j].cursor \in Nat /\ at[i].cursor < at[j].cursor
      BY <1>0, <1>6, <1>9, <2>3
    <3> QED BY <3>1
  <2>4. end.aligned = Len(steps)
    BY <1>6, <1>9
  <2> HIDE DEF f
  <2> QED BY <2>1, <2>2, <2>3, <2>4 DEF Embeds
<1> HIDE DEF end, walked, Placed, Fine
<1>10. walked.verdict = "insufficient_evidence" <=> steps = <<>> \/ trace = <<>>
  BY <1>7
<1>11. walked.verdict = "match" => steps # <<>> /\ trace # <<>> /\ ~end.lost
  BY <1>7
<1> QED
  BY <1>7, <1>8, <1>9, <1>10, <1>11 DEF walked

-----------------------------------------------------------------------------
(* The newest runs, and the runs that are left when one of them is held out *)

\* From the latest run to the earliest
Falls(t) == \A m, n \in DOMAIN t : m < n => t[m] > t[n]

\* Runs that fall are the descending list of their set.
LEMMA DescendingIs ==
  ASSUME NEW t \in Seq(Nat), Falls(t)
  PROVE  /\ Descending(ToSet(t)) = t
         /\ IsFiniteSet(ToSet(t)) /\ Cardinality(ToSet(t)) = Len(t)
         /\ \A n \in DOMAIN t : Cardinality({o \in ToSet(t) : o > t[n]}) = n - 1
<1> DEFINE R == ToSet(t)
<1>0. Len(t) \in Nat /\ DOMAIN t = 1..Len(t) /\ \A n \in DOMAIN t : t[n] \in Nat
  BY LenProperties, Elements
<1>1. (\A n \in DOMAIN t : t[n] \in R) /\ (\A k \in R : \E n \in DOMAIN t : k = t[n])
  BY DEF ToSet
<1>2. \A m, n \in DOMAIN t : t[m] = t[n] => m = n
  <2> SUFFICES ASSUME NEW m \in DOMAIN t, NEW n \in DOMAIN t, t[m] = t[n], m # n PROVE FALSE
    OBVIOUS
  <2>1. m < n \/ n < m
    BY <1>0
  <2>2. t[m] > t[n] \/ t[n] > t[m]
    BY <2>1 DEF Falls
  <2> QED BY <1>0, <2>2
<1> HIDE DEF R
<1>3. IsFiniteSet(R) /\ Cardinality(R) = Len(t)
  <2>1. t \in Bijection(1..Len(t), R)
    <3>1. t \in [1..Len(t) -> R]
      <4>1. t = [n \in 1..Len(t) |-> t[n]]
        BY <1>0
      <4> QED BY <1>0, <1>1, <4>1
    <3>2. t \in Injection(1..Len(t), R)
      BY <1>0, <1>2, <3>1 DEF Injection, IsInjective
    <3>3. t \in Surjection(1..Len(t), R)
      BY <1>0, <1>1, <3>1 DEF Surjection
    <3> QED BY <3>2, <3>3 DEF Bijection
  <2>2. IsFiniteSet(1..Len(t)) /\ Cardinality(1..Len(t)) = Len(t)
    <3>1. 1 \in Int /\ Len(t) \in Int
      BY <1>0
    <3>2. IsFiniteSet(1..Len(t)) /\ Cardinality(1..Len(t)) = IF 1 > Len(t) THEN 0 ELSE Len(t) - 1 + 1
      BY <3>1, FS_Interval
    <3> QED BY <1>0, <3>2
  <2>3. ExistsBijection(1..Len(t), R)
    BY <2>1 DEF ExistsBijection
  <2> QED BY <2>2, <2>3, FS_Bijection
<1>4. ASSUME NEW n \in DOMAIN t
      PROVE  Cardinality({o \in R : o > t[n]}) = n - 1
  <2> DEFINE A == {o \in R : o > t[n]}
             f == [i \in 1 .. n - 1 |-> t[i]]
  <2>0. \A i \in 1 .. n - 1 : i \in DOMAIN t /\ i < n
    BY <1>0
  <2>1. \A i \in 1 .. n - 1 : t[i] \in A
    BY <1>1, <2>0 DEF Falls
  <2>2. \A o \in A : \E i \in 1 .. n - 1 : t[i] = o
    <3> SUFFICES ASSUME NEW o \in A PROVE \E i \in 1 .. n - 1 : t[i] = o
      OBVIOUS
    <3>1. PICK i \in DOMAIN t : o = t[i]
      BY <1>1
    <3>2. t[i] > t[n] /\ t[i] \in Nat /\ t[n] \in Nat /\ i \in Nat /\ n \in Nat
      BY <1>0, <3>1
    <3>3. ~(n < i) /\ n # i
      <4>1. n < i => t[n] > t[i]
        BY DEF Falls
      <4> QED BY <3>2, <4>1
    <3>4. i \in 1 .. n - 1
      BY <1>0, <3>2, <3>3
    <3> QED BY <3>1, <3>4
  <2>3. f \in [1 .. n - 1 -> A]
    <3> HIDE DEF A
    <3> QED BY <2>1
  <2>4. \A i \in 1 .. n - 1 : f[i] = t[i]
    OBVIOUS
  <2> HIDE DEF A, f
  <2>5. f \in Bijection(1 .. n - 1, A)
    <3>1. f \in Injection(1 .. n - 1, A)
      BY <1>2, <2>0, <2>3, <2>4 DEF Injection, IsInjective
    <3>2. f \in Surjection(1 .. n - 1, A)
      BY <2>2, <2>3, <2>4 DEF Surjection
    <3> QED BY <3>1, <3>2 DEF Bijection
  <2>6. IsFiniteSet(1 .. n - 1) /\ Cardinality(1 .. n - 1) = n - 1
    <3>1. 1 \in Int /\ n - 1 \in Int /\ n - 1 >= 0
      BY <1>0
    <3>2. IsFiniteSet(1 .. n - 1) /\ Cardinality(1 .. n - 1) = IF 1 > n - 1 THEN 0 ELSE n - 1 - 1 + 1
      BY <3>1, FS_Interval
    <3> QED BY <3>1, <3>2
  <2>7. ExistsBijection(1 .. n - 1, A)
    BY <2>5 DEF ExistsBijection
  <2>8. Cardinality(A) = n - 1
    BY <2>6, <2>7, FS_Bijection
  <2> QED BY <2>8 DEF A
<1>5. Descending(R) = t
  <2> DEFINE Place(k) == Cardinality({o \in R : o > k})
             Nth(n) == CHOOSE k \in R : Place(k) = n - 1
  <2>1. Descending(R) = [n \in 1..Len(t) |-> Nth(n)]
    BY <1>3 DEF Descending
  <2>2. ASSUME NEW n \in 1..Len(t) PROVE Nth(n) = t[n]
    <3>1. \A k \in R : \E m \in DOMAIN t : k = t[m] /\ Place(k) = m - 1
      BY <1>1, <1>4
    <3>2. t[n] \in R /\ Place(t[n]) = n - 1
      BY <1>0, <1>1, <1>4
    <3> HIDE DEF Place
    <3>3. Nth(n) \in R /\ Place(Nth(n)) = n - 1
      BY <3>2
    <3> DEFINE k == Nth(n)
    <3> HIDE DEF Nth, k
    <3>4. PICK m \in DOMAIN t : k = t[m] /\ Place(k) = m - 1
      BY <3>1, <3>3 DEF k
    <3>5. m - 1 = n - 1
      BY <3>3, <3>4 DEF k
    <3>6. m = n
      BY <1>0, <3>5
    <3> QED BY <3>4, <3>6 DEF k
  <2> HIDE DEF Nth
  <2>3. [n \in 1..Len(t) |-> Nth(n)] = [n \in 1..Len(t) |-> t[n]]
    BY <2>2
  <2>4. t = [n \in 1..Len(t) |-> t[n]]
    BY <1>0
  <2> QED BY <2>1, <2>3, <2>4
<1> QED
  BY <1>3, <1>4, <1>5 DEF R

\* The runs that the replay tests are the newest of the members.
LEMMA NewestIs ==
  ASSUME NEW c \in Seq(Nat), \A m, n \in DOMAIN c : m # n => c[m] # c[n]
  PROVE  /\ Newest(c) \in Seq(Nat) /\ Falls(Newest(c))
         /\ ToSet(Newest(c)) = {k \in ToSet(c) : Cardinality({o \in ToSet(c) : o > k}) < VerifyWindow}
<1> DEFINE ranks == [n \in DOMAIN c |-> -c[n]]
           d == ByRank(c, ranks)
           least == Min({VerifyWindow, Len(c)})
           t == SubSeq(d, 1, least)
<1>0. Len(c) \in Nat /\ DOMAIN c = 1..Len(c) /\ (\A n \in DOMAIN c : c[n] \in Nat) /\ VerifyWindow \in Nat
  BY LenProperties, Elements, GateAssumption
<1>1. \A n \in DOMAIN c : ranks[n] \in Int /\ ranks[n] = -c[n]
  BY <1>0
<1> HIDE DEF ranks
<1>2. d \in Seq(Nat) /\ Len(d) = Len(c) /\ DOMAIN d = DOMAIN c
  <2>1. \A n \in DOMAIN c : ranks[n] \in Int
    BY <1>1
  <2> QED BY <2>1, ByRankIs
<1>3. PICK from \in [DOMAIN c -> DOMAIN c] :
           /\ \A k \in DOMAIN c : d[k] = c[from[k]]
           /\ \A k, l \in DOMAIN c : k < l => ranks[from[k]] <= ranks[from[l]] /\ from[k] # from[l]
           /\ \A i \in DOMAIN c : \E k \in DOMAIN c : from[k] = i
  <2>1. IsRanked(c, ranks, d)
    <3>1. \A n \in DOMAIN c : ranks[n] \in Int
      BY <1>1
    <3> QED BY <3>1, ByRankIs
  <2> HIDE DEF d
  <2> QED BY <2>1 DEF IsRanked
<1> HIDE DEF d
<1>4. Falls(d)
  <2> SUFFICES ASSUME NEW k \in DOMAIN c, NEW l \in DOMAIN c, k < l PROVE d[k] > d[l]
    BY <1>2 DEF Falls
  <2>1. from[k] \in DOMAIN c /\ from[l] \in DOMAIN c
    OBVIOUS
  <2>2. ranks[from[k]] <= ranks[from[l]] /\ from[k] # from[l] /\ d[k] = c[from[k]] /\ d[l] = c[from[l]]
    BY <1>3
  <2>3. c[from[k]] # c[from[l]]
    BY <2>1, <2>2
  <2>4. -d[k] <= -d[l] /\ d[k] # d[l] /\ d[k] \in Nat /\ d[l] \in Nat
    BY <1>0, <1>1, <2>1, <2>2, <2>3
  <2> QED BY ONLY <2>4
<1>5. ToSet(d) = ToSet(c)
  <2>1. \A k \in DOMAIN c : \E i \in DOMAIN c : d[k] = c[i]
    BY <1>3
  <2>2. ASSUME NEW i \in DOMAIN c PROVE \E k \in DOMAIN c : d[k] = c[i]
    <3>1. PICK k \in DOMAIN c : from[k] = i
      BY <1>3
    <3>2. d[k] = c[i]
      BY <1>3, <3>1
    <3> QED BY <3>2
  <2> QED BY <1>2, <2>1, <2>2 DEF ToSet
<1>6. \A n \in DOMAIN d : Cardinality({o \in ToSet(c) : o > d[n]}) = n - 1
  <2>1. \A n \in DOMAIN d : Cardinality({o \in ToSet(d) : o > d[n]}) = n - 1
    BY <1>2, <1>4, DescendingIs
  <2> QED BY <1>5, <2>1
<1>7. least \in Nat /\ least <= VerifyWindow /\ least <= Len(c) /\ (least = VerifyWindow \/ least = Len(c))
  <2>1. {VerifyWindow, Len(c)} \subseteq Nat /\ {VerifyWindow, Len(c)} # {}
    BY <1>0
  <2>2. least \in {VerifyWindow, Len(c)} /\ \A j \in {VerifyWindow, Len(c)} : least <= j
    BY <2>1, SmallestOne, SMTT(30)
  <2> HIDE DEF least
  <2> QED BY <1>0, <2>2
<1> HIDE DEF least
<1>8. t \in Seq(Nat) /\ DOMAIN t = 1..least /\ \A n \in 1..least : t[n] = d[n] /\ n \in DOMAIN d
  <2>0. Len(d) \in Nat /\ least \in Nat /\ least <= Len(d) /\ DOMAIN d = 1..Len(d)
    BY <1>0, <1>2, <1>7
  <2>1. d \in Seq(Nat) /\ Len(d) \in Nat /\ DOMAIN d = 1..Len(d) /\ least \in 0..Len(d)
    BY ONLY <1>2, <2>0
  <2>2. t = [n \in 1..least |-> d[n]]
    BY <2>1
  <2>3. \A n \in 1..least : n \in DOMAIN d /\ d[n] \in Nat
    BY <2>1, Elements
  <2>4. t \in Seq(Nat)
    <3>1. [n \in 1..least |-> d[n]] \in Seq(Nat)
      <4>1. \A n \in 1..least : d[n] \in Nat
        BY <2>3
      <4>2. least \in Nat
        BY <1>7
      <4> QED BY ONLY <4>1, <4>2
    <3> QED BY <2>2, <3>1
  <2> QED BY <2>2, <2>3, <2>4
<1>9. Newest(c) = t
  BY DEF Newest, least, d, ranks
<1> HIDE DEF t
<1>10. Falls(t)
  BY <1>4, <1>8 DEF Falls
<1>11. ASSUME NEW k PROVE k \in ToSet(t) <=> k \in ToSet(c) /\ Cardinality({o \in ToSet(c) : o > k}) < VerifyWindow
  <2>1. ASSUME k \in ToSet(t) PROVE k \in ToSet(c) /\ Cardinality({o \in ToSet(c) : o > k}) < VerifyWindow
    <3>1. PICK n \in 1..least : k = t[n]
      BY <1>8, <2>1 DEF ToSet
    <3>2. n \in DOMAIN d /\ k = d[n]
      BY <1>8, <3>1
    <3>3. k \in ToSet(c)
      BY <1>5, <3>2 DEF ToSet
    <3>4. Cardinality({o \in ToSet(c) : o > k}) = n - 1
      BY <1>6, <3>2
    <3>5. n - 1 < VerifyWindow
      <4>1. least \in Nat /\ least <= VerifyWindow /\ VerifyWindow \in Nat /\ n \in 1..least
        BY <1>0, <1>7
      <4> QED BY ONLY <4>1
    <3> QED BY <3>3, <3>4, <3>5
  <2>2. ASSUME k \in ToSet(c), Cardinality({o \in ToSet(c) : o > k}) < VerifyWindow PROVE k \in ToSet(t)
    <3>1. PICK n \in DOMAIN d : k = d[n]
      BY <1>5, <2>2 DEF ToSet
    <3>2. n - 1 < VerifyWindow
      BY <1>6, <2>2, <3>1
    <3>3. n \in 1..least
      <4>1. n \in 1..Len(c)
        BY <1>0, <1>2, <3>1
      <4>2. n <= VerifyWindow /\ n <= Len(c)
        BY <1>0, <3>2, <4>1
      <4> QED BY <1>7, <4>1, <4>2
    <3> QED BY <1>8, <3>1, <3>3 DEF ToSet
  <2> QED BY <2>1, <2>2
<1> QED
  BY <1>8, <1>9, <1>10, <1>11

\* Without one of them, they are the descending list of the others.
LEMMA TrainingIs ==
  ASSUME NEW t \in Seq(Nat), Falls(t), NEW n \in DOMAIN t
  PROVE  /\ Training(t, n) = Descending(ToSet(t) \ {t[n]}) /\ Training(t, n) \in Seq(Nat)
         /\ ToSet(Training(t, n)) \subseteq ToSet(t) /\ Len(Training(t, n)) = Len(t) - 1
<1> DEFINE rest == RemoveAt(t, n)
           From(m) == IF m < n THEN m ELSE m + 1
<1>0. Len(t) \in Nat /\ DOMAIN t = 1..Len(t) /\ (\A i \in DOMAIN t : t[i] \in Nat) /\ n \in Nat
  BY LenProperties, Elements
<1>1. /\ rest \in Seq(Nat) /\ Len(rest) = Len(t) - 1
      /\ \A m \in DOMAIN rest :
              /\ m \in Nat
              /\ m < n => m \in DOMAIN t /\ rest[m] = t[m]
              /\ ~(m < n) => m + 1 \in DOMAIN t /\ rest[m] = t[m + 1]
  BY RemovedInOrder
<1>2. DOMAIN rest = 1 .. Len(t) - 1 /\ Training(t, n) = rest
  <2>1. DOMAIN rest = 1..Len(rest)
    <3> HIDE DEF rest
    <3> QED BY <1>1, LenProperties
  <2>2. Training(t, n) = rest
    BY DEF Training
  <2> HIDE DEF rest
  <2> QED BY <1>1, <2>1, <2>2
<1> HIDE DEF rest
<1>3. \A m \in DOMAIN rest : From(m) \in DOMAIN t /\ From(m) # n /\ rest[m] = t[From(m)]
  BY <1>0, <1>1
<1>4. ASSUME NEW l \in DOMAIN rest, NEW m \in DOMAIN rest, l < m PROVE From(l) < From(m)
  <2>1. l \in Nat /\ m \in Nat /\ n \in Nat
    BY <1>0, <1>1
  <2> QED BY ONLY <1>4, <2>1
<1>5. ASSUME NEW i \in DOMAIN t, i # n PROVE \E m \in DOMAIN rest : From(m) = i
  <2>1. CASE i < n
    <3>1. i \in DOMAIN rest /\ From(i) = i
      BY <1>0, <1>2, <2>1
    <3> QED BY <3>1
  <2>2. CASE i > n
    <3>1. i - 1 \in DOMAIN rest /\ From(i - 1) = i
      BY <1>0, <1>2, <2>2
    <3> QED BY <3>1
  <2> QED BY <1>0, <1>5, <2>1, <2>2
<1> HIDE DEF From
<1>6. Falls(rest)
  BY <1>3, <1>4 DEF Falls
<1>7. \A i, j \in DOMAIN t : t[i] = t[j] => i = j
  <2> SUFFICES ASSUME NEW i \in DOMAIN t, NEW j \in DOMAIN t, t[i] = t[j], i # j PROVE FALSE
    OBVIOUS
  <2>1. i < j \/ j < i
    BY <1>0
  <2>2. t[i] > t[j] \/ t[j] > t[i]
    BY <2>1 DEF Falls
  <2> QED BY <1>0, <2>2
<1>8. ToSet(rest) = ToSet(t) \ {t[n]}
  <2>1. ASSUME NEW k \in ToSet(rest) PROVE k \in ToSet(t) \ {t[n]}
    <3>1. PICK m \in DOMAIN rest : k = rest[m]
      BY <2>1 DEF ToSet
    <3>2. From(m) \in DOMAIN t /\ From(m) # n /\ k = t[From(m)]
      BY <1>3, <3>1
    <3> QED BY <1>7, <3>2 DEF ToSet
  <2>2. ASSUME NEW k \in ToSet(t) \ {t[n]} PROVE k \in ToSet(rest)
    <3>1. PICK i \in DOMAIN t : k = t[i]
      BY <2>2 DEF ToSet
    <3>2. i # n
      BY <2>2, <3>1
    <3>3. PICK m \in DOMAIN rest : From(m) = i
      BY <1>5, <3>2
    <3> QED BY <1>3, <3>1, <3>3 DEF ToSet
  <2> QED BY <2>1, <2>2
<1>9. Descending(ToSet(rest)) = rest
  BY <1>1, <1>6, DescendingIs
<1> QED
  BY <1>1, <1>2, <1>8, <1>9

-----------------------------------------------------------------------------
(* What a verified replay shows *)

\* A sequence is one over any set that holds its elements.
LEMMA OverElements ==
  ASSUME NEW S, NEW q \in Seq(S), NEW K, ToSet(q) \subseteq K
  PROVE  q \in Seq(K)
<1>1. Len(q) \in Nat /\ DOMAIN q = 1..Len(q) /\ q \in [1..Len(q) -> S]
  BY LenProperties
<1>2. ASSUME NEW i \in DOMAIN q PROVE q[i] \in K
  <2>1. q[i] \in ToSet(q)
    BY DEF ToSet
  <2> QED BY <2>1
<1>3. q \in [DOMAIN q -> K]
  BY <1>1, <1>2
<1> QED
  BY <1>3, SameLength

\* The positions of recorded are numbers.
LEMMA PositionsAre ==
  ASSUME Remembered, NEW t \in Seq(DOMAIN recorded)
  PROVE  t \in Seq(Nat) /\ ToSet(t) \subseteq DOMAIN recorded /\ \A n \in DOMAIN t : t[n] \in DOMAIN recorded
<1>1. DOMAIN recorded \subseteq Nat
  BY LenProperties DEF Remembered
<1>2. \A n \in DOMAIN t : t[n] \in DOMAIN recorded
  BY Elements
<1>3. t \in Seq(Nat)
  BY <1>1, WiderSeq
<1>4. ASSUME NEW k \in ToSet(t) PROVE k \in DOMAIN recorded
  BY <1>2 DEF ToSet
<1> QED
  BY <1>2, <1>3, <1>4

\* What counts as work is read off the tokens.
LEMMA WorkIs ==
  ASSUME NEW S, NEW tokens \in Seq(S)
  PROVE  Work(tokens) \in Seq(S)
<1> DEFINE kept == {n \in DOMAIN tokens : ~IsNoOp(tokens[n])}
<1>1. Work(tokens) = Chosen(tokens, kept)
  BY DEF Work
<1> HIDE DEF kept
<1> QED
  BY <1>1, ChosenIs

\* Each of the replayed runs is held against what the others alone predict.
LEMMA ReplayIs ==
  ASSUME Remembered, NEW t \in Seq(DOMAIN recorded), Falls(t), ~(Len(t) < 2), NEW n \in DOMAIN t
  PROVE  /\ Replays(t)[n] = Walk(Work(Predicted(ToSet(t), t[n])), Work(Tokens(recorded[t[n]])))
         /\ Work(Predicted(ToSet(t), t[n])) \in Seq(KnownTokens)
         /\ Work(Tokens(recorded[t[n]])) \in Seq(KnownTokens)
<1> DEFINE others == Training(t, n)
<1>0. t \in Seq(Nat) /\ ToSet(t) \subseteq DOMAIN recorded /\ t[n] \in DOMAIN recorded
  BY PositionsAre
<1>1. /\ others = Descending(ToSet(t) \ {t[n]}) /\ others \in Seq(Nat)
      /\ ToSet(others) \subseteq ToSet(t) /\ Len(others) = Len(t) - 1
  BY <1>0, TrainingIs
<1>2. Replays(t)[n] = ReplayAgainstTrace(Representative(others), Tokens(recorded[t[n]]))
  BY Zenon DEF Replays
<1> HIDE DEF others
<1>3. others \in Seq(DOMAIN recorded)
  <2>1. ToSet(others) \subseteq DOMAIN recorded
    BY <1>0, <1>1
  <2> QED BY <1>1, <2>1, OverElements
<1>4. others # <<>>
  <2>1. Len(t) \in Nat /\ Len(<<>>) = 0
    BY LenProperties, EmptySeq
  <2> QED BY <1>1, <2>1
<1>5. Representative(others) \in Seq(KnownTokens)
  BY <1>3, <1>4, RepresentativeIs
<1>6. Representative(others) = Predicted(ToSet(t), t[n])
  BY <1>1, Zenon DEF Representative, Predicted
<1>7. Tokens(recorded[t[n]]) \in Seq(KnownTokens)
  <2>1. recorded[t[n]] \in RecordedRuns
    BY <1>0, Elements DEF Remembered
  <2> QED BY <2>1, RunsAre
<1>8. Work(Representative(others)) \in Seq(KnownTokens) /\ Work(Tokens(recorded[t[n]])) \in Seq(KnownTokens)
  BY <1>5, <1>7, WorkIs
<1>9. Replays(t)[n] = Walk(Work(Representative(others)), Work(Tokens(recorded[t[n]])))
  BY <1>2, Zenon DEF ReplayAgainstTrace
<1> QED
  BY <1>6, <1>8, <1>9, Zenon

\* Enough of a pattern's newest runs really contain what the others predict, if its replay is verified.
LEMMA EvidenceIs ==
  ASSUME Remembered, NEW t \in Seq(DOMAIN recorded), Falls(t), Verified(Report(Replays(t)))
  PROVE  Enough(Comparable(Evidence(ToSet(t))))
<1> DEFINE D == DOMAIN t
           replayed == Replays(t)
           Says(n, v) == replayed[n].verdict = v
           Void == {n \in D : Says(n, "insufficient_evidence")}
           U == D \ Void
           M == {n \in D : Says(n, "match")}
           usable == Len(replayed) - Cardinality(Void)
<1>0. /\ Len(t) \in Nat /\ D = 1..Len(t) /\ IsFiniteSet(D) /\ Cardinality(D) = Len(t)
      /\ VerifyMinRuns \in Nat \ {0} /\ VerifyMinMatch \in 0..1000
  <2>1. Len(t) \in Nat /\ D = 1..Len(t)
    BY LenProperties
  <2>2. 1 \in Int /\ Len(t) \in Int
    BY <2>1
  <2>3. IsFiniteSet(1..Len(t)) /\ Cardinality(1..Len(t)) = IF 1 > Len(t) THEN 0 ELSE Len(t) - 1 + 1
    BY <2>2, FS_Interval
  <2> HIDE DEF D
  <2> QED BY <2>1, <2>3, GateAssumption
<1>1. DOMAIN replayed = D /\ Len(replayed) = Len(t)
  <2>1. DOMAIN replayed = D
    BY DEF Replays
  <2>2. replayed = [n \in 1..Len(t) |-> replayed[n]]
    <3>1. replayed = [n \in D |-> replayed[n]]
      BY DEF Replays
    <3> HIDE DEF replayed, D
    <3> QED BY <1>0, <3>1
  <2> HIDE DEF replayed
  <2>3. Len([n \in 1..Len(t) |-> replayed[n]]) = Len(t)
    BY <1>0
  <2> QED BY <2>1, <2>2, <2>3
<1>2. /\ Report(replayed).usable = usable
      /\ Report(replayed).matched = Cardinality(M)
  <2>1. Void = {n \in DOMAIN replayed : replayed[n].verdict = "insufficient_evidence"}
    BY <1>1
  <2>2. M = {n \in DOMAIN replayed : replayed[n].verdict = "match"}
    BY <1>1
  <2> HIDE DEF replayed, Void, M
  <2> QED BY <2>1, <2>2 DEF Report
<1>3. usable >= VerifyMinRuns /\ Cardinality(M) * 1000 >= VerifyMinMatch * usable
  <2>1. Verified(Report(replayed))
    OBVIOUS
  <2> HIDE DEF replayed, usable, M
  <2>2. Report(replayed).usable >= VerifyMinRuns
        /\ Report(replayed).matched * 1000 >= VerifyMinMatch * Report(replayed).usable
    BY <2>1 DEF Verified
  <2> QED BY <1>2, <2>2
<1>4. /\ Cardinality(U) = usable /\ IsFiniteSet(U) /\ usable \in Nat
      /\ Cardinality(M) \in Nat
  <2>1. Void \subseteq D /\ D \cap Void = Void /\ M \subseteq D
    OBVIOUS
  <2> HIDE DEF Void, M, D
  <2>2. IsFiniteSet(D \ Void) /\ Cardinality(D \ Void) = Cardinality(D) - Cardinality(D \cap Void)
    BY <1>0, FS_Difference, ZenonT(60)
  <2>3. IsFiniteSet(M)
    BY <1>0, <2>1, FS_Subset
  <2>4. Cardinality(M) \in Nat /\ Cardinality(D \ Void) \in Nat
    BY <2>2, <2>3, FS_CardinalityType
  <2>5. U = D \ Void /\ usable = Len(replayed) - Cardinality(Void)
    OBVIOUS
  <2> HIDE DEF replayed, U, usable
  <2>6. Cardinality(U) = usable
    BY <1>0, <1>1, <2>1, <2>2, <2>5
  <2> QED BY <2>2, <2>4, <2>5, <2>6
<1>5. ~(Len(t) < 2)
  <2> SUFFICES ASSUME Len(t) < 2 PROVE FALSE
    OBVIOUS
  <2>1. replayed = [n \in D |-> [verdict |-> "insufficient_evidence", aligned |-> 0, expected |-> 0]]
    BY DEF Replays
  <2>2. U = {}
    <3> HIDE DEF replayed, D
    <3> QED BY <2>1
  <2>3. Cardinality(U) = 0
    <3> HIDE DEF U
    <3> QED BY <2>2, FS_EmptySet
  <2> HIDE DEF U, usable, M
  <2> QED BY <1>0, <1>3, <1>4, <2>3
<1> DEFINE Row(n) == <<Work(Predicted(ToSet(t), t[n])), Work(Tokens(recorded[t[n]])), t[n]>>
           E == Evidence(ToSet(t))
           C == Comparable(E)
           X == {x \in C : Embeds(x[1], x[2])}
           f == [n \in U |-> Row(n)]
           g == [n \in M |-> Row(n)]
<1>6. ASSUME NEW n \in D
      PROVE  /\ Says(n, "insufficient_evidence") <=> Row(n)[1] = <<>> \/ Row(n)[2] = <<>>
             /\ Says(n, "match") => Row(n)[1] # <<>> /\ Row(n)[2] # <<>> /\ Embeds(Row(n)[1], Row(n)[2])
             /\ Row(n)[3] = t[n]
  <2> DEFINE P == Work(Predicted(ToSet(t), t[n]))
             W == Work(Tokens(recorded[t[n]]))
  <2>1. replayed[n] = Walk(P, W) /\ P \in Seq(KnownTokens) /\ W \in Seq(KnownTokens)
    BY <1>5, ReplayIs
  <2>2. Row(n)[1] = P /\ Row(n)[2] = W /\ Row(n)[3] = t[n]
    OBVIOUS
  <2> HIDE DEF P, W, replayed, Row
  <2>3. /\ Walk(P, W).verdict = "insufficient_evidence" <=> P = <<>> \/ W = <<>>
        /\ Walk(P, W).verdict = "match" => P # <<>> /\ W # <<>> /\ Embeds(P, W)
    BY <2>1, WalkIs
  <2> QED BY <2>1, <2>2, <2>3
<1>7. E = {Row(n) : n \in D}
  <2>1. \A n \in D : t[n] \in ToSet(t)
    BY DEF ToSet
  <2>2. \A k \in ToSet(t) : \E n \in D : k = t[n]
    BY DEF ToSet
  <2>3. E = {<<Work(Predicted(ToSet(t), k)), Work(Tokens(recorded[k])), k>> : k \in ToSet(t)}
    BY DEF Evidence
  <2> HIDE DEF D, E
  <2> QED BY <2>1, <2>2, <2>3
<1>8. C = {x \in E : x[1] # <<>> /\ x[2] # <<>>}
  BY DEF Comparable
<1>9. \A m, n \in D : Row(m) = Row(n) => m = n
  <2>1. \A m, n \in D : t[m] = t[n] => m = n
    <3> SUFFICES ASSUME NEW m \in D, NEW n \in D, t[m] = t[n], m # n PROVE FALSE
      OBVIOUS
    <3>1. m < n \/ n < m
      BY <1>0
    <3>2. t[m] > t[n] \/ t[n] > t[m]
      BY <3>1 DEF Falls
    <3>3. t[m] \in Nat /\ t[n] \in Nat
      BY PositionsAre, Elements
    <3> QED BY <3>2, <3>3
  <2> HIDE DEF Row, D
  <2> QED BY <1>6, <2>1
<1> HIDE DEF Row, E, C, Says, replayed, D
<1>10. \A n \in U : Row(n) \in C
  BY <1>6, <1>7, <1>8
<1>11. \A n \in M : Row(n) \in X
  BY <1>6, <1>7, <1>8
<1>12. \A x \in C : \E n \in U : Row(n) = x
  BY <1>6, <1>7, <1>8
<1>13. IsFiniteSet(C) /\ Cardinality(C) = usable
  <2>1. f \in [U -> C] /\ \A n \in U : f[n] = Row(n)
    <3> HIDE DEF U
    <3> QED BY <1>10
  <2>2. U \subseteq D
    OBVIOUS
  <2> HIDE DEF f, U, usable
  <2>3. f \in Injection(U, C)
    BY <1>9, <2>1, <2>2 DEF Injection, IsInjective
  <2>4. f \in Surjection(U, C)
    BY <1>12, <2>1 DEF Surjection
  <2>5. ExistsBijection(U, C)
    BY <2>3, <2>4 DEF ExistsBijection, Bijection
  <2> QED BY <1>4, <2>5, FS_Bijection
<1>14. Cardinality(M) <= Cardinality(X) /\ Cardinality(X) \in Nat
  <2>1. g \in [M -> X] /\ \A n \in M : g[n] = Row(n)
    <3> HIDE DEF M, X
    <3> QED BY <1>11
  <2>2. M \subseteq D /\ X \subseteq C
    OBVIOUS
  <2> HIDE DEF g, M, X, usable
  <2>3. g \in Injection(M, X)
    BY <1>9, <2>1, <2>2 DEF Injection, IsInjective
  <2>4. IsFiniteSet(X)
    BY <1>13, <2>2, FS_Subset
  <2> QED BY <2>3, <2>4, FS_Injection, FS_CardinalityType
<1>15. Cardinality(X) * 1000 >= VerifyMinMatch * Cardinality(C) /\ Cardinality(C) >= VerifyMinRuns
  <2> HIDE DEF M, X, usable
  <2>1. Cardinality(M) * 1000 >= VerifyMinMatch * usable /\ usable >= VerifyMinRuns /\ Cardinality(C) = usable
    BY <1>3, <1>13
  <2>2. Cardinality(X) * 1000 >= Cardinality(M) * 1000
    BY <1>4, <1>14
  <2>3. VerifyMinMatch * Cardinality(C) = VerifyMinMatch * usable /\ VerifyMinMatch * usable \in Nat
    BY <1>0, <1>4, <1>13
  <2>4. Cardinality(M) * 1000 \in Nat /\ Cardinality(X) * 1000 \in Nat
    BY <1>4, <1>14
  <2> QED BY ONLY <2>1, <2>2, <2>3, <2>4
<1> QED
  BY <1>15 DEF Enough, X, C, E

-----------------------------------------------------------------------------
(* The patterns: their runs, and what they were made of *)

\* Runs that a user allows, each once, of which one template or none explains all.
LEMMA ExplainedIs ==
  ASSUME Remembered, NEW w
  PROVE  /\ Explained(w) \in Seq(DOMAIN recorded)
         /\ \A m, n \in DOMAIN Explained(w) : m # n => Explained(w)[m] # Explained(w)[n]
         /\ \A k \in ToSet(Explained(w)) : k \in DOMAIN recorded /\ recorded[k].kept = "learn"
<1> DEFINE P == {k \in Learnable : MatchEpisode(recorded[k]) = w}
           q == InOrder(recorded, P)
<1>1. /\ q \in Seq(DOMAIN recorded)
      /\ \A k \in DOMAIN q : q[k] \in P /\ q[k] \in DOMAIN recorded
      /\ \A k, l \in DOMAIN q : k < l => q[k] < q[l]
  <2>1. recorded \in Seq(RecordedRuns)
    BY DEF Remembered
  <2> HIDE DEF P
  <2> QED BY <2>1, InOrderIs
<1>2. Explained(w) = q
  BY DEF Explained
<1>3. \A k \in P : k \in DOMAIN recorded /\ recorded[k].kept = "learn"
  BY DEF Learnable
<1> HIDE DEF P, q
<1>4. \A m, n \in DOMAIN q : m # n => q[m] # q[n]
  <2> SUFFICES ASSUME NEW m \in DOMAIN q, NEW n \in DOMAIN q, m # n PROVE q[m] # q[n]
    OBVIOUS
  <2>1. q \in Seq(Nat)
    BY <1>1, PositionsAre
  <2>2. q[m] \in Nat /\ q[n] \in Nat /\ m \in Nat /\ n \in Nat
    BY <2>1, Elements, LenProperties
  <2>3. m < n \/ n < m
    BY <2>2
  <2>4. q[m] < q[n] \/ q[n] < q[m]
    BY <1>1, <2>3
  <2> QED BY <2>2, <2>4
<1>5. \A k \in ToSet(q) : k \in P
  BY <1>1 DEF ToSet
<1> QED
  BY <1>1, <1>2, <1>3, <1>4, <1>5

\* The runs of a novel pattern are allowed, and any two of them are alike.
LEMMA NovelRunsAre ==
  ASSUME Remembered, NEW c \in ToSet(ClusterEpisodes(Explained(None)))
  PROVE  /\ c \in Seq(DOMAIN recorded) /\ c # <<>>
         /\ \A m, n \in DOMAIN c : m # n => c[m] # c[n]
         /\ \A k \in ToSet(c) : recorded[k].kept = "learn"
         /\ \A i, j \in ToSet(c) : i # j => PairSimilarity(recorded[i], recorded[j]) >= SimilarityThreshold
<1> DEFINE ks == Explained(None)
           sim == PairSimilarities(ks)
           K == ToSet(ks)
<1>0. /\ ks \in Seq(DOMAIN recorded) /\ (\A m, n \in DOMAIN ks : m # n => ks[m] # ks[n])
      /\ \A k \in K : k \in DOMAIN recorded /\ recorded[k].kept = "learn"
  BY ExplainedIs
<1> HIDE DEF ks
<1>1. Clustered(sim, K, ClusterEpisodes(ks))
  BY <1>0, ClustersAre
<1>2. \A i, j \in K : sim[<<i, j>>] = PairSimilarity(recorded[i], recorded[j])
  BY <1>0, PairsAre
<1>3. PICK nth \in DOMAIN ClusterEpisodes(ks) : c = ClusterEpisodes(ks)[nth]
  BY DEF ToSet, ks
<1> HIDE DEF sim, K
<1>4. AreAlike(sim, K, c)
  BY <1>1, <1>3 DEF Clustered
<1>5. c \in Seq(K) /\ c # <<>> /\ \A p, q \in DOMAIN c : p # q => c[p] # c[q] /\ sim[<<c[p], c[q]>>] >= SimilarityThreshold
  BY <1>4 DEF AreAlike
<1>6. ToSet(c) \subseteq K
  <2>1. \A n \in DOMAIN c : c[n] \in K
    BY <1>5, Elements
  <2> QED BY <2>1 DEF ToSet
<1>7. c \in Seq(DOMAIN recorded)
  <2>1. K \subseteq DOMAIN recorded
    BY <1>0
  <2> QED BY <1>5, <2>1, WiderSeq
<1>8. ASSUME NEW i \in ToSet(c), NEW j \in ToSet(c), i # j
      PROVE  PairSimilarity(recorded[i], recorded[j]) >= SimilarityThreshold
  <2>1. PICK p \in DOMAIN c : i = c[p]
    BY DEF ToSet
  <2>2. PICK q \in DOMAIN c : j = c[q]
    BY DEF ToSet
  <2>3. sim[<<c[p], c[q]>>] >= SimilarityThreshold
    BY <1>5, <1>8, <2>1, <2>2
  <2>4. sim[<<i, j>>] = PairSimilarity(recorded[i], recorded[j])
    BY <1>2, <1>6
  <2> QED BY <2>1, <2>2, <2>3, <2>4
<1> QED
  BY <1>0, <1>5, <1>6, <1>7, <1>8

\* The runs of a pattern that its replay tests are positions of recorded, from the latest on.
LEMMA TestedAre ==
  ASSUME Remembered, NEW c \in Seq(DOMAIN recorded), \A m, n \in DOMAIN c : m # n => c[m] # c[n]
  PROVE  /\ Newest(c) \in Seq(DOMAIN recorded) /\ Falls(Newest(c))
         /\ ToSet(Newest(c)) = {k \in ToSet(c) : Cardinality({o \in ToSet(c) : o > k}) < VerifyWindow}
<1>1. c \in Seq(Nat) /\ ToSet(c) \subseteq DOMAIN recorded
  BY PositionsAre
<1>2. /\ Newest(c) \in Seq(Nat) /\ Falls(Newest(c))
      /\ ToSet(Newest(c)) = {k \in ToSet(c) : Cardinality({o \in ToSet(c) : o > k}) < VerifyWindow}
  BY <1>1, NewestIs
<1>3. ToSet(Newest(c)) \subseteq DOMAIN recorded
  BY <1>1, <1>2
<1>4. Newest(c) \in Seq(DOMAIN recorded)
  BY <1>2, <1>3, OverElements
<1> QED
  BY <1>2, <1>4

\* A novel pattern that is offered is repeated: its runs are alike, and enough of them predict one another.
LEMMA RepeatedIs ==
  ASSUME Remembered, NEW c \in ToSet(ClusterEpisodes(Explained(None))), Verified(Report(Replays(Newest(c))))
  PROVE  AreRepeated(ToSet(c))
<1> DEFINE newest == {k \in ToSet(c) : Cardinality({o \in ToSet(c) : o > k}) < VerifyWindow}
<1>1. /\ c \in Seq(DOMAIN recorded) /\ (\A m, n \in DOMAIN c : m # n => c[m] # c[n])
      /\ \A i, j \in ToSet(c) : i # j => PairSimilarity(recorded[i], recorded[j]) >= SimilarityThreshold
  BY NovelRunsAre
<1>2. Newest(c) \in Seq(DOMAIN recorded) /\ Falls(Newest(c)) /\ ToSet(Newest(c)) = newest
  BY <1>1, TestedAre
<1> HIDE DEF newest
<1>3. Enough(Comparable(Evidence(newest)))
  <2>1. Enough(Comparable(Evidence(ToSet(Newest(c)))))
    BY <1>2, EvidenceIs
  <2> QED BY <1>2, <2>1, Zenon
<1> QED
  BY <1>1, <1>3 DEF AreRepeated, newest

-----------------------------------------------------------------------------
(* The scores are numbers, and the forming card's gates are the bars *)

\* What a token risks is a share.
LEMMA TokenRiskIs ==
  ASSUME NEW t \in KnownTokens
  PROVE  TokenRisk(t) \in Int
<1> DEFINE chain == CapabilityChain[t]
<1>0. PICK shape \in Shapes : t \in {Token(shape.events[k]) : k \in DOMAIN shape.events}
  BY DEF KnownTokens
<1>1. PICK k \in DOMAIN shape.events : t = Token(shape.events[k])
  BY <1>0
<1>2. chain = <<>> \/ chain[Len(chain)].risk \in {"low", "medium", "high", "prohibited"}
  BY <1>1, ChainAssumption
<1>3. ASSUME NEW v \in {"low", "medium", "high", "prohibited"} PROVE RiskValue[v] \in Int
  BY DEF RiskValue
<1>4. Last(chain) = chain[Len(chain)]
  BY DEF Last
<1>5. TokenRisk(t) = IF chain # <<>> THEN RiskValue[Last(chain).risk] ELSE IF t.type \in UiWrites THEN 500 ELSE 100
  BY DEF TokenRisk
<1> HIDE DEF chain
<1>6. CASE chain # <<>>
  <2>1. Last(chain).risk \in {"low", "medium", "high", "prohibited"}
    BY <1>2, <1>4, <1>6
  <2>2. RiskValue[Last(chain).risk] \in Int
    BY <1>3, <2>1
  <2> QED BY <1>5, <1>6, <2>2
<1>7. CASE chain = <<>>
  BY <1>5, <1>7
<1> QED
  BY <1>6, <1>7

\* The number of a sequence's positions that are of some kind
LEMMA PartIs ==
  ASSUME NEW S, NEW seq \in Seq(S), NEW T, T \subseteq DOMAIN seq
  PROVE  Cardinality(T) \in Nat
<1>1. Len(seq) \in Nat /\ DOMAIN seq = 1..Len(seq)
  BY LenProperties
<1>2. 1 \in Int /\ Len(seq) \in Int
  BY <1>1
<1>3. IsFiniteSet(1..Len(seq))
  BY <1>2, FS_Interval
<1>4. IsFiniteSet(T)
  BY <1>1, <1>3, FS_Subset
<1> QED
  BY <1>4, FS_CardinalityType

\* A sequence that is not empty has a length to divide by.
LEMMA LongIs ==
  ASSUME NEW S, NEW seq \in Seq(S), seq # <<>>
  PROVE  Len(seq) \in Nat /\ Len(seq) > 0
<1>1. Len(seq) \in Nat /\ Len(seq) # 0
  BY LenProperties, EmptySeq
<1> QED
  BY <1>1

\* Feasibility is a share.
LEMMA FeasibilityIs ==
  ASSUME NEW seq \in Seq(KnownTokens)
  PROVE  FeasibilityScore(seq) \in Int
<1> DEFINE mapped == {n \in DOMAIN seq : CapabilityChain[seq[n]] # <<>>}
           ui == {n \in DOMAIN seq \ mapped : seq[n].type \in UiWrites}
           csv == {n \in mapped : CapabilityChain[seq[n]][1].csv}
           final == \E n \in mapped : ~CapabilityChain[seq[n]][1].reversible
           left == IF final THEN 200 ELSE 0
           share == (Cardinality(mapped) * 1000) \div Len(seq)
           score == share - 100 * Cardinality(csv) - 150 * Cardinality(ui) - left
<1>1. FeasibilityScore(seq) = IF seq = <<>> THEN 0 ELSE Clamp01(score)
  BY DEF FeasibilityScore
<1>2. left \in Nat
  <2> HIDE DEF final
  <2> QED OBVIOUS
<1>3. mapped \subseteq DOMAIN seq /\ ui \subseteq DOMAIN seq /\ csv \subseteq DOMAIN seq
  OBVIOUS
<1> HIDE DEF mapped, ui, csv, left
<1>4. Cardinality(mapped) \in Nat /\ Cardinality(ui) \in Nat /\ Cardinality(csv) \in Nat
  BY <1>3, PartIs
<1>5. CASE seq # <<>>
  <2>1. Len(seq) \in Nat /\ Len(seq) > 0
    BY <1>5, LongIs
  <2>2. share \in Int
    BY <1>4, <2>1
  <2> HIDE DEF share
  <2>3. score \in Int
    BY <1>2, <1>4, <2>2
  <2> HIDE DEF score
  <2>4. Clamp01(score) \in Int
    BY <2>3 DEF Clamp01
  <2> QED BY <1>1, <1>5, <2>4
<1>6. CASE seq = <<>>
  BY <1>1, <1>6
<1> QED
  BY <1>5, <1>6

\* Risk is a share.
LEMMA RiskIs ==
  ASSUME NEW seq \in Seq(KnownTokens)
  PROVE  RiskScore(seq) \in Int
<1> DEFINE q == [n \in DOMAIN seq |-> TokenRisk(seq[n])]
           mean == SumOf(q) \div Len(seq)
<1>1. RiskScore(seq) = IF seq = <<>> THEN 0 ELSE Clamp01(mean)
  BY DEF RiskScore
<1>2. q \in [DOMAIN seq -> Int]
  <2>1. \A n \in DOMAIN seq : TokenRisk(seq[n]) \in Int
    BY TokenRiskIs, Elements
  <2> QED BY <2>1
<1> HIDE DEF q
<1>3. q \in Seq(Int) /\ Len(q) = Len(seq)
  BY <1>2, SameLength
<1>4. SumOf(q) \in Int
  <2>1. Len(q) \in Nat /\ \A n \in 1..Len(q) : q[n] \in Int
    BY <1>3, LenProperties, Elements
  <2> QED BY <2>1, SumIs
<1>5. CASE seq # <<>>
  <2>1. Len(seq) \in Nat /\ Len(seq) > 0
    BY <1>5, LongIs
  <2>2. mean \in Int
    BY <1>4, <2>1
  <2> HIDE DEF mean
  <2>3. Clamp01(mean) \in Int
    BY <2>2 DEF Clamp01
  <2> QED BY <1>1, <1>5, <2>3
<1>6. CASE seq = <<>>
  BY <1>1, <1>6
<1> QED
  BY <1>5, <1>6

\* What a user's mistakes would cost is a share.
LEMMA ErrorIs ==
  ASSUME NEW seq \in Seq(KnownTokens)
  PROVE  ErrorReduction(seq) \in Int
<1> DEFINE T == {n \in DOMAIN seq : seq[n].type \in UiWrites \cup {"copy_semantic"}}
           share == (Cardinality(T) * 1000) \div Len(seq)
<1>1. ErrorReduction(seq) = IF seq = <<>> THEN 0 ELSE Clamp01(share + 200)
  BY DEF ErrorReduction
<1>2. T \subseteq DOMAIN seq
  OBVIOUS
<1> HIDE DEF T
<1>3. Cardinality(T) \in Nat
  BY <1>2, PartIs
<1>4. CASE seq # <<>>
  <2>1. Len(seq) \in Nat /\ Len(seq) > 0
    BY <1>4, LongIs
  <2>2. share \in Int
    BY <1>3, <2>1
  <2> HIDE DEF share
  <2>3. Clamp01(share + 200) \in Int
    BY <2>2 DEF Clamp01
  <2> QED BY <1>1, <1>4, <2>3
<1>5. CASE seq = <<>>
  BY <1>1, <1>5
<1> QED
  BY <1>4, <1>5

\* The runs of a pattern took place on at least one day.
LEMMA DaysAre ==
  ASSUME Remembered, NEW ks \in Seq(DOMAIN recorded), ks # <<>>
  PROVE  DistinctDays(ks) \in Nat /\ DistinctDays(ks) > 0
<1> DEFINE days == {recorded[k].day : k \in ToSet(ks)}
           f == [n \in 1..Len(ks) |-> recorded[ks[n]].day]
<1>0. Len(ks) \in Nat /\ Len(ks) > 0 /\ DOMAIN ks = 1..Len(ks)
  BY LongIs, LenProperties
<1>1. \A n \in 1..Len(ks) : ks[n] \in ToSet(ks)
  BY <1>0 DEF ToSet
<1>2. \A k \in ToSet(ks) : \E n \in 1..Len(ks) : ks[n] = k
  BY <1>0 DEF ToSet
<1>3. \A n \in 1..Len(ks) : f[n] \in days /\ f[n] = recorded[ks[n]].day
  BY <1>1
<1>4. \A d \in days : \E n \in 1..Len(ks) : f[n] = d
  BY <1>2
<1>5. f \in [1..Len(ks) -> days]
  BY <1>1
<1> HIDE DEF days, f
<1>6. f \in Surjection(1..Len(ks), days)
  BY <1>4, <1>5 DEF Surjection
<1>7. IsFiniteSet(1..Len(ks))
  <2>1. 1 \in Int /\ Len(ks) \in Int
    BY <1>0
  <2> QED BY <2>1, FS_Interval
<1>8. IsFiniteSet(days)
  BY <1>6, <1>7, FS_Surjection
<1>9. days # {}
  BY <1>0, <1>3
<1>10. Cardinality(days) \in Nat /\ Cardinality(days) # 0
  BY <1>8, <1>9, FS_CardinalityType, FS_EmptySet
<1>11. DistinctDays(ks) = Cardinality(days)
  BY DEF DistinctDays, days
<1> QED
  BY <1>10, <1>11

\* The minutes that a month may return are a number.
LEMMA MinutesAre ==
  ASSUME Remembered, NEW ks \in Seq(DOMAIN recorded), ks # <<>>
  PROVE  ProjectedMinutes(ks) \in Int
<1> DEFINE mins == [n \in DOMAIN ks |-> recorded[ks[n]].minutes]
           middle == Median2(mins)
           days == DistinctDays(ks)
<1>1. mins \in [DOMAIN ks -> Int]
  <2>1. ASSUME NEW n \in DOMAIN ks PROVE recorded[ks[n]].minutes \in Int
    <3>1. ks[n] \in DOMAIN recorded
      BY PositionsAre
    <3>2. recorded[ks[n]] \in RecordedRuns
      BY <3>1, Elements DEF Remembered
    <3> QED BY <3>2, RunsAre
  <2> QED BY <2>1
<1> HIDE DEF mins
<1>2. mins \in Seq(Int)
  BY <1>1, SameLength
<1>3. middle \in Int
  BY <1>2, MedianIs
<1>4. days \in Nat /\ days > 0
  BY DaysAre
<1>5. Len(ks) \in Nat
  BY LenProperties
<1>6. ProjectedMinutes(ks) = (Len(ks) * 2 * middle) \div days
  BY DEF ProjectedMinutes, mins
<1> HIDE DEF middle, days
<1>7. (Len(ks) * 2 * middle) \in Int
  BY <1>3, <1>5
<1> QED
  BY <1>4, <1>6, <1>7

\* The mean similarity of some runs is a number.
LEMMA MeanIs ==
  ASSUME Remembered, NEW ks \in Seq(DOMAIN recorded)
  PROVE  MeanSimilarity(ks, PairSimilarities(ks)) \in Int
<1> DEFINE sim == PairSimilarities(ks)
           column(j) == [i \in 1 .. j - 1 |-> sim[<<ks[i], ks[j]>>]]
           sums == [j \in DOMAIN ks |-> SumOf(column(j))]
           pairs == (Len(ks) * (Len(ks) - 1)) \div 2
<1>0. Len(ks) \in Nat /\ DOMAIN ks = 1..Len(ks)
  BY LenProperties
<1>1. \A i, j \in ToSet(ks) : sim[<<i, j>>] \in Int
  <2>1. IsSimilarity(sim, ToSet(ks))
    BY PairsAre
  <2> HIDE DEF sim
  <2>2. \A i, j \in ToSet(ks) : sim[<<i, j>>] \in 0..1000
    BY <2>1, ZenonT(60) DEF IsSimilarity
  <2>3. ASSUME NEW i \in ToSet(ks), NEW j \in ToSet(ks) PROVE sim[<<i, j>>] \in Int
    <3> DEFINE v == sim[<<i, j>>]
    <3>1. v \in 0..1000
      BY <2>2
    <3>2. v \in Int
      <4> HIDE DEF v
      <4> QED BY <3>1
    <3> QED BY <3>2
  <2> QED BY <2>3, Zenon
<1>2. MeanSimilarity(ks, sim) = IF Len(ks) < 2 THEN 1000 ELSE SumOf(sums) \div pairs
  BY DEF MeanSimilarity
<1> HIDE DEF sim
<1>3. \A n \in DOMAIN ks : ks[n] \in ToSet(ks)
  BY DEF ToSet
<1>4. ASSUME NEW j \in DOMAIN ks PROVE SumOf(column(j)) \in Int
  <2>1. j - 1 \in Nat /\ \A i \in 1 .. j - 1 : i \in DOMAIN ks
    BY <1>0
  <2>2. ASSUME NEW i \in 1 .. j - 1 PROVE column(j)[i] \in Int
    <3>1. sim[<<ks[i], ks[j]>>] \in Int
      BY <1>1, <1>3, <2>1
    <3> QED BY <3>1
  <2>3. Len(column(j)) = j - 1
    BY <2>1
  <2> HIDE DEF column
  <2> QED BY <2>1, <2>2, <2>3, SumIs
<1>5. sums \in [DOMAIN ks -> Int]
  <2> HIDE DEF column
  <2> QED BY <1>4
<1> HIDE DEF sums
<1>6. SumOf(sums) \in Int
  <2>1. sums \in Seq(Int) /\ Len(sums) = Len(ks)
    BY <1>5, SameLength
  <2>2. Len(sums) \in Nat /\ \A n \in 1..Len(sums) : sums[n] \in Int
    BY <2>1, LenProperties, Elements
  <2> QED BY <2>2, SumIs
<1>7. CASE ~(Len(ks) < 2)
  <2> DEFINE m == Len(ks) - 1
             twice == (m + 1) * m
  <2>1. m \in Nat /\ m >= 1 /\ Len(ks) = m + 1
    BY <1>0, <1>7
  <2> HIDE DEF m
  <2>2. twice \in Nat /\ twice >= 2
    <3>1. twice = m * m + m /\ m * m \in Nat /\ m * m >= m
      BY <2>1
    <3> QED BY <2>1, <3>1
  <2>3. pairs = twice \div 2
    BY <2>1
  <2> HIDE DEF twice, pairs
  <2>4. pairs \in Nat /\ pairs > 0
    BY <2>2, <2>3
  <2>5. SumOf(sums) \div pairs \in Int
    BY <1>6, <2>4
  <2> QED BY <1>2, <1>7, <2>5 DEF sim
<1>8. CASE Len(ks) < 2
  BY <1>2, <1>8 DEF sim
<1> QED
  BY <1>7, <1>8

\* What a pattern is worth is a share.
LEMMA OpportunityIs ==
  ASSUME Remembered, NEW ks \in Seq(DOMAIN recorded), ks # <<>>, NEW similarity \in Int,
         NEW seq \in Seq(KnownTokens)
  PROVE  OpportunityScore(ks, similarity, seq) \in 0..1000
<1> DEFINE a == Clamp01(Len(ks) * 100)
           b == Clamp01((ProjectedMinutes(ks) * 1000) \div 120)
           feasible == FeasibilityScore(seq)
           error == ErrorReduction(seq)
           risk == RiskScore(seq)
           total == 250 * a + 250 * b + 200 * similarity + 200 * feasible + 100 * error - 200 * risk
<1>1. feasible \in Int /\ error \in Int /\ risk \in Int
  BY FeasibilityIs, ErrorIs, RiskIs
<1>2. a \in Int
  <2>1. Len(ks) \in Nat
    BY LenProperties
  <2> QED BY <2>1 DEF Clamp01
<1>3. b \in Int
  <2>1. ProjectedMinutes(ks) \in Int
    BY MinutesAre
  <2>2. (ProjectedMinutes(ks) * 1000) \div 120 \in Int
    BY <2>1
  <2> QED BY <2>2 DEF Clamp01
<1>4. OpportunityScore(ks, similarity, seq) = Clamp01(total \div 1000)
  BY DEF OpportunityScore
<1> HIDE DEF a, b, feasible, error, risk
<1>5. total \in Int
  BY <1>1, <1>2, <1>3
<1> HIDE DEF total
<1> DEFINE y == total \div 1000
<1>6. y \in Int
  BY <1>5
<1> HIDE DEF y
<1>7. Clamp01(y) \in 0..1000
  BY <1>6 DEF Clamp01
<1> QED
  BY <1>4, <1>7 DEF y

\* Numbers have a bound.
LEMMA BoundIs ==
  ASSUME NEW m \in Nat, NEW e, \A n \in 1..m : e[n] \in Nat
  PROVE  \E B \in Nat : \A n \in 1..m : e[n] <= B
<1> DEFINE Below(k, B) == \A n \in 1..k : e[n] <= B
           Bounded == {k \in Nat : k <= m => \E B \in Nat : Below(k, B)}
<1>1. 0 \in Bounded
  <2>1. Below(0, 0)
    OBVIOUS
  <2> HIDE DEF Below
  <2> QED BY <2>1
<1>2. ASSUME NEW k \in Nat, k \in Bounded PROVE k + 1 \in Bounded
  <2> SUFFICES ASSUME k + 1 <= m PROVE \E B \in Nat : Below(k + 1, B)
    OBVIOUS
  <2>1. PICK B \in Nat : Below(k, B)
    BY <1>2
  <2> DEFINE x == e[k + 1]
  <2>2. x \in Nat
    BY k + 1 \in 1..m
  <2>3. \A n \in 1 .. k + 1 : n = k + 1 \/ n \in 1..k
    OBVIOUS
  <2>4. \A n \in 1..k : e[n] <= B /\ e[n] \in Nat
    BY <2>1
  <2>5. CASE x <= B
    <3>1. Below(k + 1, B)
      BY <2>3, <2>4, <2>5
    <3> HIDE DEF Below
    <3> QED BY <3>1
  <2>6. CASE B < x
    <3>1. Below(k + 1, x)
      <4>1. ASSUME NEW n \in 1 .. k + 1 PROVE e[n] <= x
        BY <2>2, <2>3, <2>4, <2>6
      <4> QED BY <4>1
    <3> HIDE DEF Below, x
    <3> QED BY <2>2, <3>1
  <2> HIDE DEF x
  <2> QED BY <2>2, <2>5, <2>6
<1>3. Nat \subseteq Bounded
  <2> HIDE DEF Bounded
  <2> QED BY <1>1, <1>2, NatSetInduction
<1>4. \E B \in Nat : Below(m, B)
  <2>1. m \in Bounded
    BY <1>3
  <2> HIDE DEF Below
  <2> QED BY <2>1
<1> QED
  BY <1>4

\* A replay with a match has found a step of work, and has one to look for.
LEMMA MatchIs ==
  ASSUME Remembered, NEW t \in Seq(DOMAIN recorded), Falls(t), Report(Replays(t)).matched > 0
  PROVE  /\ Report(Replays(t)).meaningful > 0
         /\ \E n \in DOMAIN Report(Replays(t)).results : Report(Replays(t)).results[n].aligned > 0
<1> DEFINE replayed == Replays(t)
           M == {n \in DOMAIN replayed : replayed[n].verdict = "match"}
           F == {replayed[n].expected : n \in DOMAIN replayed}
<1>1. /\ Report(replayed).matched = Cardinality(M) /\ Report(replayed).results = replayed
      /\ Report(replayed).meaningful = IF replayed = <<>> THEN 0 ELSE Max(F)
  <2> HIDE DEF replayed
  <2> QED BY DEF Report
<1>2. DOMAIN replayed = DOMAIN t /\ Len(t) \in Nat /\ DOMAIN t = 1..Len(t)
  BY LenProperties DEF Replays
<1>3. PICK n \in DOMAIN replayed : replayed[n].verdict = "match"
  <2>1. Cardinality(M) > 0
    BY <1>1
  <2>2. M # {}
    <3> SUFFICES ASSUME M = {} PROVE FALSE
      OBVIOUS
    <3> HIDE DEF M
    <3>1. Cardinality(M) = 0
      BY FS_EmptySet
    <3> QED BY <2>1, <3>1
  <2> HIDE DEF M
  <2> QED BY <2>2 DEF M
<1>4. ~(Len(t) < 2)
  <2> SUFFICES ASSUME Len(t) < 2 PROVE FALSE
    OBVIOUS
  <2>1. replayed = [m \in DOMAIN t |-> [verdict |-> "insufficient_evidence", aligned |-> 0, expected |-> 0]]
    BY DEF Replays
  <2> HIDE DEF replayed
  <2> QED BY <1>2, <1>3, <2>1
<1>5. ASSUME NEW m \in DOMAIN replayed
      PROVE  /\ replayed[m].expected \in Nat
             /\ replayed[m].verdict = "match" => replayed[m].aligned = replayed[m].expected /\ replayed[m].expected > 0
  <2> DEFINE P == Work(Predicted(ToSet(t), t[m]))
             W == Work(Tokens(recorded[t[m]]))
  <2>1. replayed[m] = Walk(P, W) /\ P \in Seq(KnownTokens) /\ W \in Seq(KnownTokens)
    BY <1>2, <1>4, ReplayIs
  <2> HIDE DEF P, W, replayed
  <2>2. /\ Walk(P, W).expected = Len(P)
        /\ Walk(P, W).verdict = "match" => P # <<>> /\ Walk(P, W).aligned = Len(P)
    BY <2>1, WalkIs
  <2>3. Len(P) \in Nat /\ (P # <<>> => Len(P) > 0)
    BY <2>1, LongIs, LenProperties
  <2> QED BY <2>1, <2>2, <2>3
<1> HIDE DEF replayed
<1>6. replayed[n].aligned > 0 /\ replayed[n].expected > 0
  BY <1>3, <1>5
<1>7. replayed # <<>>
  BY <1>3
<1>8. Max(F) > 0
  <2> DEFINE e == [m \in DOMAIN t |-> replayed[m].expected]
  <2>1. \A m \in 1..Len(t) : e[m] \in Nat
    BY <1>2, <1>5
  <2>2. PICK B \in Nat : \A m \in 1..Len(t) : e[m] <= B
    <3> HIDE DEF e
    <3> QED BY <1>2, <2>1, BoundIs
  <2>3. F \subseteq 0..B
    <3> SUFFICES ASSUME NEW m \in DOMAIN replayed PROVE replayed[m].expected \in 0..B
      OBVIOUS
    <3>1. e[m] = replayed[m].expected /\ m \in 1..Len(t)
      BY <1>2
    <3> HIDE DEF e
    <3> QED BY <2>1, <2>2, <3>1
  <2>4. replayed[n].expected \in F /\ replayed[n].expected \in Nat
    BY <1>5
  <2> HIDE DEF F
  <2>5. F # {}
    BY <2>4
  <2>6. Max(F) \in F /\ \A j \in F : j <= Max(F)
    BY <2>2, <2>3, <2>5, LargestOne
  <2>7. Max(F) \in 0..B /\ replayed[n].expected <= Max(F)
    BY <2>3, <2>4, <2>6
  <2> DEFINE most == Max(F)
             x == replayed[n].expected
  <2>8. most \in 0..B /\ x <= most /\ x > 0 /\ x \in Nat
    BY <1>6, <2>4, <2>7
  <2>9. most > 0
    <3> HIDE DEF most, x
    <3> QED BY ONLY <2>2, <2>8
  <2> QED BY <2>9
<1> QED
  BY <1>1, <1>3, <1>6, <1>7, <1>8 DEF replayed

\* Without an unmet gate, each of the forming card's gates is met.
LEMMA GatesMet ==
  ASSUME NEW p, NEW report, UnmetOf(PatternGates(p, report)) = {}
  PROVE  /\ Len(p.members) >= Eligibility.occurrences /\ p.days >= Eligibility.days
         /\ p.similarity >= Eligibility.similarity /\ p.minutes >= Eligibility.minutes
         /\ p.feasibility >= Eligibility.feasibility /\ p.risk <= Eligibility.risk
         /\ p.opportunity >= tuning.opportunity
         /\ report.usable >= VerifyMinRuns
         /\ report.usable > 0 /\ report.matched * 1000 >= VerifyMinMatch * report.usable
<1> DEFINE gates == PatternGates(p, report)
           replays == /\ report.usable >= VerifyMinRuns
                      /\ report.usable > 0 /\ report.matched * 1000 >= VerifyMinMatch * report.usable
<1>1. DOMAIN gates = {"repeats", "days", "consistency", "time", "feasibility", "risk", "opportunity", "replay"}
  BY DEF PatternGates
<1>2. /\ gates.repeats = (Len(p.members) >= Eligibility.occurrences)
      /\ gates.days = (p.days >= Eligibility.days)
      /\ gates.consistency = (p.similarity >= Eligibility.similarity)
      /\ gates.time = (p.minutes >= Eligibility.minutes)
      /\ gates.feasibility = (p.feasibility >= Eligibility.feasibility)
      /\ gates.risk = (p.risk <= Eligibility.risk)
      /\ gates.opportunity = (p.opportunity >= tuning.opportunity)
      /\ gates.replay = replays
  BY Zenon DEF PatternGates
<1> HIDE DEF gates
<1>3. \A g \in DOMAIN gates : gates[g]
  <2>1. {g \in DOMAIN gates : ~gates[g]} = {}
    BY DEF UnmetOf, gates
  <2> QED BY <2>1, Zenon
<1>4. /\ gates.repeats /\ gates.days /\ gates.consistency /\ gates.time /\ gates.feasibility /\ gates.risk
      /\ gates.opportunity /\ gates.replay
  BY <1>1, <1>3, Zenon
<1> HIDE DEF replays
<1>5. replays
  BY <1>2, <1>4, Zenon
<1>6. /\ Len(p.members) >= Eligibility.occurrences /\ p.days >= Eligibility.days
      /\ p.similarity >= Eligibility.similarity /\ p.minutes >= Eligibility.minutes
      /\ p.feasibility >= Eligibility.feasibility /\ p.risk <= Eligibility.risk
      /\ p.opportunity >= tuning.opportunity
  BY <1>2, <1>4, Zenon
<1> QED
  BY <1>5, <1>6, Zenon DEF replays

\* What a novel pattern consists of
LEMMA NovelFields ==
  ASSUME NEW c
  PROVE  /\ NovelPattern(c).members = c /\ NovelPattern(c).template = None
         /\ NovelPattern(c).opportunity =
              OpportunityScore(c, MeanSimilarity(c, PairSimilarities(c)), Representative(c))
BY DEF NovelPattern, PatternOf, ScorePattern

\* A novel pattern that meets every gate of its card is offered, unless no run has to match.
LEMMA FormingIs ==
  ASSUME Remembered, VerifyMinMatch > 0, NEW c \in ToSet(ClusterEpisodes(Explained(None))),
         NovelPattern(c).sequence \notin tuning.refused, UnmetGates(NovelPattern(c)) = {}
  PROVE  IsProven(NovelPattern(c))
<1> DEFINE p == NovelPattern(c)
           report == LeaveOneOut(p)
           t == Newest(c)
<1>1. p.members = c /\ p.template = None
  BY NovelFields
<1>2. c \in Seq(DOMAIN recorded) /\ c # <<>> /\ \A m, n \in DOMAIN c : m # n => c[m] # c[n]
  BY NovelRunsAre
<1>3. p.opportunity \in 0..1000
  <2>1. Representative(c) \in Seq(KnownTokens)
    BY <1>2, RepresentativeIs
  <2>2. MeanSimilarity(c, PairSimilarities(c)) \in Int
    BY <1>2, MeanIs
  <2>3. OpportunityScore(c, MeanSimilarity(c, PairSimilarities(c)), Representative(c)) \in 0..1000
    <3> DEFINE mean == MeanSimilarity(c, PairSimilarities(c))
               seq == Representative(c)
    <3>1. mean \in Int /\ seq \in Seq(KnownTokens)
      BY <2>1, <2>2
    <3> HIDE DEF mean, seq
    <3>2. Remembered /\ c \in Seq(DOMAIN recorded) /\ c # <<>>
      BY <1>2, Zenon
    <3> HIDE DEF p, report, t
    <3>3. OpportunityScore(c, mean, seq) \in 0..1000
      BY ONLY <3>1, <3>2, OpportunityIs, ZenonT(60)
    <3> QED BY <3>3 DEF mean, seq
  <2>4. p.opportunity = OpportunityScore(c, MeanSimilarity(c, PairSimilarities(c)), Representative(c))
    BY NovelFields
  <2> HIDE DEF p
  <2> QED BY <2>3, <2>4
<1>4. UnmetOf(PatternGates(p, report)) = {} /\ p.sequence \notin tuning.refused
  BY Zenon DEF UnmetGates
<1>5. report = Report(Replays(t))
  <2> HIDE DEF p
  <2> QED BY <1>1, Zenon DEF LeaveOneOut, report, t
<1> HIDE DEF p, report, t
<1>6. /\ Len(p.members) >= Eligibility.occurrences /\ p.days >= Eligibility.days
      /\ p.similarity >= Eligibility.similarity /\ p.minutes >= Eligibility.minutes
      /\ p.feasibility >= Eligibility.feasibility /\ p.risk <= Eligibility.risk
      /\ p.opportunity >= tuning.opportunity
      /\ report.usable >= VerifyMinRuns
      /\ report.usable > 0 /\ report.matched * 1000 >= VerifyMinMatch * report.usable
  BY <1>4, GatesMet
<1>7. p.opportunity >= Clamp01(tuning.opportunity)
  <2> DEFINE x == tuning.opportunity
             y == p.opportunity
  <2>1. x \in Int
    BY TuningsAssumption DEF Remembered
  <2>2. y >= x /\ y \in 0..1000
    BY <1>3, <1>6
  <2>3. y >= Clamp01(x)
    <3> HIDE DEF x, y
    <3> QED BY <2>1, <2>2 DEF Clamp01
  <2> QED BY <2>3
<1>8. Surfaces(p)
  <2>1. Safe(p)
    BY <1>6 DEF Safe
  <2>2. NovelSurfaces(p)
    BY <1>6, <1>7, <2>1, Zenon DEF NovelSurfaces
  <2> QED BY <1>1, <1>4, <2>2, Zenon DEF Surfaces
<1>9. t \in Seq(DOMAIN recorded) /\ Falls(t)
  BY <1>2, TestedAre DEF t
<1>10. report.matched > 0
  <2> DEFINE M == {n \in DOMAIN Replays(t) : Replays(t)[n].verdict = "match"}
             idle == {n \in DOMAIN Replays(t) : Replays(t)[n].verdict = "insufficient_evidence"}
  <2>1. DOMAIN Replays(t) = DOMAIN t /\ Len(Replays(t)) \in Nat /\ IsFiniteSet(DOMAIN t)
    <3>1. Len(t) \in Nat /\ DOMAIN t = 1..Len(t)
      BY <1>9, LenProperties
    <3>2. DOMAIN Replays(t) = 1..Len(t)
      BY <3>1 DEF Replays
    <3>3. Replays(t) = [n \in 1..Len(t) |-> Replays(t)[n]]
      BY <3>1 DEF Replays
    <3>4. Len([n \in 1..Len(t) |-> Replays(t)[n]]) = Len(t)
      BY <3>1
    <3>5. IsFiniteSet(1..Len(t))
      <4>1. 1 \in Int /\ Len(t) \in Int
        BY <3>1
      <4> QED BY <4>1, FS_Interval
    <3> QED BY <3>1, <3>2, <3>3, <3>4, <3>5
  <2>2. report.matched = Cardinality(M) /\ report.usable = Len(Replays(t)) - Cardinality(idle)
    BY <1>5 DEF Report
  <2>3. M \subseteq DOMAIN t /\ idle \subseteq DOMAIN t
    BY <2>1
  <2> HIDE DEF M, idle
  <2>4. Cardinality(M) \in Nat /\ Cardinality(idle) \in Nat
    BY <2>1, <2>3, FS_Subset, FS_CardinalityType
  <2> DEFINE m == report.matched
             u == report.usable
  <2>5. m \in Nat /\ u \in Int /\ u > 0 /\ m * 1000 >= VerifyMinMatch * u
    BY <1>6, <2>1, <2>2, <2>4
  <2>6. VerifyMinMatch \in Nat /\ VerifyMinMatch > 0
    BY GateAssumption
  <2> HIDE DEF m, u
  <2>7. VerifyMinMatch * u > 0
    BY ONLY <2>5, <2>6
  <2>8. m > 0
    <3> SUFFICES ASSUME m = 0 PROVE FALSE
      BY <2>5
    <3>1. m * 1000 = 0
      OBVIOUS
    <3>2. VerifyMinMatch * u \in Int
      BY <2>5, <2>6
    <3> QED BY <2>5, <2>7, <3>1, <3>2
  <2> QED BY <2>8 DEF m
<1>11. report.meaningful > 0 /\ \E n \in DOMAIN report.results : report.results[n].aligned > 0
  BY <1>5, <1>9, <1>10, MatchIs
<1>12. Verified(report)
  BY <1>6, <1>11 DEF Verified
<1> QED
  BY <1>8, <1>12, Zenon DEF IsProven, p, report

-----------------------------------------------------------------------------
(* What is learned is earned. *)

\* What a pattern of either kind consists of
LEMMA TemplateFields ==
  ASSUME NEW w
  PROVE  TemplatePattern(w).members = Explained(w) /\ TemplatePattern(w).template = w
BY DEF TemplatePattern, PatternOf, ScorePattern

\* No setting and no template gets a pattern past the bars on feasibility and risk.
LEMMA SafetyBars ==
  ASSUME NEW p, IsProven(p)
  PROVE  p.feasibility >= 600 /\ p.risk <= 700
<1>1. Surfaces(p)
  BY Zenon DEF IsProven
<1>2. Safe(p)
  BY <1>1, Zenon DEF Surfaces, TemplateSurfaces, NovelSurfaces
<1>3. Eligibility.feasibility = 600 /\ Eligibility.risk = 700
  BY DEF Eligibility
<1> QED
  BY <1>2, <1>3 DEF Safe

\* Over runs the user can record, what is offered is earned and the forming card is honest.
LEMMA RememberedIsEarned == Remembered => PatternsAreEarned
<1> SUFFICES ASSUME Remembered, NEW p \in PatternCandidates
             PROVE  /\ IsProven(p) =>
                         /\ \A k \in ToSet(p.members) : recorded[k].kept = "learn"
                         /\ p.feasibility >= 600 /\ p.risk <= 700
                         /\ p.template = None => AreRepeated(ToSet(p.members))
                    /\ (IsForming(p) /\ p.template = None /\ VerifyMinMatch > 0) => UnmetGates(p) # {}
  BY Zenon DEF PatternsAreEarned
<1>1. IsProven(p) => p.feasibility >= 600 /\ p.risk <= 700
  BY SafetyBars
<1>2. ASSUME NEW w \in DOMAIN PackWorkflows, p = TemplatePattern(w)
      PROVE  (\A k \in ToSet(p.members) : recorded[k].kept = "learn") /\ p.template # None
  <2>1. p.members = Explained(w) /\ p.template = w
    BY <1>2, TemplateFields
  <2>2. \A k \in ToSet(Explained(w)) : recorded[k].kept = "learn"
    BY ExplainedIs
  <2>3. w # None
    BY WorkflowsAreNumbered
  <2> QED BY <2>1, <2>2, <2>3
<1>3. ASSUME NEW c \in ToSet(ClusterEpisodes(Explained(None))), p = NovelPattern(c)
      PROVE  /\ \A k \in ToSet(p.members) : recorded[k].kept = "learn"
             /\ IsProven(p) => AreRepeated(ToSet(p.members))
             /\ IsForming(p) /\ VerifyMinMatch > 0 => UnmetGates(p) # {}
  <2>1. p.members = c /\ p.template = None
    BY <1>3, NovelFields
  <2>2. \A k \in ToSet(c) : recorded[k].kept = "learn"
    BY NovelRunsAre
  <2>3. ASSUME IsProven(p) PROVE AreRepeated(ToSet(p.members))
    <3>1. Verified(LeaveOneOut(p))
      BY <2>1, <2>3, Zenon DEF IsProven
    <3>2. Verified(Report(Replays(Newest(c))))
      BY <2>1, <3>1, Zenon DEF LeaveOneOut
    <3> QED BY <2>1, <3>2, RepeatedIs
  <2>4. ASSUME IsForming(p), VerifyMinMatch > 0 PROVE UnmetGates(p) # {}
    <3>1. p.sequence \notin tuning.refused /\ ~IsProven(p)
      BY <2>4, Zenon DEF IsForming
    <3>2. UnmetGates(NovelPattern(c)) = {} => IsProven(NovelPattern(c))
      BY <1>3, <2>4, <3>1, FormingIs
    <3> QED BY <1>3, <3>1, <3>2
  <2> QED BY <2>1, <2>2, <2>3, <2>4
<1>4. \/ \E w \in DOMAIN PackWorkflows : p = TemplatePattern(w)
      \/ \E c \in ToSet(ClusterEpisodes(Explained(None))) : p = NovelPattern(c)
  BY DEF PatternCandidates
<1> QED
  BY <1>1, <1>2, <1>3, <1>4

\* Only runs that a user may record are recorded.
LEMMA RememberedInductive == Remembered /\ [EngineNext]_engineVars => Remembered'
<1> SUFFICES ASSUME Remembered, [EngineNext]_engineVars PROVE Remembered'
  OBVIOUS
<1>1. CASE UNCHANGED engineVars
  BY <1>1 DEF Remembered, engineVars
<1>2. ASSUME NEW shape \in Shapes, NEW later \in 0..1, RecordRun(shape, later) PROVE Remembered'
  <2> DEFINE day == IF recorded = <<>> THEN 0 ELSE Last(recorded).day + later
             run == [events |-> shape.events, minutes |-> shape.minutes, kept |-> shape.kept, day |-> day]
  <2>1. day \in Nat
    <3>1. CASE recorded # <<>>
      <4>1. Len(recorded) \in DOMAIN recorded
        <5>1. Len(recorded) \in Nat /\ Len(recorded) > 0 /\ DOMAIN recorded = 1..Len(recorded)
          BY <3>1, LongIs, LenProperties DEF Remembered
        <5> QED BY <5>1
      <4>2. Last(recorded) \in RecordedRuns
        BY <4>1, Elements DEF Remembered, Last
      <4>3. Last(recorded).day \in Nat
        BY <4>2, RunsAre
      <4> HIDE DEF Remembered
      <4> QED BY <3>1, <4>3
    <3>2. CASE recorded = <<>>
      BY <3>2
    <3> QED BY <3>1, <3>2
  <2> HIDE DEF day
  <2>2. run \in RecordedRuns
    BY <2>1 DEF RecordedRuns
  <2>3. recorded' = Append(recorded, run) /\ tuning' = tuning
    BY <1>2 DEF RecordRun, day
  <2> HIDE DEF run
  <2> QED BY <2>2, <2>3 DEF Remembered
<1> QED
  BY <1>1, <1>2 DEF EngineNext

\* Whatever runs a user records, a pattern that is offered was learned from runs the user allows, is safe, and
\* is repeated: enough of its runs contain what the others predict. The forming card is honest: PatternsAreEarned.
THEOREM PatternsStayEarned == EngineSpec => []PatternsAreEarned
<1>1. EngineInit => Remembered
  BY DEF EngineInit, Remembered
<1>2. EngineSpec => []Remembered
  BY <1>1, RememberedInductive, PTL DEF EngineSpec
<1> QED
  BY <1>2, RememberedIsEarned, PTL

\* The episodes the recogniser is given are whole, and what it makes of them is earned: EvidenceIsEarned.
THEOREM EvidenceStaysEarned == SegmentSpec /\ EngineSpec => []EvidenceIsEarned
<1>1. EpisodesAreWhole /\ PatternsAreEarned => EvidenceIsEarned
  BY Zenon DEF EvidenceIsEarned
<1> QED
  BY <1>1, EpisodesStayWhole, PatternsStayEarned, PTL
=============================================================================
