---------------------------- MODULE DeviceSessions ----------------------------
(***************************************************************************)
(* A device's tokens: the server's sessions (server.ts enroll and rotate,  *)
(* repositories.ts), the keychain (lib.rs) and the panel's enrolment store *)
(* (state/enrollment.ts).  Rotating revokes the old session and creates    *)
(* the new one in two transactions.  The k-th token stands for its hash.   *)
(***************************************************************************)
EXTENDS Values

CONSTANTS
  Rotations,   \* requests to /v1/devices/rotate
  MaxTokens,   \* bound: tokens signed
  MaxAttempts  \* bound: enrolments, syncs and unenrolments the user asks for

VARIABLES
  sessions,  \* device_sessions: per token its family and whether it is live
  signed,    \* tokens signed so far
  keychain,  \* the device's token, or None
  rotating,  \* per rotation: where it is, the token it came with, the family it revoked
  asked,     \* the panel's command under way, or None
  phase,     \* EnrollmentState.phase
  attempts,  \* commands the user has asked for
  cutOff     \* history: a rotation revoked a session and never made the next, or its answer was lost

deviceVars == <<sessions, signed, keychain, rotating, asked, phase, attempts, cutOff>>

\* createDeviceSession
NewSession(family) == Append(sessions, [family |-> family, live |-> TRUE])

\* deviceSessionActive, DeviceTokenAuthenticator (OutboxSync lets sessions expire; here none does)
Authenticates(token) == token # None /\ sessions[token].live

-----------------------------------------------------------------------------
(* The server: rotation *)

RotateArrives(r, token) ==
  /\ rotating[r].step = "idle" /\ Authenticates(token)
  /\ rotating' = [rotating EXCEPT ![r] = [step |-> "revoke", token |-> token, family |-> None]]
  /\ UNCHANGED <<sessions, signed, keychain, asked, phase, attempts, cutOff>>

\* revokeDeviceSessionByToken: only a session that is not revoked yet
Revokes(token) == sessions[token].live

RotateRevokes(r) ==
  /\ rotating[r].step = "revoke" /\ Revokes(rotating[r].token)
  /\ sessions' = [sessions EXCEPT ![rotating[r].token].live = FALSE]
  /\ rotating' = [rotating EXCEPT ![r].step = "create", ![r].family = sessions[rotating[r].token].family]
  /\ UNCHANGED <<signed, keychain, asked, phase, attempts, cutOff>>

\* The 409: already rotated or revoked
RotateConflicts(r) ==
  /\ rotating[r].step = "revoke" /\ ~Revokes(rotating[r].token)
  /\ rotating' = [rotating EXCEPT ![r].step = "done"]
  /\ UNCHANGED <<sessions, signed, keychain, asked, phase, attempts, cutOff>>

\* createDeviceSession in the same family; the answer may not reach the device.
RotateCreates(r, reaches) ==
  /\ rotating[r].step = "create" /\ Len(sessions) < MaxTokens
  /\ sessions' = NewSession(rotating[r].family)
  /\ rotating' = [rotating EXCEPT ![r].step = "done"]
  /\ keychain' = (IF reaches /\ keychain = rotating[r].token THEN Len(sessions) + 1 ELSE keychain)
  /\ cutOff' = (cutOff \/ ~reaches)
  /\ UNCHANGED <<signed, asked, phase, attempts>>

\* The process stops, or the second statement fails.
RotateCut(r) ==
  /\ rotating[r].step = "create" /\ rotating' = [rotating EXCEPT ![r].step = "done"] /\ cutOff' = TRUE
  /\ UNCHANGED <<sessions, signed, keychain, asked, phase, attempts>>

-----------------------------------------------------------------------------
(* The panel and the core *)

\* enroll, syncNow
Ask(command) ==
  /\ asked = None /\ attempts < MaxAttempts /\ attempts' = attempts + 1
  /\ asked' = command /\ phase' = (IF command = "enroll" THEN "enrolling" ELSE "syncing")
  /\ UNCHANGED <<sessions, signed, keychain, rotating, cutOff>>

\* /v1/devices/enroll, device_enroll: a session of a new family; earlier ones stay as they are.
EnrollSucceeds ==
  /\ asked = "enroll" /\ asked' = None /\ Len(sessions) < MaxTokens
  /\ sessions' = NewSession(signed + 1) /\ signed' = signed + 1 /\ keychain' = Len(sessions) + 1
  /\ phase' = "enrolled" /\ cutOff' = FALSE
  /\ UNCHANGED <<rotating, attempts>>

EnrollFails ==
  /\ asked = "enroll" /\ asked' = None /\ phase' = "not_enrolled"
  /\ UNCHANGED <<sessions, signed, keychain, rotating, attempts, cutOff>>

\* syncNow settles as enrolled whatever the command answered.
SyncSettles ==
  /\ asked = "sync" /\ asked' = None /\ phase' = "enrolled"
  /\ UNCHANGED <<sessions, signed, keychain, rotating, attempts, cutOff>>

\* unenroll: the keychain is emptied, the server keeps its session.
Unenroll ==
  /\ attempts < MaxAttempts /\ attempts' = attempts + 1
  /\ keychain' = None /\ phase' = "not_enrolled"
  /\ UNCHANGED <<sessions, signed, rotating, asked, cutOff>>

\* refresh: device_enrolled asks the keychain.
RefreshEnrollment ==
  /\ phase' = (IF keychain = None THEN "not_enrolled" ELSE "enrolled")
  /\ UNCHANGED <<sessions, signed, keychain, rotating, asked, attempts, cutOff>>

-----------------------------------------------------------------------------
DeviceInit ==
  /\ sessions = <<>> /\ signed = 0 /\ keychain = None /\ asked = None /\ phase = "unknown"
  /\ rotating = [r \in Rotations |-> [step |-> "idle", token |-> None, family |-> None]]
  /\ attempts = 0 /\ cutOff = FALSE

DeviceNext ==
  \/ \E r \in Rotations :
       \/ \E token \in DOMAIN sessions : RotateArrives(r, token)
       \/ RotateRevokes(r) \/ RotateConflicts(r) \/ RotateCut(r)
       \/ \E reaches \in BOOLEAN : RotateCreates(r, reaches)
  \/ \E command \in {"enroll", "sync"} : Ask(command)
  \/ EnrollSucceeds \/ EnrollFails \/ SyncSettles \/ Unenroll \/ RefreshEnrollment

DeviceSpec == DeviceInit /\ [][DeviceNext]_deviceVars

-----------------------------------------------------------------------------
\* However rotations race, a family has one live session; and the device's own token works, unless a
\* rotation is under way or was cut off between its two statements or before its answer arrived.
RotationIsSafe ==
  /\ \A s, t \in DOMAIN sessions :
       sessions[s].live /\ sessions[t].live /\ sessions[s].family = sessions[t].family => s = t
  /\ keychain # None /\ ~cutOff /\ (\A r \in Rotations : rotating[r].step # "create") => Authenticates(keychain)
=============================================================================
