-------------------------- MODULE AuthorisedWrites --------------------------
(***************************************************************************)
(* What a run promises the organisation about its writes, without saying   *)
(* how: each write step is granted at most one diff, in step order; a step *)
(* that needs approval is granted only a diff somebody consented to; a     *)
(* granted step applies changes of its diff, each at most once; once the   *)
(* run is closed nothing more is granted.                                  *)
(***************************************************************************)
EXTENDS Integers

CONSTANTS N, Changes, None

Steps == 1..N
Diffs == SUBSET Changes

VARIABLES
  needsConsent, \* per step, whether an approval is required
  consents,     \* the <<step, diff>> pairs people have consented to
  granted,      \* per step, the diff it may apply, or None
  applied,      \* per step and change, how often it was applied
  closed        \* a final status has been published

vars == <<needsConsent, consents, granted, applied, closed>>

Init ==
  /\ needsConsent \in [Steps -> BOOLEAN]
  /\ consents = {}
  /\ granted = [i \in Steps |-> None]
  /\ applied = [i \in Steps |-> [c \in Changes |-> 0]]
  /\ closed = FALSE

Consent(i, d) ==
  /\ consents' = consents \cup {<<i, d>>}
  /\ UNCHANGED <<needsConsent, granted, applied, closed>>

Grant(i, d) ==
  /\ ~closed
  /\ \A j \in Steps : j >= i => granted[j] = None
  /\ needsConsent[i] => <<i, d>> \in consents
  /\ granted' = [granted EXCEPT ![i] = d]
  /\ UNCHANGED <<needsConsent, consents, applied, closed>>

Apply(i, c) ==
  /\ granted[i] # None /\ c \in granted[i]
  /\ applied[i][c] = 0
  /\ applied' = [applied EXCEPT ![i][c] = 1]
  /\ UNCHANGED <<needsConsent, consents, granted, closed>>

Close ==
  /\ ~closed /\ closed' = TRUE
  /\ UNCHANGED <<needsConsent, consents, granted, applied>>

Next == \/ Close
        \/ \E i \in Steps, d \in Diffs : Consent(i, d) \/ Grant(i, d)
        \/ \E i \in Steps, c \in Changes : Apply(i, c)

Spec == Init /\ [][Next]_vars
=============================================================================
