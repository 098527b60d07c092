---------------------------- MODULE ConnectorVault ----------------------------
(***************************************************************************)
(* One organisation's connection to one provider: the OAuth routes         *)
(* (apps/api/src/connectors.ts), the vault's rows (repositories.ts), the   *)
(* worker's credential provider (vault-credentials.ts) and the adapter     *)
(* calls that use it (connector-adapters registry.ts, salesforce.ts).      *)
(*                                                                         *)
(* Every connect makes a row of its own, since the account's hash covers   *)
(* the access token; a refresh and a disconnect touch every row of the     *)
(* provider, and the newest is the one that is read.  The k-th grant of    *)
(* the provider stands for its tokens.                                     *)
(***************************************************************************)
EXTENDS Values

CONSTANTS
  VaultCalls, \* adapter calls of the worker
  Nonces,     \* authorisations that may be begun
  MaxGrants   \* bound: tokens the provider issues

VARIABLES
  vault,      \* connector_accounts, oldest first: a token and a status
  granted,    \* tokens the provider has issued so far
  accepted,   \* the tokens the provider still accepts
  nonces,     \* authorisations: "unused", "open" with a PKCE verifier stored, "spent"
  dependents, \* "active" or "paused": the agents whose spec names the provider
  calls,      \* per call: kind, step, the token it holds
  unplugged,  \* history: disconnected, with no connect since
  crossedOff  \* history: a refresh was under way when it was disconnected

vaultVars == <<vault, granted, accepted, nonces, dependents, calls, unplugged, crossedOff>>

Refreshing == \E c \in VaultCalls : calls[c].step \in {"exchange", "store"}
Moved(c, step) == calls' = [calls EXCEPT ![c].step = step]

-----------------------------------------------------------------------------
(* The API's routes *)

\* authorize: the verifier is kept under the state's nonce.
AuthorizeConnector(n) ==
  /\ nonces[n] = "unused" /\ nonces' = [nonces EXCEPT ![n] = "open"]
  /\ UNCHANGED <<vault, granted, accepted, dependents, calls, unplugged, crossedOff>>

\* callback: the verifier is spent even if the exchange is then refused, as it is without one.
CallbackRefused(n) ==
  /\ nonces[n] \in {"open", "spent"} /\ nonces' = [nonces EXCEPT ![n] = "spent"]
  /\ UNCHANGED <<vault, granted, accepted, dependents, calls, unplugged, crossedOff>>

\* upsertConnectorAccount: the hash is new with the token, so the row is too.
Upserted(token) == Append(vault, [token |-> token, status |-> "connected"])

\* exchangeCode: the provider issues a token.
Exchanged == granted < MaxGrants /\ granted' = granted + 1 /\ accepted' = accepted \cup {granted + 1}

CallbackConnects(n) ==
  /\ nonces[n] = "open" /\ nonces' = [nonces EXCEPT ![n] = "spent"] /\ Exchanged
  /\ vault' = Upserted(granted + 1)
  /\ unplugged' = FALSE /\ crossedOff' = FALSE
  /\ UNCHANGED <<dependents, calls>>

\* disconnectConnector: every row is revoked and the agents that name the provider pause.
Disconnect ==
  /\ vault # <<>>
  /\ vault' = [i \in DOMAIN vault |-> [vault[i] EXCEPT !.status = "revoked"]]
  /\ dependents' = "paused" /\ unplugged' = TRUE /\ crossedOff' = Refreshing
  /\ UNCHANGED <<granted, accepted, nonces, calls>>

\* An agent is made active again by its owner.
DependentsResume ==
  /\ dependents = "paused" /\ dependents' = "active"
  /\ UNCHANGED <<vault, granted, accepted, nonces, calls, unplugged, crossedOff>>

-----------------------------------------------------------------------------
(* The worker's credentials *)

\* getConnectorSecret: the newest row
NewestRow == vault[Len(vault)]

\* loadStored: nothing, where it is revoked
LoadAnyRow == IF vault = <<>> THEN None ELSE NewestRow.token \* a mutant
LoadStored == IF vault = <<>> \/ NewestRow.status = "revoked" THEN None ELSE NewestRow.token

\* withPerOrgFallback: a read without a connection is served by the demo world, a write is refused.
CallBegins(c, kind) ==
  /\ calls[c].step = "idle" /\ dependents = "active"
  /\ calls' = [calls EXCEPT ![c] = [kind |-> kind, token |-> None, tries |-> 0,
                 step |-> IF LoadStored # None THEN "load" ELSE IF kind = "write" THEN "refused" ELSE "demo"]]
  /\ UNCHANGED <<vault, granted, accepted, nonces, dependents, unplugged, crossedOff>>

\* authed loads once more ...
CallLoads(c) ==
  /\ calls[c].step = "load"
  /\ calls' = [calls EXCEPT ![c].token = LoadStored, ![c].step = IF LoadStored = None THEN "refused" ELSE "send"]
  /\ UNCHANGED <<vault, granted, accepted, nonces, dependents, unplugged, crossedOff>>

\* ... sends, and on a 401 refreshes once.
CallSends(c) ==
  /\ calls[c].step = "send"
  /\ calls' = [calls EXCEPT ![c].tries = calls[c].tries + 1,
                 ![c].step = IF calls[c].token \in accepted THEN "done"
                             ELSE IF calls[c].tries = 0 THEN "refresh" ELSE "refused"]
  /\ UNCHANGED <<vault, granted, accepted, nonces, dependents, unplugged, crossedOff>>

\* refresh: the stored token once more ...
RefreshLoads(c) ==
  /\ calls[c].step = "refresh"
  /\ calls' = [calls EXCEPT ![c].token = LoadStored, ![c].step = IF LoadStored = None THEN "refused" ELSE "exchange"]
  /\ UNCHANGED <<vault, granted, accepted, nonces, dependents, unplugged, crossedOff>>

\* refreshTokens: the provider gives a new token for the one it gave last, or refuses ...
RefreshRefused(c) ==
  /\ calls[c].step = "exchange" /\ Moved(c, "refused")
  /\ UNCHANGED <<vault, granted, accepted, nonces, dependents, unplugged, crossedOff>>
RefreshExchanged(c) ==
  /\ calls[c].step = "exchange" /\ Exchanged
  /\ calls' = [calls EXCEPT ![c].token = granted + 1, ![c].step = "store"]
  /\ UNCHANGED <<vault, nonces, dependents, unplugged, crossedOff>>

\* ... and updateConnectorTokens makes every row connected with it.
StoreTokens(c) ==
  /\ calls[c].step = "store" /\ Moved(c, "send")
  /\ vault' = [i \in DOMAIN vault |-> [token |-> calls[c].token, status |-> "connected"]]
  /\ UNCHANGED <<granted, accepted, nonces, dependents, unplugged, crossedOff>>

\* external: the provider lets a token expire.
TokenExpires ==
  /\ accepted # {} /\ \E t \in accepted : accepted' = accepted \ {t}
  /\ UNCHANGED <<vault, granted, nonces, dependents, calls, unplugged, crossedOff>>

-----------------------------------------------------------------------------
VaultInit ==
  /\ vault = <<>> /\ granted = 0 /\ accepted = {} /\ nonces = [n \in Nonces |-> "unused"]
  /\ dependents = "active" /\ unplugged = FALSE /\ crossedOff = FALSE
  /\ calls = [c \in VaultCalls |-> [kind |-> None, step |-> "idle", token |-> None, tries |-> 0]]

VaultNext ==
  \/ \E n \in Nonces : AuthorizeConnector(n) \/ CallbackRefused(n) \/ CallbackConnects(n)
  \/ Disconnect \/ DependentsResume \/ TokenExpires
  \/ \E c \in VaultCalls :
       \/ \E kind \in {"read", "write"} : CallBegins(c, kind)
       \/ CallLoads(c) \/ CallSends(c) \/ RefreshLoads(c) \/ RefreshRefused(c) \/ RefreshExchanged(c)
       \/ StoreTokens(c)

VaultSpec == VaultInit /\ [][VaultNext]_vaultVars

-----------------------------------------------------------------------------
\* A connector the user disconnected stays so until it is connected again, whatever calls were under
\* way, as long as none of them was in the middle of a refresh; and no write is ever served by the
\* demo world.
DisconnectHolds ==
  /\ unplugged /\ ~crossedOff => \A i \in DOMAIN vault : vault[i].status = "revoked"
  /\ \A c \in VaultCalls : calls[c].kind = "write" => calls[c].step # "demo"
=============================================================================
