----------------------------- MODULE BrowserBridge -----------------------------
(***************************************************************************)
(* The bridge to the Chrome extension: pairing and the bridge socket       *)
(* (lib.rs, browser_bridge.rs), the push channel (browser_relay.rs), the   *)
(* native messaging host between them (browser-host), and the service      *)
(* worker that carries a request out (sw.ts, relay.ts, dispatch.ts).       *)
(*                                                                         *)
(* A request is pushed down one connection and answered up another.  The   *)
(* worker can be evicted, the desktop restarted and the pairing redone at  *)
(* any moment.                                                             *)
(***************************************************************************)
EXTENDS Values, SequencesExt

CONSTANTS
  Requests,              \* request ids of approved browser actions
  MaxLinks, MaxPairings, \* bounds: relay connections, pairings
  MaxRestarts            \* bound: restarts of the desktop

\* No answer is taken for the absence of one, and every bound is a number.
ASSUME BridgeAssumption ==
  /\ None \notin {"refused", "applied"} /\ None \notin [req : Requests, secret : Nat]
  /\ MaxLinks \in Nat /\ MaxPairings \in Nat /\ MaxRestarts \in Nat

VARIABLES
  tokenFile,   \* the pending pairing: None, "fresh" or "expired"
  deskSecret, extSecret, \* the shared secret on either side; 0 before pairing
  extPairing,  \* the worker's pair call: None, 0 (sent), or the secret it was answered
  relayPort,   \* the worker's port, as a link; 0 for null
  links,       \* connections host - desktop: host, desk, and the lines not read yet
  relayLink,   \* the link registered at the desktop; 0 for none
  waiters,     \* pending: request ids somebody waits for
  dispatches,  \* per request: at, the answer received
  handled,     \* requests the worker is busy with
  upward,      \* signed results on their way to the desktop
  droppedAnswers, restarts \* history: answers that found no waiter; restarts

bridgeVars == <<tokenFile, deskSecret, extSecret, extPairing, relayPort, links, relayLink, waiters,
                dispatches, handled, upward, droppedAnswers, restarts>>
pairVars == <<tokenFile, deskSecret, extSecret, extPairing>>
dispatchVars == <<waiters, dispatches>>

BridgeInit ==
  /\ tokenFile = None /\ deskSecret = 0 /\ extSecret = 0 /\ extPairing = None
  /\ relayPort = 0 /\ links = <<>> /\ relayLink = 0
  /\ waiters = {} /\ dispatches = [r \in Requests |-> [at |-> "none", answer |-> None, secret |-> 0]]
  /\ handled = {} /\ upward = {} /\ droppedAnswers = {} /\ restarts = 0

-----------------------------------------------------------------------------
(* Pairing. *)

PairingBegin ==
  /\ tokenFile' = "fresh" /\ deskSecret < MaxPairings
  /\ UNCHANGED <<deskSecret, extSecret, extPairing, relayPort, links, relayLink, dispatchVars, handled,
                 upward, droppedAnswers, restarts>>

TokenExpires ==
  /\ tokenFile = "fresh" /\ tokenFile' = "expired"
  /\ UNCHANGED <<deskSecret, extSecret, extPairing, relayPort, links, relayLink, dispatchVars, handled,
                 upward, droppedAnswers, restarts>>

\* pair: the token the user pasted goes to the desktop through the host.
Pair ==
  /\ extPairing = None /\ tokenFile # None /\ extPairing' = 0
  /\ UNCHANGED <<tokenFile, deskSecret, extSecret, relayPort, links, relayLink, dispatchVars, handled,
                 upward, droppedAnswers, restarts>>

\* pair_check: the token is used up and a new secret replaces the one in the keychain.
PairCheck ==
  /\ extPairing = 0 /\ tokenFile' = None
  /\ IF tokenFile = "fresh" THEN deskSecret' = deskSecret + 1 /\ extPairing' = deskSecret'
     ELSE extPairing' = None /\ UNCHANGED deskSecret
  /\ UNCHANGED <<extSecret, relayPort, links, relayLink, dispatchVars, handled, upward, droppedAnswers, restarts>>

\* A wrong token leaves the pending pairing alone; a host that is gone answers nothing.
PairFails ==
  /\ extPairing # None /\ extPairing' = None
  /\ UNCHANGED <<tokenFile, deskSecret, extSecret, relayPort, links, relayLink, dispatchVars, handled,
                 upward, droppedAnswers, restarts>>

\* ensureRelayPort: a port and, through it, a connection to the desktop; the port stays
\* even when the desktop cannot be reached.
OpenPort(secret) ==
  IF relayPort = 0 /\ secret # 0 /\ Len(links) < MaxLinks
  THEN \E reached \in BOOLEAN :
         /\ links' = Append(links, [host |-> IF reached THEN "opening" ELSE "closed",
                                    desk |-> "accepted", lines |-> <<>>])
         /\ relayPort' = Len(links')
  ELSE UNCHANGED <<relayPort, links>>

PairAnswered ==
  /\ extPairing \notin {None, 0} /\ extSecret' = extPairing /\ extPairing' = None /\ OpenPort(extSecret')
  /\ UNCHANGED <<tokenFile, deskSecret, relayLink, dispatchVars, handled, upward, droppedAnswers, restarts>>

\* The browser starts, or a domain is enabled.
EnsureRelayPort ==
  /\ relayPort = 0 /\ OpenPort(extSecret) /\ UNCHANGED <<pairVars, relayLink, dispatchVars, handled, upward, droppedAnswers, restarts>>

-----------------------------------------------------------------------------
(* The connection. *)

\* register_relay, called by serve_bridge_connection.
RegisterRelay(l) ==
  /\ links[l].host # "closed" /\ links[l].desk = "accepted"
  /\ relayLink' = l /\ links' = [links EXCEPT ![l].desk = "registered"]
  /\ UNCHANGED <<pairVars, relayPort, dispatchVars, handled, upward, droppedAnswers, restarts>>

\* serve_bridge_connection writes the reply after the handler returned.
ReplyToRegistration(l) ==
  /\ links[l].desk = "registered"
  /\ links' = [links EXCEPT ![l].desk = "serving", ![l].lines = Append(@, None)]
  /\ UNCHANGED <<pairVars, relayPort, relayLink, dispatchVars, handled, upward, droppedAnswers, restarts>>

\* open_relay_channel takes the first line for the reply, whatever it is.
HostReadsReply(l) ==
  /\ links[l].host = "opening" /\ links[l].lines # <<>>
  /\ links' = [links EXCEPT ![l].host = "open", ![l].lines = Tail(@)]
  /\ UNCHANGED <<pairVars, relayPort, relayLink, dispatchVars, handled, upward, droppedAnswers, restarts>>

\* handleRelayMessage: what is not an envelope is ignored; an envelope is verified with
\* the secret the worker holds now.
HostForwards(l) ==
  /\ links[l].host = "open" /\ links[l].lines # <<>>
  /\ links' = [links EXCEPT ![l].lines = Tail(@)]
  /\ LET line == Head(links[l].lines)
     IN handled' = IF line # None /\ line.secret = extSecret
                   THEN handled \cup {[req |-> line.req, link |-> l, result |-> None]} ELSE handled
  /\ UNCHANGED <<pairVars, relayPort, relayLink, dispatchVars, upward, droppedAnswers, restarts>>

-----------------------------------------------------------------------------
(* The worker. *)

\* dispatchBrowserAction: refused, or carried out in the tab.
Perform(h) ==
  /\ h.result = None
  /\ \E result \in {"refused", "applied"} :
       handled' = (handled \ {h}) \cup {[h EXCEPT !.result = result]}
  /\ UNCHANGED <<pairVars, relayPort, links, relayLink, dispatchVars, upward, droppedAnswers, restarts>>

\* The tab does not answer, and neither does the worker.
PerformThrows(h) ==
  /\ h.result = None /\ handled' = handled \ {h}
  /\ UNCHANGED <<pairVars, relayPort, links, relayLink, dispatchVars, upward, droppedAnswers, restarts>>

\* handleBrowserActionRequest signs the result; it goes up the port it came down.
PostResult(h) ==
  /\ h.result # None /\ handled' = handled \ {h}
  /\ upward' = IF links[h.link].host = "closed" \/ relayPort # h.link THEN upward
               ELSE upward \cup {[req |-> h.req, result |-> h.result, secret |-> extSecret]}
  /\ UNCHANGED <<pairVars, relayPort, links, relayLink, dispatchVars, droppedAnswers, restarts>>

\* Chrome evicts the worker or quits: its port closes, and the host behind it exits.
WorkerEvicted ==
  /\ relayPort # 0 /\ relayPort' = 0 /\ handled' = {}
  /\ links' = [links EXCEPT ![relayPort].host = "closed"]
  /\ extPairing' = None
  /\ UNCHANGED <<tokenFile, deskSecret, extSecret, relayLink, dispatchVars, upward, droppedAnswers, restarts>>

-----------------------------------------------------------------------------
(* The desktop. *)

At_(r, at) == dispatches[r].at = at
To(r, at) == dispatches' = [dispatches EXCEPT ![r].at = at]

\* browser_action_dispatch: the relay is connected and there is a secret to sign with.
DispatchAction(r) ==
  /\ At_(r, "none") /\ relayLink # 0
  /\ dispatches' = [dispatches EXCEPT ![r].at = IF deskSecret = 0 THEN "failed" ELSE "signed",
                                      ![r].secret = deskSecret]
  /\ UNCHANGED <<pairVars, relayPort, links, relayLink, waiters, handled, upward, droppedAnswers, restarts>>

\* begin: the waiter first, so that an answer faster than the push still finds it.
BeginWait(r) ==
  /\ At_(r, "signed") /\ waiters' = waiters \cup {r} /\ To(r, "begun")
  /\ UNCHANGED <<pairVars, relayPort, links, relayLink, handled, upward, droppedAnswers, restarts>>

\* abandon, and as it would be without it.
AbandonNothing(r) == waiters
Abandon(r) == waiters \ {r}

\* push: a line for the host, or a write error that drops the registration.  A peer that
\* is gone may still take a line.
PushRequest(r) ==
  /\ At_(r, "begun")
  /\ \/ /\ relayLink # 0 /\ To(r, "pushed")
        /\ links' = [links EXCEPT ![relayLink].lines =
                       IF links[relayLink].host = "closed" THEN @
                       ELSE Append(@, [req |-> r, secret |-> dispatches[r].secret])]
        /\ UNCHANGED <<relayLink, waiters>>
     \/ /\ relayLink # 0 => links[relayLink].host = "closed"
        /\ relayLink' = 0 /\ waiters' = Abandon(r) /\ To(r, "failed") /\ UNCHANGED links
  /\ UNCHANGED <<pairVars, relayPort, handled, upward, droppedAnswers, restarts>>

\* handle_bridge_request and deliver: to the waiter of the request, or dropped.
Deliver(a) ==
  /\ upward' = upward \ {a}
  /\ IF a.secret # deskSecret THEN UNCHANGED <<dispatchVars, droppedAnswers>>
     ELSE IF a.req \in waiters
     THEN /\ waiters' = waiters \ {a.req} /\ UNCHANGED droppedAnswers
          /\ dispatches' = [dispatches EXCEPT ![a.req].answer = a.result]
     ELSE droppedAnswers' = droppedAnswers \cup {a.req} /\ UNCHANGED dispatchVars
  /\ UNCHANGED <<pairVars, relayPort, links, relayLink, handled, restarts>>

\* wait: recv_timeout returns the answer, or gives up after ACTION_TIMEOUT; either way
\* the entry is abandoned.
WaitReturns(r) ==
  /\ At_(r, "pushed") /\ To(r, IF dispatches[r].answer = None THEN "expired" ELSE "answered")
  /\ UNCHANGED <<pairVars, relayPort, links, relayLink, waiters, handled, upward, droppedAnswers, restarts>>

DispatchReturns(r) ==
  /\ dispatches[r].at \in {"expired", "answered"} /\ waiters' = Abandon(r)
  /\ To(r, IF At_(r, "answered") THEN dispatches[r].answer ELSE "timed out")
  /\ UNCHANGED <<pairVars, relayPort, links, relayLink, handled, upward, droppedAnswers, restarts>>

\* The desktop restarts: the host's reader ends, the worker's port does not.
DesktopRestarts ==
  /\ restarts < MaxRestarts /\ restarts' = restarts + 1 /\ relayLink' = 0 /\ waiters' = {}
  /\ dispatches' = [r \in Requests |-> IF dispatches[r].at \in {"none", "refused", "applied", "failed", "timed out"}
                                       THEN dispatches[r] ELSE [dispatches[r] EXCEPT !.at = "gone"]]
  /\ links' = [l \in DOMAIN links |-> [links[l] EXCEPT !.host = "closed", !.lines = <<>>]]
  /\ UNCHANGED <<pairVars, relayPort, handled, upward, droppedAnswers>>

BridgeNext ==
  \/ PairingBegin \/ TokenExpires \/ Pair \/ PairCheck \/ PairFails \/ PairAnswered \/ EnsureRelayPort
  \/ \E l \in DOMAIN links :
       RegisterRelay(l) \/ ReplyToRegistration(l) \/ HostReadsReply(l) \/ HostForwards(l)
  \/ \E h \in handled : Perform(h) \/ PerformThrows(h) \/ PostResult(h)
  \/ \E a \in upward : Deliver(a)
  \/ \E r \in Requests : \/ DispatchAction(r) \/ BeginWait(r) \/ PushRequest(r) \/ WaitReturns(r)
                         \/ DispatchReturns(r)
  \/ WorkerEvicted \/ DesktopRestarts

BridgeSpec == BridgeInit /\ [][BridgeNext]_bridgeVars

-----------------------------------------------------------------------------
(* A request that is never answered leaves no entry behind: only a dispatch *)
(* that is under way has a waiter.  And an answer is dropped only when its  *)
(* dispatch has stopped waiting: one that comes back before the push call   *)
(* returns still finds the waiter (browser_relay.rs, begin, wait, abandon). *)
RelayKeepsItsWaiters ==
  /\ \A r \in waiters : dispatches[r].at \in {"begun", "pushed", "expired"}
  /\ \A r \in droppedAnswers : dispatches[r].at \notin {"begun", "pushed", "answered"}
=============================================================================
