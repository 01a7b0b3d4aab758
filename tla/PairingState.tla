----------------------------- MODULE PairingState -----------------------------
(***************************************************************************)
(* The BR/EDR pairing state machine of bt-host/gap/pairing_state.cc.       *)
(*                                                                         *)
(* One PairingState is bound to one ACL link.  Every handler (one per HCI  *)
(* event, plus InitiatePairing for upper layers) runs to completion on the *)
(* link's dispatcher, so each is one atomic action here.  The controller   *)
(* is unconstrained: any event may arrive in any state, as the code must   *)
(* cope with.  PairingDelegate requests are asynchronous: a request is     *)
(* recorded in uiRequests and answered later, in any order, or never.      *)
(*                                                                         *)
(* Data is abstracted: a link key is its type plus the generation of the   *)
(* Pairing that produced it (its 128-bit value only matters as "which      *)
(* negotiation made it"), numeric values and passkeys are left out, a      *)
(* Pairing's identity (the WeakPtr its delegate callbacks hold) is a       *)
(* generation number.                                                      *)
(***************************************************************************)
EXTENDS PairingDecisions, Naturals, Sequences, SequencesExt

CONSTANTS
    Callers,         \* upper-layer consumers that may call InitiatePairing
    KeyTypes,        \* hci::LinkKeyType values the controller may report
    None,            \* model value: no Pairing / no value computed yet
    DelegateResetDuringPairing, \* may bt-gap clear the PairingDelegate mid-pairing?
    StartEncryptionMayFail,     \* may link_->StartEncryption() refuse?
    StatusCallbackMayDestroy    \* may status_callback_ destroy this PairingState?

ASSUME /\ Callers # {}
       /\ DelegateResetDuringPairing \in BOOLEAN
       /\ StartEncryptionMayFail \in BOOLEAN
       /\ StatusCallbackMayDestroy \in BOOLEAN

\* PairingState::State
Idle                        == "Idle"
InitiatorPairingStarted     == "InitiatorPairingStarted"
InitiatorWaitIoCapResponse  == "InitiatorWaitIoCapResponse"
ResponderWaitIoCapRequest   == "ResponderWaitIoCapRequest"
WaitUserConfirmationRequest == "WaitUserConfirmationRequest"
WaitUserPasskeyRequest      == "WaitUserPasskeyRequest"
WaitUserPasskeyNotification == "WaitUserPasskeyNotification"
WaitPairingComplete         == "WaitPairingComplete"
WaitLinkKey                 == "WaitLinkKey"
InitiatorWaitAuthComplete   == "InitiatorWaitAuthComplete"
WaitEncryption              == "WaitEncryption"
Failed                      == "Failed"
States == {Idle, InitiatorPairingStarted, InitiatorWaitIoCapResponse,
           ResponderWaitIoCapRequest, WaitUserConfirmationRequest,
           WaitUserPasskeyRequest, WaitUserPasskeyNotification,
           WaitPairingComplete, WaitLinkKey, InitiatorWaitAuthComplete,
           WaitEncryption, Failed}

\* hci::Status values: success, an error code from the controller, and the
\* HostError codes the state machine raises.
Success              == "Success"
HciError             == "HciError"
NotReady             == "NotReady"
Canceled             == "Canceled"
NotSupported         == "NotSupported"
HostFailed           == "HostFailed"
InsufficientSecurity == "InsufficientSecurity"
ControllerStatuses == {Success, HciError}
Statuses == ControllerStatuses \cup
            {NotReady, Canceled, NotSupported, HostFailed, InsufficientSecurity}

\* hci::LinkKeyType (kDebugCombination is excluded: the controller is assumed
\* not to be in debug mode, and the code aborts on it).
Combination                   == "Combination"
LocalUnit                     == "LocalUnit"
RemoteUnit                    == "RemoteUnit"
UnauthenticatedCombination192 == "UnauthenticatedCombination192"
AuthenticatedCombination192   == "AuthenticatedCombination192"
ChangedCombination            == "ChangedCombination"
UnauthenticatedCombination256 == "UnauthenticatedCombination256"
AuthenticatedCombination256   == "AuthenticatedCombination256"
AllKeyTypes == {Combination, LocalUnit, RemoteUnit, UnauthenticatedCombination192,
                AuthenticatedCombination192, ChangedCombination,
                UnauthenticatedCombination256, AuthenticatedCombination256}
ASSUME KeyTypes \subseteq AllKeyTypes

\* sm::SecurityProperties(key_type): legacy and changed-combination keys carry
\* no security level; only the SSP combination keys do, and of those only the
\* "authenticated" ones are MITM-protected.
KeyHasSecurity(kt) == kt \in {UnauthenticatedCombination192, AuthenticatedCombination192,
                              UnauthenticatedCombination256, AuthenticatedCombination256}
KeyAuthenticated(kt) == kt \in {AuthenticatedCombination192, AuthenticatedCombination256}

\* sm::IOCapability, what PairingDelegate::io_capability() returns: the HCI
\* values plus KeyboardDisplay.
KeyboardDisplay == "KeyboardDisplay"
SmIOCaps == IOCaps \cup {KeyboardDisplay}

\* sm::util::IOCapabilityForHci: HCI has no KeyboardDisplay; Secure Simple
\* Pairing treats it as DisplayYesNo.
IOCapabilityForHci(cap) == IF cap = KeyboardDisplay THEN DisplayYesNo ELSE cap

\* The kinds of PairingDelegate request that take a callback.
Comparison == "Comparison"   \* DisplayPasskey(..., kComparison, cb)
Consent    == "Consent"      \* ConfirmPairing(..., cb)
Passkey    == "Passkey"      \* RequestPasskey(..., cb)
PeerEntry  == "PeerEntry"    \* DisplayPasskey(..., kPeerEntry, cb)
RequestKinds == {Comparison, Consent, Passkey, PeerEntry}

NoKey     == [type |-> None, gen |-> 0]
NotJoined == -1

VARIABLES
    state,          \* state_
    pairing,        \* current_pairing_: None or a Pairing record
    gen,            \* number of Pairing objects created so far (identity source)
    delegate,       \* pairing_delegate() != nullptr
    linkKey,        \* link_'s BR/EDR link key: its type and producing Pairing
    linkEncrypted,  \* link_'s encryption state, as last reported by the controller
    topSignals,     \* statuses passed to status_callback_, in order
    callerSignals,  \* statuses passed to each caller's InitiatePairing callback
    joinedAt,       \* history: Len(topSignals) when a caller's callback joined a Pairing
    uiRequests,     \* outstanding PairingDelegate requests [gen, kind]
    hciReplies,     \* replies sent to the controller [gen, accept]
    completions,    \* PairingDelegate::CompletePairing calls [gen, ok]
    lifetime,       \* "Alive", "Destroyed", or "UsedAfterFree": written after destruction
    nullDelegateCall \* a handler called pairing_delegate() after bt-gap cleared it

vars == <<state, pairing, gen, delegate, linkKey, linkEncrypted, topSignals,
          callerSignals, joinedAt, uiRequests, hciReplies, completions, lifetime,
          nullDelegateCall>>

PairingRecords ==
    [gen : Nat, initiator : BOOLEAN,
     local_iocap : IOCaps \cup {None}, peer_iocap : IOCaps \cup {None},
     action : PairingActions \cup {None}, expected_event : PairingEvents \cup {None},
     authenticated : BOOLEAN \cup {None},
     security_properties : AllKeyTypes \cup {None},
     initiator_callbacks : Seq(Callers)]

-----------------------------------------------------------------------------
(* Helpers: the Pairing constructors and the private methods of the class. *)

Pairing(g, isInitiator, peerCap, cbs) ==
    [gen |-> g, initiator |-> isInitiator, local_iocap |-> None,
     peer_iocap |-> peerCap, action |-> None, expected_event |-> None,
     authenticated |-> None, security_properties |-> None,
     initiator_callbacks |-> cbs]

MakeInitiator(g, status_callback) == Pairing(g, TRUE, None, <<status_callback>>)

MakeResponder(g, peer_iocap) == Pairing(g, FALSE, peer_iocap, <<>>)

\* Variant: the responder passes its own capability as the initiator's.
ComputePairingDataSwapped(p) ==
    [p EXCEPT
        !.action = IF p.initiator
                   THEN GetInitiatorPairingAction(p.local_iocap, p.peer_iocap)
                   ELSE GetResponderPairingAction(p.local_iocap, p.peer_iocap),
        !.expected_event = GetExpectedEvent(p.local_iocap, p.peer_iocap),
        !.authenticated = IsPairingAuthenticated(p.local_iocap, p.peer_iocap)]

ComputePairingData(p) ==
    [p EXCEPT
        !.action = IF p.initiator
                   THEN GetInitiatorPairingAction(p.local_iocap, p.peer_iocap)
                   ELSE GetResponderPairingAction(p.peer_iocap, p.local_iocap),
        !.expected_event = GetExpectedEvent(p.local_iocap, p.peer_iocap),
        !.authenticated = IsPairingAuthenticated(p.local_iocap, p.peer_iocap)]

GetStateForPairingEvent(event_code) ==
    CASE event_code = UserConfirmationRequestEvent -> WaitUserConfirmationRequest
      [] event_code = UserPasskeyRequestEvent      -> WaitUserPasskeyRequest
      [] event_code = UserPasskeyNotificationEvent -> WaitUserPasskeyNotification
      [] OTHER                                     -> Failed

CurrentGen == IF pairing = None THEN 0 ELSE pairing.gen

\* status_callback_(handle, status).  Its owner may destroy this PairingState
\* in it, "if signaling an error causes a disconnection" (SignalStatus's
\* comment); writesAfter says whether the caller writes a member after it.
StatusCallback(status, writesAfter) ==
    /\ topSignals' = Append(topSignals, status)
    /\ \E destroyed \in IF StatusCallbackMayDestroy /\ status # Success
                        THEN BOOLEAN ELSE {FALSE} :
          lifetime' = CASE ~destroyed  -> lifetime
                        [] writesAfter -> "UsedAfterFree"
                        [] OTHER       -> "Destroyed"

\* Variant: the callbacks are signalled but current_pairing_ is not reset.
SignalStatusKeepingPairing(status) ==
    /\ StatusCallback(status, FALSE)
    /\ callerSignals' =
         [c \in Callers |->
            IF pairing # None /\ c \in ToSet(pairing.initiator_callbacks)
            THEN Append(callerSignals[c], status) ELSE callerSignals[c]]
    /\ UNCHANGED pairing

\* Variant: only status_callback_ is called; the queued callbacks are dropped.
SignalStatusTopOnly(status) ==
    /\ StatusCallback(status, FALSE)
    /\ UNCHANGED callerSignals
    /\ pairing' = None

\* Detach the callbacks, drop the Pairing, then call status_callback_ and every
\* queued callback with the same status.
SignalStatus(status) ==
    /\ StatusCallback(status, FALSE)
    /\ callerSignals' =
         [c \in Callers |->
            IF pairing # None /\ c \in ToSet(pairing.initiator_callbacks)
            THEN Append(callerSignals[c], status) ELSE callerSignals[c]]
    /\ pairing' = None

FailWithUnexpectedEvent ==
    /\ state' = Failed
    /\ SignalStatus(NotSupported)

\* link_->StartEncryption() may be refused; then only status_callback_ hears of
\* the failure and the Pairing p is left in place.
EnableEncryption(p) ==
    \/ /\ StartEncryptionMayFail
       /\ StatusCallback(HostFailed, TRUE)    \* then state_ = kFailed
       /\ state' = Failed
       /\ pairing' = p
       /\ UNCHANGED callerSignals
    \/ /\ state' = WaitEncryption
       /\ pairing' = p
       /\ UNCHANGED <<topSignals, lifetime, callerSignals>>

\* Variant: the delegate's sm::IOCapability is stored without conversion.
LocalIoCapabilityUnconverted(delegateCap) == delegateCap

\* current_pairing_->local_iocap =
\*     sm::util::IOCapabilityForHci(pairing_delegate()->io_capability())
LocalIoCapability(delegateCap) == IOCapabilityForHci(delegateCap)

\* A handler that checked or asserted pairing_delegate() reads it again to
\* call it.  bt-gap clears the delegate on its own thread (TODO 37447), so
\* when it may do so during a pairing the second read can find it cleared,
\* and the call goes through a null delegate.
CallDelegate ==
    \E cleared \in IF DelegateResetDuringPairing THEN BOOLEAN ELSE {FALSE} :
        /\ delegate' = (delegate /\ ~cleared)
        /\ nullDelegateCall' = (nullDelegateCall \/ ~delegate')

\* The `if (!pairing) return;` guard of every delegate callback.
PairingAlive(g) == pairing # None /\ pairing.gen = g

\* OnLinkKeyNotification's two checks of the reported key against the Pairing.
LinkKeyAcceptable(key_type) ==
    /\ KeyHasSecurity(key_type)
    /\ KeyAuthenticated(key_type) = pairing.authenticated

\* OnEncryptionChange turns success-with-encryption-off into a failure.
EncryptionStatus(status, enabled) ==
    IF status = Success /\ ~enabled THEN HostFailed ELSE status

-----------------------------------------------------------------------------
Init ==
    /\ state = Idle
    /\ pairing = None
    /\ gen = 0
    /\ delegate \in BOOLEAN
    /\ linkKey = NoKey
    /\ linkEncrypted = FALSE
    /\ topSignals = <<>>
    /\ callerSignals = [c \in Callers |-> <<>>]
    /\ joinedAt = [c \in Callers |-> NotJoined]
    /\ uiRequests = {}
    /\ hciReplies = {}
    /\ completions = {}
    /\ lifetime = "Alive"
    /\ nullDelegateCall = FALSE

(* Upper-layer entry point.  Each caller calls at most once.               *)
InitiatePairing(c) ==
    /\ callerSignals[c] = <<>> /\ joinedAt[c] = NotJoined
    /\ \/ /\ ~delegate
          /\ callerSignals' = [callerSignals EXCEPT ![c] = Append(@, NotReady)]
          /\ UNCHANGED <<state, pairing, gen, joinedAt>>
       \/ /\ delegate /\ state = Idle
          /\ gen' = gen + 1
          /\ pairing' = MakeInitiator(gen + 1, c)
          /\ state' = InitiatorPairingStarted
          /\ joinedAt' = [joinedAt EXCEPT ![c] = Len(topSignals)]
          /\ UNCHANGED callerSignals
       \/ /\ delegate /\ state # Idle /\ pairing # None
          /\ pairing' = [pairing EXCEPT !.initiator_callbacks = Append(@, c)]
          /\ joinedAt' = [joinedAt EXCEPT ![c] = Len(topSignals)]
          /\ UNCHANGED <<state, gen, callerSignals>>
       \/ /\ delegate /\ state # Idle /\ pairing = None
          /\ callerSignals' = [callerSignals EXCEPT ![c] = Append(@, Canceled)]
          /\ UNCHANGED <<state, pairing, gen, joinedAt>>
    /\ UNCHANGED <<delegate, nullDelegateCall, linkKey, linkEncrypted, topSignals, lifetime, uiRequests,
                   hciReplies, completions>>

OnIoCapabilityRequest ==
    /\ \/ /\ state = InitiatorPairingStarted
          /\ \E cap \in SmIOCaps :
                pairing' = [pairing EXCEPT !.local_iocap = LocalIoCapability(cap)]
          /\ CallDelegate
          /\ state' = InitiatorWaitIoCapResponse
          /\ UNCHANGED <<topSignals, lifetime, callerSignals>>
       \/ /\ state = ResponderWaitIoCapRequest /\ ~delegate
          /\ UNCHANGED <<delegate, nullDelegateCall>>
          /\ state' = Idle
          /\ SignalStatus(NotReady)
       \/ /\ state = ResponderWaitIoCapRequest /\ delegate
          /\ \E cap \in SmIOCaps :
                LET p == ComputePairingData(
                           [pairing EXCEPT !.local_iocap = LocalIoCapability(cap)])
                IN  /\ pairing' = p
                    /\ state' = GetStateForPairingEvent(p.expected_event)
          /\ CallDelegate
          /\ UNCHANGED <<topSignals, lifetime, callerSignals>>
       \/ /\ state \notin {InitiatorPairingStarted, ResponderWaitIoCapRequest}
          /\ FailWithUnexpectedEvent
          /\ UNCHANGED <<delegate, nullDelegateCall>>
    /\ UNCHANGED <<gen, linkKey, linkEncrypted, joinedAt, uiRequests,
                   hciReplies, completions>>

OnIoCapabilityResponse(peer_iocap) ==
    /\ \/ /\ state = Idle
          /\ gen' = gen + 1
          /\ pairing' = MakeResponder(gen + 1, peer_iocap)
          /\ state' = ResponderWaitIoCapRequest
          /\ UNCHANGED <<topSignals, lifetime, callerSignals>>
       \/ /\ state = InitiatorWaitIoCapResponse
          /\ LET p == ComputePairingData([pairing EXCEPT !.peer_iocap = peer_iocap])
             IN  /\ pairing' = p
                 /\ state' = GetStateForPairingEvent(p.expected_event)
          /\ UNCHANGED <<gen, topSignals, lifetime, callerSignals>>
       \/ /\ state \notin {Idle, InitiatorWaitIoCapResponse}
          /\ FailWithUnexpectedEvent
          /\ UNCHANGED gen
    /\ UNCHANGED <<delegate, nullDelegateCall, linkKey, linkEncrypted, joinedAt, uiRequests,
                   hciReplies, completions>>

\* Replies to the controller's User Confirmation / Passkey Request.
Reply(g, accept) == hciReplies' = hciReplies \cup {[gen |-> g, accept |-> accept]}

\* A request to the PairingDelegate whose callback holds a WeakPtr to the Pairing.
AskDelegate(kind) ==
    /\ uiRequests' = uiRequests \cup {[gen |-> pairing.gen, kind |-> kind]}
    /\ CallDelegate

OnUserConfirmationRequest ==
    /\ \/ /\ state # WaitUserConfirmationRequest
          /\ FailWithUnexpectedEvent
          /\ Reply(CurrentGen, FALSE)
          /\ UNCHANGED <<uiRequests, delegate, nullDelegateCall>>
       \/ /\ state = WaitUserConfirmationRequest
          /\ state' = WaitPairingComplete
          /\ \/ /\ pairing.action \in {DisplayPasskey, ComparePasskey}
                /\ AskDelegate(Comparison)
                /\ UNCHANGED hciReplies
             \/ /\ pairing.action = GetConsent
                /\ AskDelegate(Consent)
                /\ UNCHANGED hciReplies
             \/ /\ pairing.action \notin {DisplayPasskey, ComparePasskey, GetConsent}
                /\ Reply(pairing.gen, TRUE)
                /\ UNCHANGED <<uiRequests, delegate, nullDelegateCall>>
          /\ UNCHANGED <<pairing, topSignals, lifetime, callerSignals>>
    /\ UNCHANGED <<gen, linkKey, linkEncrypted, joinedAt, completions>>

OnUserPasskeyRequest ==
    /\ \/ /\ state # WaitUserPasskeyRequest
          /\ FailWithUnexpectedEvent
          /\ Reply(CurrentGen, FALSE)
          /\ UNCHANGED <<uiRequests, delegate, nullDelegateCall>>
       \/ /\ state = WaitUserPasskeyRequest
          /\ state' = WaitPairingComplete
          /\ AskDelegate(Passkey)
          /\ UNCHANGED <<pairing, topSignals, lifetime, callerSignals, hciReplies>>
    /\ UNCHANGED <<gen, linkKey, linkEncrypted, joinedAt, completions>>

OnUserPasskeyNotification ==
    /\ \/ /\ state # WaitUserPasskeyNotification
          /\ FailWithUnexpectedEvent
          /\ UNCHANGED <<uiRequests, delegate, nullDelegateCall>>
       \/ /\ state = WaitUserPasskeyNotification
          /\ state' = WaitPairingComplete
          /\ AskDelegate(PeerEntry)
          /\ UNCHANGED <<pairing, topSignals, lifetime, callerSignals>>
    /\ UNCHANGED <<gen, linkKey, linkEncrypted, joinedAt, hciReplies,
                   completions>>

(* The PairingDelegate answers request r.  The callback does nothing once  *)
(* its Pairing is gone (the WeakPtr is null); a peer-entry display cannot  *)
(* confirm or cancel anything; otherwise the answer is sent to the         *)
(* controller (a negative passkey becomes a negative reply).               *)
DelegateRespond(r, answer) ==
    /\ r \in uiRequests
    /\ uiRequests' = uiRequests \ {r}
    /\ IF PairingAlive(r.gen) /\ r.kind # PeerEntry
       THEN Reply(r.gen, answer)
       ELSE UNCHANGED hciReplies
    /\ UNCHANGED <<state, pairing, gen, delegate, nullDelegateCall, linkKey, linkEncrypted,
                   topSignals, lifetime, callerSignals, joinedAt, completions>>

OnSimplePairingComplete(status) ==
    /\ \/ /\ state # WaitPairingComplete
          /\ FailWithUnexpectedEvent
          /\ UNCHANGED <<completions, delegate, nullDelegateCall>>
       \/ /\ state = WaitPairingComplete /\ status # Success
          /\ IF delegate
             THEN /\ completions' = completions \cup {[gen |-> pairing.gen, ok |-> FALSE]}
                  /\ CallDelegate
             ELSE UNCHANGED <<completions, delegate, nullDelegateCall>>
          /\ state' = Failed
          /\ SignalStatus(status)
       \/ /\ state = WaitPairingComplete /\ status = Success
          /\ completions' = completions \cup {[gen |-> pairing.gen, ok |-> TRUE]}
          /\ state' = WaitLinkKey
          /\ UNCHANGED <<pairing, topSignals, lifetime, callerSignals, delegate,
                         nullDelegateCall>>
    /\ UNCHANGED <<gen, linkKey, linkEncrypted, joinedAt, uiRequests,
                   hciReplies>>

OnLinkKeyNotification(key_type) ==
    /\ \/ /\ state = Idle /\ key_type = ChangedCombination
          /\ linkKey = NoKey
          /\ state' = Failed
          /\ SignalStatus(InsufficientSecurity)
          /\ UNCHANGED linkKey
       \/ /\ state = Idle /\ key_type = ChangedCombination
          /\ linkKey # NoKey
          /\ linkKey' = [type |-> key_type, gen |-> 0]
          /\ UNCHANGED <<state, pairing, topSignals, lifetime, callerSignals>>
       \/ /\ ~(state = Idle /\ key_type = ChangedCombination)
          /\ state # WaitLinkKey
          /\ FailWithUnexpectedEvent
          /\ UNCHANGED linkKey
       \/ /\ state = WaitLinkKey
          /\ ~LinkKeyAcceptable(key_type)
          /\ state' = Failed
          /\ SignalStatus(InsufficientSecurity)
          /\ UNCHANGED linkKey
       \/ /\ state = WaitLinkKey
          /\ LinkKeyAcceptable(key_type)
          /\ linkKey' = [type |-> key_type, gen |-> pairing.gen]
          /\ LET p == [pairing EXCEPT !.security_properties = key_type]
             IN  IF pairing.initiator
                 THEN /\ state' = InitiatorWaitAuthComplete
                      /\ pairing' = p
                      /\ UNCHANGED <<topSignals, lifetime, callerSignals>>
                 ELSE EnableEncryption(p)
    /\ UNCHANGED <<gen, delegate, nullDelegateCall, linkEncrypted, joinedAt, uiRequests, hciReplies,
                   completions>>

OnAuthenticationComplete(status) ==
    /\ \/ /\ state \notin {InitiatorPairingStarted, InitiatorWaitAuthComplete}
          /\ FailWithUnexpectedEvent
       \/ /\ state \in {InitiatorPairingStarted, InitiatorWaitAuthComplete}
          /\ status # Success
          /\ state' = Failed
          /\ SignalStatus(status)
       \/ /\ state \in {InitiatorPairingStarted, InitiatorWaitAuthComplete}
          /\ status = Success
          /\ EnableEncryption(pairing)
    /\ UNCHANGED <<gen, delegate, nullDelegateCall, linkKey, linkEncrypted, joinedAt, uiRequests,
                   hciReplies, completions>>

(* hci::Connection records the new encryption state, then calls this       *)
(* handler through the callback installed by the constructor.              *)
OnEncryptionChange(status, enabled) ==
    /\ linkEncrypted' = IF status = Success THEN enabled ELSE linkEncrypted
    /\ \/ /\ state # WaitEncryption
          /\ UNCHANGED <<state, pairing, topSignals, lifetime, callerSignals>>
       \/ /\ state = WaitEncryption
          /\ LET s == EncryptionStatus(status, enabled)
             IN  /\ state' = IF s = Success THEN Idle ELSE Failed
                 /\ SignalStatus(s)
    /\ UNCHANGED <<gen, delegate, nullDelegateCall, linkKey, joinedAt, uiRequests, hciReplies,
                   completions>>

(* bt-gap installs or clears the PairingDelegate.                          *)
SetPairingDelegate ==
    /\ ~delegate
    /\ delegate' = TRUE
    /\ UNCHANGED <<state, pairing, gen, linkKey, linkEncrypted, topSignals, lifetime,
                   callerSignals, joinedAt, uiRequests, hciReplies, completions,
                   nullDelegateCall>>

ClearPairingDelegate ==
    /\ delegate
    /\ DelegateResetDuringPairing \/ pairing = None
    /\ delegate' = FALSE
    /\ UNCHANGED <<state, pairing, gen, linkKey, linkEncrypted, topSignals, lifetime,
                   callerSignals, joinedAt, uiRequests, hciReplies, completions,
                   nullDelegateCall>>

Next ==
    /\ lifetime = "Alive"   \* a destroyed PairingState handles nothing more
    /\ ~nullDelegateCall   \* nor does a bt-host that called a null delegate
    /\ \/ \E c \in Callers : InitiatePairing(c)
       \/ OnIoCapabilityRequest
       \/ \E cap \in IOCaps : OnIoCapabilityResponse(cap)
       \/ OnUserConfirmationRequest
       \/ OnUserPasskeyRequest
       \/ OnUserPasskeyNotification
       \/ \E r \in uiRequests, answer \in BOOLEAN : DelegateRespond(r, answer)
       \/ \E s \in ControllerStatuses : OnSimplePairingComplete(s)
       \/ \E kt \in KeyTypes : OnLinkKeyNotification(kt)
       \/ \E s \in ControllerStatuses : OnAuthenticationComplete(s)
       \/ \E s \in ControllerStatuses, en \in BOOLEAN : OnEncryptionChange(s, en)
       \/ SetPairingDelegate
       \/ ClearPairingDelegate

Spec == Init /\ [][Next]_vars

-----------------------------------------------------------------------------
(* Properties.                                                             *)

TypeOK ==
    /\ state \in States
    /\ pairing \in PairingRecords \cup {None}
    /\ gen \in Nat
    /\ delegate \in BOOLEAN
    /\ linkKey \in [type : AllKeyTypes, gen : Nat] \cup {NoKey}
    /\ linkEncrypted \in BOOLEAN
    /\ topSignals \in Seq(Statuses)
    /\ callerSignals \in [Callers -> Seq(Statuses)]
    /\ joinedAt \in [Callers -> Nat \cup {NotJoined}]
    /\ uiRequests \subseteq [gen : Nat, kind : RequestKinds]
    /\ hciReplies \subseteq [gen : Nat, accept : BOOLEAN]
    /\ completions \subseteq [gen : Nat, ok : BOOLEAN]
    /\ lifetime \in {"Alive", "Destroyed", "UsedAfterFree"}
    /\ nullDelegateCall \in BOOLEAN

(* Every ZX_ASSERT / ZX_DEBUG_ASSERT of the handlers holds in every state  *)
(* the handler may be entered from: since the controller may deliver any   *)
(* event at any time, a reachable state violating one of these is a crash  *)
(* of bt-host.  Conjunct by conjunct: InitiatePairing (lines 43, 54, 61),  *)
(* OnIoCapabilityRequest (70, 71, 80, 81), OnIoCapabilityResponse (109,    *)
(* 116), OnUserConfirmationRequest (133, 136, 168), OnUserPasskeyRequest   *)
(* (183, 186, 189), OnUserPasskeyNotification (213, 216),                  *)
(* OnSimplePairingComplete (236, and the unchecked delegate call at 250),  *)
(* and no delegate call through a pairing_delegate() cleared after its      *)
(* check (76, 95, 153, 166, 205, 227, 243; TODO 37447),                    *)
(* OnLinkKeyNotification (282), OnAuthenticationComplete (320), and        *)
(* ComputePairingData (388).  The decision tables must agree with each     *)
(* other for 168, 189 and 388 to hold.                                     *)
AssertionsHold ==
    /\ ~nullDelegateCall
    /\ state = Idle => pairing = None
    /\ state \notin {Idle, Failed} => pairing # None
    /\ state \in {InitiatorPairingStarted, InitiatorWaitIoCapResponse,
                  InitiatorWaitAuthComplete} => pairing.initiator
    /\ state = ResponderWaitIoCapRequest => ~pairing.initiator
    /\ state \in {InitiatorPairingStarted, WaitUserConfirmationRequest,
                  WaitUserPasskeyRequest, WaitUserPasskeyNotification,
                  WaitPairingComplete} => delegate
    /\ state = WaitUserConfirmationRequest =>
          pairing.action \in {DisplayPasskey, ComparePasskey, GetConsent, Automatic}
    /\ state = WaitUserPasskeyRequest => pairing.action = RequestPasskey
    /\ pairing # None /\ pairing.expected_event # None =>
          GetStateForPairingEvent(pairing.expected_event) # Failed

(* Coalescing: the callback of a caller of InitiatePairing is called at    *)
(* most once, however the controller and other callers interleave.         *)
NoCallerSignaledTwice ==
    \A c \in Callers : Len(callerSignals[c]) <= 1

(* No member of this PairingState is written after a status_callback_     *)
(* call destroyed it: SignalStatus's comment says the callbacks may         *)
(* destroy it (an error causing a disconnection), "so care must be taken   *)
(* not to access any members" after them.                                   *)
NoAccessAfterDestruction == lifetime # "UsedAfterFree"

=============================================================================
