---------------------------- MODULE PairingProtocol ----------------------------
(***************************************************************************)
(* PairingState against its abstract specification, and against a          *)
(* controller that follows the Secure Simple Pairing event order.           *)
(*                                                                          *)
(* Refinement: under any controller, PairingState implements               *)
(* PairingOutcome with the mapping below: Idle and Failed are themselves,  *)
(* every other state is Busy, and the waiters are the callbacks queued on  *)
(* current_pairing_.                                                        *)
(*                                                                          *)
(* Liveness: the code has no timeout, so a waiting caller is only ever     *)
(* signalled because the controller sends the next event of the           *)
(* procedure.  The controller does so by the Bluetooth specification: it   *)
(* answers every step of a procedure it started, and times out the user    *)
(* interaction itself (Simple Pairing Complete with an error) when the     *)
(* host never replies.  The PairingDelegate, bt-gap and the peer get no     *)
(* fairness: they may never act.                                            *)
(***************************************************************************)
EXTENDS PairingState

CONSTANT PairingBudget   \* Pairing objects a behaviour may create

-----------------------------------------------------------------------------
(* The refinement mapping.                                                 *)

AbstractPhase ==
    CASE state = Idle   -> "Idle"
      [] state = Failed -> "Failed"
      [] OTHER          -> "Busy"

Waiters == IF pairing = None THEN {} ELSE ToSet(pairing.initiator_callbacks)

Outcome == INSTANCE PairingOutcome WITH phase <- AbstractPhase, waiters <- Waiters

(* PairingState implements PairingOutcome: negotiations start only from    *)
(* Idle, callers coalesce only onto one in progress, each conclusion       *)
(* (SignalStatus) hands one status to status_callback_ and to every queued *)
(* caller exactly once, a caller that cannot wait is answered at once, and *)
(* kFailed is never left.                                                  *)
ImplementsPairingOutcome == Outcome!Spec

-----------------------------------------------------------------------------
(* The controller following the procedure: in each state it sends only an  *)
(* event the procedure calls for there, with any status or key type.       *)

ControllerStep ==
    \/ state \in {InitiatorPairingStarted, ResponderWaitIoCapRequest}
       /\ OnIoCapabilityRequest
    \/ state = InitiatorWaitIoCapResponse /\ \E cap \in IOCaps : OnIoCapabilityResponse(cap)
    \/ state = WaitUserConfirmationRequest /\ OnUserConfirmationRequest
    \/ state = WaitUserPasskeyRequest /\ OnUserPasskeyRequest
    \/ state = WaitUserPasskeyNotification /\ OnUserPasskeyNotification
    \/ state = WaitPairingComplete /\ \E s \in ControllerStatuses : OnSimplePairingComplete(s)
    \/ state = WaitLinkKey /\ \E kt \in KeyTypes : OnLinkKeyNotification(kt)
    \* Authentication Complete ends the initiator's procedure; it comes
    \* directly after the Authentication Request when the link already has a
    \* key or the request fails.
    \/ state \in {InitiatorPairingStarted, InitiatorWaitAuthComplete}
       /\ \E s \in ControllerStatuses : OnAuthenticationComplete(s)
    \/ state = WaitEncryption
       /\ \E s \in ControllerStatuses, en \in BOOLEAN : OnEncryptionChange(s, en)

\* The peer starts a pairing, or toggles encryption outside of one.
PeerStep ==
    \/ state = Idle /\ gen < PairingBudget /\ \E cap \in IOCaps : OnIoCapabilityResponse(cap)
    \/ state # WaitEncryption
       /\ \E s \in ControllerStatuses, en \in BOOLEAN : OnEncryptionChange(s, en)

UpperLayerStep ==
    \/ \E c \in Callers : InitiatePairing(c) /\ gen' <= PairingBudget
    \/ \E r \in uiRequests, answer \in BOOLEAN : DelegateRespond(r, answer)
    \/ SetPairingDelegate
    \/ ClearPairingDelegate

ProtocolNext == ControllerStep \/ PeerStep \/ UpperLayerStep

ProtocolSpec == Init /\ [][ProtocolNext]_vars /\ WF_vars(ControllerStep)

(* Every caller whose InitiatePairing callback was queued on a Pairing is  *)
(* eventually called, however late or never the PairingDelegate answers:  *)
(* every path of the procedure, and every failure on it, ends in           *)
(* SignalStatus for the callbacks queued so far.                           *)
JoinedCallersSignalled ==
    \A c \in Callers : joinedAt[c] # NotJoined ~> callerSignals[c] # <<>>

=============================================================================
