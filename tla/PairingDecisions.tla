-------------------------- MODULE PairingDecisions --------------------------
(***************************************************************************)
(* The pure decision functions of bt-host/gap/pairing_state.cc: given the  *)
(* IO capabilities of the two devices they choose the user-interaction     *)
(* model (PairingAction), the HCI event the host expects next, whether the *)
(* resulting link key is MITM-authenticated, and the Authentication        *)
(* Requirements value.  Each operator translates one C++ function; the     *)
(* early returns of the code become an IF ... ELSE IF chain.               *)
(***************************************************************************)

\* hci::IOCapability
NoInputNoOutput == "NoInputNoOutput"
DisplayOnly     == "DisplayOnly"
KeyboardOnly    == "KeyboardOnly"
DisplayYesNo    == "DisplayYesNo"
IOCaps == {NoInputNoOutput, DisplayOnly, KeyboardOnly, DisplayYesNo}

\* PairingAction
Automatic      == "Automatic"
DisplayPasskey == "DisplayPasskey"
ComparePasskey == "ComparePasskey"
RequestPasskey == "RequestPasskey"
GetConsent     == "GetConsent"
PairingActions == {Automatic, DisplayPasskey, ComparePasskey, RequestPasskey, GetConsent}

\* The three HCI event codes GetExpectedEvent can return.
UserConfirmationRequestEvent  == "UserConfirmationRequestEvent"
UserPasskeyRequestEvent       == "UserPasskeyRequestEvent"
UserPasskeyNotificationEvent  == "UserPasskeyNotificationEvent"
PairingEvents == {UserConfirmationRequestEvent, UserPasskeyRequestEvent,
                  UserPasskeyNotificationEvent}

\* hci::AuthRequirements
GeneralBonding     == "GeneralBonding"
MITMGeneralBonding == "MITMGeneralBonding"

GetInitiatorPairingAction(initiator_cap, responder_cap) ==
    IF initiator_cap = NoInputNoOutput THEN Automatic
    ELSE IF responder_cap = NoInputNoOutput
         THEN IF initiator_cap = DisplayYesNo THEN GetConsent ELSE Automatic
    ELSE IF initiator_cap = KeyboardOnly THEN RequestPasskey
    ELSE IF responder_cap = DisplayOnly
         THEN IF initiator_cap = DisplayYesNo THEN ComparePasskey ELSE Automatic
    ELSE DisplayPasskey

GetResponderPairingAction(initiator_cap, responder_cap) ==
    IF initiator_cap = NoInputNoOutput /\ responder_cap = KeyboardOnly THEN GetConsent
    ELSE IF initiator_cap = DisplayYesNo /\ responder_cap = DisplayYesNo THEN ComparePasskey
    ELSE GetInitiatorPairingAction(responder_cap, initiator_cap)

GetExpectedEvent(local_cap, peer_cap) ==
    IF NoInputNoOutput \in {local_cap, peer_cap} THEN UserConfirmationRequestEvent
    ELSE IF local_cap = KeyboardOnly THEN UserPasskeyRequestEvent
    ELSE IF peer_cap = KeyboardOnly THEN UserPasskeyNotificationEvent
    ELSE UserConfirmationRequestEvent

IsPairingAuthenticated(local_cap, peer_cap) ==
    IF NoInputNoOutput \in {local_cap, peer_cap} THEN FALSE
    ELSE IF local_cap = DisplayYesNo /\ peer_cap = DisplayYesNo THEN TRUE
    ELSE KeyboardOnly \in {local_cap, peer_cap}

GetInitiatorAuthRequirements(local_cap) ==
    IF local_cap = NoInputNoOutput THEN GeneralBonding ELSE MITMGeneralBonding

GetResponderAuthRequirements(local_cap, peer_cap) ==
    IF IsPairingAuthenticated(local_cap, peer_cap) THEN MITMGeneralBonding ELSE GeneralBonding

=============================================================================
