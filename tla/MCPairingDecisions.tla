-------------------------- MODULE MCPairingDecisions --------------------------
(* Checks the decision functions of PairingDecisions over every pair of IO  *)
(* capabilities (the 16 initial states) against the table of the spec.      *)
EXTENDS PairingDecisions

VARIABLES initiatorCap, responderCap

Init == initiatorCap \in IOCaps /\ responderCap \in IOCaps

Next == UNCHANGED <<initiatorCap, responderCap>>

(* Spec section 4.2, Action(initiatorCap, responderCap): Automatic if the   *)
(* initiator is NoInputNoOutput; if the responder is NoInputNoOutput,       *)
(* GetConsent when the initiator is DisplayYesNo else Automatic;            *)
(* RequestPasskey if the initiator is KeyboardOnly; ComparePasskey if the   *)
(* responder is DisplayOnly and the initiator DisplayYesNo; else            *)
(* DisplayPasskey.  GetInitiatorPairingAction must compute this table.      *)
SpecAction(i, r) ==
    IF i = NoInputNoOutput THEN Automatic
    ELSE IF r = NoInputNoOutput
         THEN IF i = DisplayYesNo THEN GetConsent ELSE Automatic
    ELSE IF i = KeyboardOnly THEN RequestPasskey
    ELSE IF r = DisplayOnly /\ i = DisplayYesNo THEN ComparePasskey
    ELSE DisplayPasskey

InitiatorActionMatchesSpec ==
    GetInitiatorPairingAction(initiatorCap, responderCap) = SpecAction(initiatorCap, responderCap)

=============================================================================
