---------------------------- MODULE MCPairingState ----------------------------
(* Instantiates PairingState for TLC.                                       *)
EXTENDS PairingState

CONSTANTS c1, c2

MCCallers == {c1, c2}

\* Distinct Pairing objects created in one behaviour (initiator or responder).
MaxPairings == 2
\* Calls of status_callback_ in one behaviour.
MaxTopSignals == 3

StateBound == gen <= MaxPairings /\ Len(topSignals) <= MaxTopSignals

MCKeyTypes == {Combination, UnauthenticatedCombination192,
               AuthenticatedCombination192, ChangedCombination}

=============================================================================
