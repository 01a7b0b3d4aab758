--------------------------- MODULE MCPairingProtocol ---------------------------
(* Instantiates PairingProtocol for TLC, with the values of MCPairingState. *)
EXTENDS PairingProtocol, MCPairingState
=============================================================================
