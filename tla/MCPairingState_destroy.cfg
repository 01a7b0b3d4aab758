\* The owner's status_callback_ may destroy the PairingState on an error
\* status, and link_->StartEncryption() may refuse.
CONSTANTS
    c1 = c1
    c2 = c2
    Callers <- MCCallers
    KeyTypes <- MCKeyTypes
    None = None
    DelegateResetDuringPairing = FALSE
    StartEncryptionMayFail = TRUE
    StatusCallbackMayDestroy = TRUE
SPECIFICATION Spec
CONSTRAINT StateBound
CHECK_DEADLOCK FALSE
INVARIANT NoAccessAfterDestruction
