CONSTANTS
    c1 = c1
    c2 = c2
    Callers <- MCCallers
    KeyTypes <- MCKeyTypes
    None = None
    DelegateResetDuringPairing = FALSE
    StartEncryptionMayFail = TRUE
    StatusCallbackMayDestroy = FALSE
SPECIFICATION Spec
CONSTRAINT StateBound
INVARIANT TypeOK
INVARIANT AssertionsHold
INVARIANT NoCallerSignaledTwice
