CONSTANTS
    c1 = c1
    c2 = c2
    Callers <- MCCallers
    KeyTypes <- MCKeyTypes
    None = None
    DelegateResetDuringPairing = TRUE
    StartEncryptionMayFail = TRUE
    StatusCallbackMayDestroy = FALSE
SPECIFICATION Spec
\* A bt-host that asserted or called a null delegate takes no further step.
CHECK_DEADLOCK FALSE
CONSTRAINT StateBound
INVARIANT AssertionsHold
