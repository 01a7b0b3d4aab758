CONSTANTS
    c1 = c1
    c2 = c2
    Callers <- MCCallers
    KeyTypes <- MCKeyTypes
    None = None
    DelegateResetDuringPairing = FALSE
    StartEncryptionMayFail = FALSE
    StatusCallbackMayDestroy = FALSE
    PairingBudget <- MaxPairings
SPECIFICATION Spec
CONSTRAINT StateBound
PROPERTY ImplementsPairingOutcome
