INIT Init
NEXT Next
INVARIANT InitiatorActionMatchesSpec
