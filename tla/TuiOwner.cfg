CONSTANTS
    Nobody = Nobody
    Sessions = {s1, s2}
    MaxIoctls = 4
SPECIFICATION Spec
INVARIANTS OwnerDespiteClose OwnerDespiteInit DisplayIsSecured CancelFindsItsSession
CHECK_DEADLOCK FALSE
