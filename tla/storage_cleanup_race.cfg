SPECIFICATION StorageSpec
CONSTANTS
    Registration = {g1, g2}
    Nobody = Nobody
    Faults = {"db"}
INVARIANT
    OnlyFaultyRegistrationsFail
