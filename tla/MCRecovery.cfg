\* A host of either order crashes and recovers.
SPECIFICATION FairSpec
CONSTANTS
    EffectIds = {e1, e2, e3}
    MaxCrashes = 2
INVARIANTS
    TypeOK
    AtMostOnce
    AdmittedHasHappened
PROPERTIES
    DurableAdvances
    PreparedIsEnacted
