SPECIFICATION CrSpec
CONSTANTS
    Manifests <- ChainPlans
    Floored = {"eu"}
    Skippable = {"roads"}
    Phases = {"all", "structures"}
    MaxPlans = 2
    NoChain = NoChain
CHECK_DEADLOCK FALSE
INVARIANT ExitZeroIsNotShort
