SPECIFICATION Spec
CONSTANTS
    n1 = n1
    n2 = n2
    Names = {n1, n2}
    Alike <- Prefix
    Faults = {"link", "configure", "rule", "unit", "list", "delete", "cancel"}
    MaxFaults = 1
INVARIANT RunningHasRules
INVARIANT TeardownSweeps
PROPERTY OthersRulesStay
