CONSTANTS
    Offerings <- MCOfferings
    Strategies = {"flat", "nested_oneof", "nested_anyof"}
    MaxCalls = 1
    MaxRepeats = 1
SPECIFICATION Spec
INVARIANTS CallsNameOffers RepeatedCallsReturn PatchesWhole
\* a model that has made its calls makes no more
CHECK_DEADLOCK FALSE
