CONSTANTS
    Configs <- MCBoots
    MaxRequests = 1
SPECIFICATION Spec
INVARIANT SearchOutlivesReload
\* a bridge that has served its requests has nothing left to do
CHECK_DEADLOCK FALSE
