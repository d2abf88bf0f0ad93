CONSTANTS
    Configs <- MCBoots
    MaxRequests = 1
SPECIFICATION Spec
INVARIANTS SettingsServed AutoFollowsProbes
PROPERTY BootEnds
\* a bridge that has served its requests has nothing left to do
CHECK_DEADLOCK FALSE
