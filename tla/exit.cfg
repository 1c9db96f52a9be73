SPECIFICATION FairSpec
CONSTANTS
    MaxFaults = 1
PROPERTY SignalEndsSwitch
CHECK_DEADLOCK FALSE
