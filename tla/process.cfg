SPECIFICATION FairSpec
CONSTANTS
    MaxFaults = 3
INVARIANTS TypeOK OneSwitch
PROPERTIES TellsItsChild ComesBack SignalWakesMain
\* the processes may all have ended or gone
CHECK_DEADLOCK FALSE
