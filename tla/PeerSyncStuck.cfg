SPECIFICATION Spec
CONSTANTS
    Node = {1, 2}
    Uptime <- MCUptime
    NoPeer = 0
    Garbage = {0}
    Second = 1
    LEADER_SYNCHRONIZATION_DELAY = 0
    SYNC_START_DELAY = 1
    SYNCHRONIZATION_CHECK_DELAY = 2
    DELAY_RESPONSE_TIME = 2
    CLOCK_UNSYNCHRONIZED = 4
    MaxTime = 8
    MaxCommands = 1
    MaxDuplicates = 0
CHECK_DEADLOCK FALSE
INVARIANTS
    GivesUpWaiting
