SPECIFICATION Spec
CONSTANTS
    Node = {1, 2}
    Uptime <- MCUptime
    NoPeer = 0
    Garbage = {0}
    Second = 1
    LEADER_SYNCHRONIZATION_DELAY = 0
    SYNC_START_DELAY = 1
    SYNCHRONIZATION_CHECK_DELAY = 1
    DELAY_RESPONSE_TIME = 2
    CLOCK_UNSYNCHRONIZED = 3
    MaxTime = 4
    MaxCommands = 2
    MaxDuplicates = 1
CHECK_DEADLOCK FALSE
INVARIANTS
    TypeOK
    TimersArmed
    LevelsLeaveRoom
    FollowsPeer
    ClockNotStuck
    SyncAccuracy
    TimersHeeded
