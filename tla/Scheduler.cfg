SPECIFICATION FairSpec
CONSTANTS
    NPorts = 2
    MaxStops = 3
INVARIANTS
    SchedulerTypeOK
    PortAgreed
    NoLostWakeup
    BackgroundTimerArmed
PROPERTY
    WaitingServed
