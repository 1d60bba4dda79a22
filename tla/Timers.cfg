SPECIFICATION FairSpec
CONSTANTS
    Owners = {display, store, dhcp}
    MaxTimers = 2
    Intervals = {1, 3}
    Clock = 8
    MaxLag = 1
    Callbacks = {"return", "start", "change"}
    MaxIds = 3
    NoDeadline = NoDeadline
INVARIANTS HandlesLive
PROPERTIES ImplementsPromise TimerServed
