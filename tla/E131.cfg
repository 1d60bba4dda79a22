SPECIFICATION Spec
CONSTANTS
    Ports = {1}
    Streams <- Senders
    Priorities <- TopOnSecond
    Ltp = {}
    SyncAddresses = {7}
    MergeTimeout = 1
    PriorityTimeout = 1
    LossTimeout = 1
INVARIANTS SourcesWatched ShownOrWaiting
PROPERTIES PriorityKept SilentLeaves
