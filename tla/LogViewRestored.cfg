SPECIFICATION ViewSpec
CONSTANTS
    MAX = 2
    Snaps = {1, 2}
    SnapLength <- LongAndEmpty
    MaxArrivals = 3
INVARIANTS
    SnapshotUnmixed
    LiveRestored
    FeedShows
CHECK_DEADLOCK FALSE
