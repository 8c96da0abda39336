SPECIFICATION FairSpec
CONSTANTS
    Activities <- MCActivities
    requestId <- MCRequestId
    MAX_NUM_TCS = 2
    StoreSize = 3
    QueueDepth = 1
    RELEASE_TIME_MARGIN_SECONDS = 1
    TimeRange = 5
    MaxTime = 2
    Shifts = {2, 4}
    Tags = {2, 3}
INVARIANTS
    ScheduleIsAsAsked
    StoreMatchesSchedule
PROPERTIES
    ReleasedInTime
    DueIsReleased
