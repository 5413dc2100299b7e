SPECIFICATION FairSpec
CONSTANTS
    Tab = {t1, t2}
    Socket = {s1, s2, s3}
    NoTab = NoTab
    NoSocket = NoSocket
    MaxPerUser = 1
    MaxFaults = 2
    MaxLooks = 1
INVARIANTS
    TabHasAWaker
PROPERTIES
    DeadSessionsClose
    VisibleTabsSettle
CHECK_DEADLOCK FALSE
