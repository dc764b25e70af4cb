SPECIFICATION FairSpec
CONSTANTS
    ConfigFiles <- MCConfigFiles
    NoFile = NoFile
    Unreadable = Unreadable
    Error = Error
    Boards <- MCBoards
    RouteBoards <- MCRouteBoards
    MaxData = 33
    OpenMayFail = FALSE
    MaxDeliveries = 2
CHECK_DEADLOCK FALSE
INVARIANT TypeOK
INVARIANT CallbacksFindHandlers
INVARIANT NilPortOnlyUnsupervised
INVARIANT WritableEepromIsReported
INVARIANT SubscribedWhenSettled
INVARIANT PriorityRouteIsLeast
INVARIANT PaddingComesOff
PROPERTY StartupCompletes
