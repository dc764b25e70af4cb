SPECIFICATION FairSpec
CONSTANTS
    v1 = v1
    v2 = v2
    Versions <- MCVersions
    NoVersion = NoVersion
    Absent = Absent
    Bad = Bad
    Broken = Broken
    NoDevice = NoDevice
    OpenMayFail = TRUE
    MaxBlocks = 2
INVARIANT TypeOK
INVARIANT DownloadedIsWhole
INVARIANT FailureIsTold
PROPERTY FlashedOnlyVerified
PROPERTY PortGivenBack
PROPERTY CallbackReturns
