SPECIFICATION Spec
CONSTANTS
    c1 = c1
    c2 = c2
    Temperature = Temperature
    BuzzerDisable = BuzzerDisable
    OsVersion = OsVersion
    Calls <- MCCalls
    PeerCalls <- MCPeerCalls
    AnswerPayloads = {Text}
    Clients <- MCClients
    Commands <- MCCommands
    Registrations <- MCRegistrations
    Empty = Empty
    Text = Text
    Long = Long
    Garbage = Garbage
    NoChan = NoChan
    NoReply = NoReply
    NoMessage = NoMessage
    Timeouts = {1, 2}
    ReplyTimeout = 1
    CooldownTicks = 2
    IdModulus = 16
    PeerIds = {0}
    SupervisorModes = {TRUE, FALSE}
    OpenMayFail = TRUE
    LineCapacity = 1
    MaxCalls = 2
    MaxPeerFrames = 1
    MaxReadErrors = 1
    MaxWriteErrors = 1
    MaxFlashes = 0
SYMMETRY ClientSymmetry
INVARIANT TypeOK
INVARIANT EveryCallAccounted
INVARIANT AnswerIsForTheCall
INVARIANT InFlightIdsDistinct
PROPERTY ImplementsFacade
