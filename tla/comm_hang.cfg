SPECIFICATION FairSpec
CONSTANTS
    c1 = c1
    c2 = c2
    Temperature = Temperature
    BuzzerDisable = BuzzerDisable
    OsVersion = OsVersion
    Calls <- MCCalls
    PeerCalls <- MCPeerCalls
    AnswerPayloads = {Text}
    Clients <- MCClients
    Commands <- MCCommands
    Registrations <- MCRegistrations
    Empty = Empty
    Text = Text
    Long = Long
    Garbage = Garbage
    NoChan = NoChan
    NoReply = NoReply
    NoMessage = NoMessage
    Timeouts = {1, 2}
    ReplyTimeout = 1
    CooldownTicks = 2
    IdModulus = 16
    PeerIds = {0}
    SupervisorModes = {TRUE}
    OpenMayFail = FALSE
    LineCapacity = 1
    MaxCalls = 1
    MaxPeerFrames = 0
    MaxReadErrors = 0
    MaxWriteErrors = 0
    MaxFlashes = 0
PROPERTY RequestReturns
