SPECIFICATION Spec
CONSTANTS
    BUFFER_SIZE = 62
    Numbers <- MCNumbers
    PayloadAlphabet <- MCPayloadAlphabet
    Commands <- MCCommands
    Ids <- MCIds
    MaxPayload = 2
    WireAlphabet <- MCWireAlphabet
    MaxTokens = 4
    nil = nil
    NoMessage = NoMessage
    NoText = NoText
INVARIANT TypeOK
INVARIANT RoundTrip
INVARIANT EncodedFitsReceiver
