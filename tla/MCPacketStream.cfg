CONSTANTS
    ByteBase = 8
    CompressMin = 4
    MaxDecompressed = 20
    Types = {0, 1}
    Payloads <- MCPayloads
    BadFrames <- MCBadFrames
    MaxSent = 2
SPECIFICATION FairSpec
INVARIANTS
    TypeOK
    OneRound
    InStep
PROPERTIES
    ChannelSpec
    AllDecoded
CHECK_DEADLOCK FALSE
