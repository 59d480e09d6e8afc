SPECIFICATION FairSpec
CONSTANTS
    Keys = {k1}
    CodeLen <- MCCodeLen
    QueueLen = 1
    LedArgs <- MCLedArgs
    MaxEvents = 2
    MaxRequests = 2
INVARIANTS TypeOK WireContiguous WireInOrder OneLatePacket
PROPERTIES LedsAcknowledged ChannelSpec LineSpec RequestServed PacketsGoOut ResetReenables
