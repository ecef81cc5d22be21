\* Records as in RecordSend.cfg, with up to two octets more than MaxContent, which is all
\* that fits in a fragment; buffers that hold none, a part and all of one.
SPECIFICATION Spec
CONSTANTS
    MaxContent = 3
    MaxFragment = 7
    MaxPadding = 3
    TagSize = 1
    Data <- McData
    PeerContent = 5
    OutSizes = {0, 1, 4}
    MaxRecords = 3
INVARIANTS DeliveredInOrder LimitedPeerFits OnlyMalformedFails
PROPERTY ArrivedReturns
