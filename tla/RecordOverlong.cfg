\* A peer that puts more octets in a record than RFC 8446 allows.
SPECIFICATION Spec
CONSTANTS
    MaxContent = 3
    MaxFragment = 7
    MaxPadding = 3
    TagSize = 1
    Data <- McData
    PeerContent = 5
    OutSizes = {0, 1, 4}
    MaxRecords = 3
INVARIANT CopiesFit
