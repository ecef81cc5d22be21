\* Records of up to 3 octets of content in fragments of up to 7 (padding 2 and more lets
\* every chunk fit), padding up to 3.
SPECIFICATION Spec
CONSTANTS
    MaxContent = 3
    MaxFragment = 7
    MaxPadding = 3
    TagSize = 1
    Data <- McData
    Paddings = {0, 1, 2, 4}
INVARIANTS PeerRefusesNothing ReadInOrder
PROPERTIES OnlyLongSendsFail AcceptedArrives
