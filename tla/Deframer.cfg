\* HandshakeDeframer with just enough room for every cut.
SPECIFICATION Spec
CONSTANTS
    Messages = 10
    Ends <- MCEnds
    Certificates = {2, 4}
    Finished = 6
    Header = 2
    Record = 6
    Capacity = 10
    CertCapacity = 5
CHECK_DEADLOCK FALSE
INVARIANTS MessagesInOrder CertificateKept NoCutOverflows
PROPERTIES SentIsHandled
