\* Certificates that RFC 5280 forbids and names that cannot be read.
SPECIFICATION Spec
CONSTANTS
    MaxAnchors = 2
    LeafCalls <- McLeafCalls
    Certificates <- McCertificates
    Blobs <- McBlobs
    Entries <- McEntries
INVARIANT MalformedIsRefused
\* The verification of a leaf is one call and ends.
CHECK_DEADLOCK FALSE
