\* Two anchors fill the verifier (16), so that three entries do not fit.
SPECIFICATION Spec
CONSTANTS
    MaxAnchors = 2
    LeafCalls <- McLeafCalls
    Certificates <- McCertificates
    Blobs <- McBlobs
    Entries <- McEntries
INVARIANTS AcceptedIsUnderstood HostnameVerified LoadIsExact
\* The verification of a leaf is one call and ends.
CHECK_DEADLOCK FALSE
