\* Two units of data each way, one key update of each end of its own accord.
SPECIFICATION SessionSpec
CONSTANTS
    X25519 = X25519

    Groups = {X25519}
    good = good
    Chains = {good}
    Trusted = {good}
    ServerGroups = {X25519}
    ServerChain = good
    ServerAlpns = {"alpn"}
    Breaks = FALSE
    Cuts = FALSE
    DeframerCapacity = 3
    MaxConns = 1
    MaxTranscript = 9
    MaxGen = 1
    MaxRecords = 0
    MaxUnits = 2
INVARIANTS HonestEndsNeverFail EndsAgree
PROPERTIES ImplementsSecureStream EverythingArrives
