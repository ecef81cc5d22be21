\* Every handshake with a server that may need a retry, cut and packed in any way; no data.
SPECIFICATION SessionSpec
CONSTANTS
    X25519 = X25519
    SECP256R1 = SECP256R1
    Groups = {X25519, SECP256R1}
    good = good
    Chains = {good}
    Trusted = {good}
    ServerGroups = {X25519}
    ServerChain = good
    ServerAlpns = {"none", "alpn"}
    Breaks = TRUE
    Cuts = TRUE
    DeframerCapacity = 3
    MaxConns = 1
    MaxTranscript = 9
    MaxGen = 0
    MaxRecords = 1
    MaxUnits = 0
INVARIANT ConnectedToServer
PROPERTY ConnectSucceeds
