\* One handshake with an open peer; the property is what the README says of it.
SPECIFICATION Spec
CONSTANTS
    X25519 = X25519
    SECP256R1 = SECP256R1
    Groups = {X25519, SECP256R1}
    good = good
    bad = bad
    Chains = {good, bad}
    Trusted = {good}
    DeframerCapacity = 2
    MaxConns = 1
    MaxTranscript = 6
    MaxGen = 0
    MaxRecords = 4
    MaxUnits = 0
SYMMETRY GroupSymmetry
INVARIANTS ConnectedIsAuthenticated
