\* One TlsClient with an open peer: every handshake of its first connection, and every
\* call, with data and key updates, of two connections behind short ones.
SPECIFICATION Spec
CONSTANTS
    X25519 = X25519
    SECP256R1 = SECP256R1
    Groups = {X25519, SECP256R1}
    good = good
    bad = bad
    Chains = {good, bad}
    Trusted = {good}
    DeframerCapacity = 2
    MaxConns = 2
    MaxTranscript = 6
    MaxGen = 1
    MaxRecords = 4
    MaxUnits = 2
SYMMETRY GroupSymmetry
CONSTRAINT Followed
INVARIANTS TypeOK KeysBindTranscript SignatureCoversCertificate
INVARIANTS SecretsWiped NonceUnique PeerCanDecrypt ConnectionIsFresh CloseNotifyIsLast
PROPERTIES ErrorsAreFatal ImplementsClientLifecycle
