\* Every chain over a small public key infrastructure, against every list of anchors.
SPECIFICATION Spec
CONSTANTS
    Certs <- MCCerts
    Hosts = {"host"}
    Keys <- MCKeys
    Names <- MCNames
    Chains <- MCChains
    AnchorLists <- MCAnchorLists
    Proofs <- MCProofs
    View <- MCView
    Pins = {"none", "good"}
    HasClock = TRUE
CHECK_DEADLOCK FALSE
INVARIANTS AcceptsOnlyAuthentic RejectsOnlyOthers
