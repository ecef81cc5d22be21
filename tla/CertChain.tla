------------------------------ MODULE CertChain ------------------------------
(***************************************************************************)
(* Authentication of a server: authenticate_server_flight() of             *)
(* src/src/tls/authentication.cpp and NativeServerAuthVerifier of          *)
(* src/src/verifier/native/native_verifier.cpp, which it calls.            *)
(*                                                                         *)
(* A certificate is what its parsed view says; the cryptography of a       *)
(* signature is the name of the key it was made with.  One call is one     *)
(* behaviour: Init chooses what the peer sent and what the verifier was    *)
(* configured with, and each loop of the code is an action per iteration.  *)
(***************************************************************************)
EXTENDS Integers, Sequences, FiniteSets

CONSTANTS
    Certs,       \* DER encodings of certificates
    View,        \* what x509_parse_certificate() finds in each
    Hosts, Keys, Names,
    Chains,      \* certificate lists a peer sends
    AnchorLists, \* anchors configured, in the order they were added
    Proofs,      \* CertificateVerify messages a peer sends
    Pins,        \* what is pinned: a certificate's digest, or "none"
    HasClock     \* a platform was given; without one no date is checked

\* "parses": the parser accepts it, or else returns "refusal"; "signer": the key its
\* signature verifies under, which includes that the algorithms fit; "names": hosts the SAN
\* entries match; "serverUse": key usage and extended key usage, if present, allow a
\* server's signature; "ca": basic constraints present and CA; "mayCertify": key usage, if
\* present, allows certificates; "limited", "path": pathLen.
Views == [parses : BOOLEAN, refusal : {"BAD_HANDSHAKE", "UNSUPPORTED"}, subject : Names,
          issuer : Names, key : Keys, signer : Keys, names : SUBSET Hosts, current : BOOLEAN,
          serverUse : BOOLEAN, ca : BOOLEAN, mayCertify : BOOLEAN, limited : BOOLEAN, path : Nat]

\* A CertificateVerify: its scheme (one that fits the leaf's kind of key, one that does
\* not, one not supported), the key that signed, whether it covers the transcript so far,
\* and what the check of the signature returns if it fails.
ProofSpace == [scheme : {"of_leaf", "other_kind", "unknown"}, signer : Keys, covers : BOOLEAN,
               refusal : {"VERIFY", "BAD_HANDSHAKE", "UNSUPPORTED"}]

\* Capacities of CertificateChainView and of anchors_.
Entries == 8
Anchors == 16

ASSUME ChainAssumption ==
    /\ View \in [Certs -> Views]
    /\ "none" \notin Certs
    /\ Chains \subseteq Seq(Certs)
    /\ AnchorLists \subseteq {l \in Seq({c \in Certs : View[c].parses}) : Len(l) <= Anchors}
    /\ Proofs \subseteq ProofSpace
    /\ Pins \subseteq Certs \cup {"none"}
    /\ HasClock \in BOOLEAN

VARIABLES
    chain,      \* the certificate list received, leaf first
    proof,      \* the CertificateVerify received
    host,       \* config_.hostname
    anchors,    \* anchors_
    pin,        \* leaf_certificate_sha256_pin_
    at,         \* the check the call is at
    index,      \* the loop variable of that check
    verdict     \* what the call returned, "none" before it does

input == <<chain, proof, host, anchors, pin>>
vars  == <<input, at, index, verdict>>

Top  == chain[Len(chain)]
Leaf == View[chain[1]]

Return(e)  == verdict' = e /\ at' = "done" /\ UNCHANGED index
Goto(p, k) == at' = p /\ index' = k /\ UNCHANGED verdict

-----------------------------------------------------------------------------
(* The checks *)

\* parse_certificate_chain(), the leaf's parser and x509_verify_hostname().
FlightError ==
    IF Len(chain) > Entries         THEN "BAD_HANDSHAKE"
    ELSE IF chain = <<>>            THEN "VERIFY"
    ELSE IF ~Leaf.parses            THEN Leaf.refusal
    ELSE IF host \notin Leaf.names  THEN "VERIFY"
    ELSE "OK"

InTime(c) == HasClock => View[c].current

LeafFits == Leaf.serverUse /\ ~Leaf.ca /\ InTime(chain[1])

MayCertify(c) == View[c].ca /\ View[c].mayCertify /\ InTime(c)

Issued(issuer, c) == /\ View[c].issuer = View[issuer].subject
                     /\ View[c].signer = View[issuer].key

\* "below": CA certificates between it and the leaf.
\* Mutant: one too many is allowed.
PathAllows_OffByOne(c, below) == View[c].limited => View[c].path + 1 >= below
PathAllows(c, below) == View[c].limited => View[c].path >= below

\* One iteration of the loop over the chain, for its k-th certificate and the next.
LinkHolds(k) ==
    /\ View[chain[k]].parses /\ View[chain[k + 1]].parses
    /\ Issued(chain[k + 1], chain[k])
    /\ MayCertify(chain[k + 1]) /\ PathAllows(chain[k + 1], k - 1)

\* One iteration of the loop over the anchors: the chain ends in the anchor itself, or
\* the anchor issued its top.
\* Mutant: the anchor's own certificate is counted when the chain ends in it.
Anchored_CountsItself(a) ==
    MayCertify(a) /\ (Top = a \/ Issued(a, Top)) /\ PathAllows(a, Len(chain) - 1)
Anchored(a) ==
    /\ MayCertify(a)
    /\ \/ Top = a /\ PathAllows(a, IF Len(chain) >= 2 THEN Len(chain) - 2 ELSE 0)
       \/ Top # a /\ Issued(a, Top) /\ PathAllows(a, Len(chain) - 1)

\* The scheme of the CertificateVerify, then the signature over the transcript.
ProofError == CASE proof.scheme = "unknown"    -> "UNSUPPORTED"
                [] proof.scheme = "other_kind" -> "VERIFY"
                [] proof.scheme = "of_leaf"    ->
                     IF proof.signer = Leaf.key /\ proof.covers THEN "OK" ELSE proof.refusal

-----------------------------------------------------------------------------
(* The call *)

ParseFlight ==
    /\ at = "flight"
    /\ IF FlightError = "OK" THEN Goto("leaf", 1) ELSE Return(FlightError)
    /\ UNCHANGED input

\* verify_chain() up to its loops: the pin is compared before the chain is looked at.
CheckPin ==
    /\ at = "leaf"
    /\ IF anchors # <<>> /\ pin \in {"none", chain[1]} THEN Goto("use", 1) ELSE Return("VERIFY")
    /\ UNCHANGED input

CheckLeaf ==
    /\ at = "use"
    /\ IF LeafFits THEN Goto("links", 1) ELSE Return("VERIFY")
    /\ UNCHANGED input

CheckLink ==
    /\ at = "links" /\ index < Len(chain)
    /\ IF LinkHolds(index) THEN Goto("links", index + 1) ELSE Return("VERIFY")
    /\ UNCHANGED input

ReachTop ==
    /\ at = "links" /\ index = Len(chain)
    /\ IF View[Top].parses THEN Goto("anchors", 1) ELSE Return("VERIFY")
    /\ UNCHANGED input

TryAnchor ==
    /\ at = "anchors" /\ index <= Len(anchors)
    /\ IF Anchored(anchors[index]) THEN Goto("proof", 1) ELSE Goto("anchors", index + 1)
    /\ UNCHANGED input

NoAnchorLeft ==
    /\ at = "anchors" /\ index > Len(anchors)
    /\ Return("VERIFY")
    /\ UNCHANGED input

CheckProof ==
    /\ at = "proof"
    /\ Return(ProofError)
    /\ UNCHANGED input

Init ==
    /\ chain \in Chains /\ anchors \in AnchorLists /\ proof \in Proofs
    /\ host \in Hosts /\ pin \in Pins
    /\ at = "flight" /\ index = 1 /\ verdict = "none"

Next == \/ ParseFlight \/ CheckPin \/ CheckLeaf \/ CheckLink \/ ReachTop
        \/ TryAnchor \/ NoAnchorLeft \/ CheckProof

Spec == Init /\ [][Next]_vars

-----------------------------------------------------------------------------
(* The reference: RFC 5280 section 6, which does not count a self-issued certificate    *)
(* against a path length; the anchor is a certificate here, whose own constraints count. *)

SelfIssued(c) == View[c].subject = View[c].issuer

ValidPath(p) ==
    /\ Len(p) >= 2
    /\ \A k \in 1..Len(p) : View[p[k]].parses /\ InTime(p[k])
    /\ \A k \in 2..Len(p) :
         /\ View[p[k - 1]].issuer = View[p[k]].subject /\ View[p[k - 1]].signer = View[p[k]].key
         /\ View[p[k]].ca /\ View[p[k]].mayCertify
         /\ View[p[k]].limited =>
              Cardinality({j \in 2..(k - 1) : ~SelfIssued(p[j])}) <= View[p[k]].path

\* The path along the first n certificates sent, up to anchor a: a is the last of them, or
\* the list leaves it out.
PathTo(n, a) == LET p == SubSeq(chain, 1, n) IN IF chain[n] = a THEN p ELSE Append(p, a)

HasPath == \E k \in 1..Len(anchors), n \in 1..Len(chain) : ValidPath(PathTo(n, anchors[k]))

\* The list is the path and nothing else, each certificate certifying the one before it
\* (RFC 8446 section 4.4.2), from an end entity's certificate, and no self-issued
\* certificate is between that and the anchor.
PlainList ==
    /\ ~Leaf.ca
    /\ \E k \in 1..Len(anchors) :
         LET p == PathTo(Len(chain), anchors[k])
         IN  ValidPath(p) /\ \A j \in 2..(Len(p) - 1) : ~SelfIssued(p[j])

\* The peer holds the private key of a leaf that is the server's, is the one pinned and
\* is certified by an anchor.
Authentic ==
    /\ Len(chain) \in 1..Entries
    /\ host \in Leaf.names /\ Leaf.serverUse
    /\ pin \in {"none", chain[1]}
    /\ HasPath
    /\ proof.scheme = "of_leaf" /\ proof.signer = Leaf.key /\ proof.covers

-----------------------------------------------------------------------------
(* Properties *)

TypeOK ==
    /\ chain \in Seq(Certs) /\ anchors \in Seq(Certs) /\ proof \in ProofSpace
    /\ host \in Hosts /\ pin \in Certs \cup {"none"}
    /\ at \in {"flight", "leaf", "use", "links", "anchors", "proof", "done"}
    /\ index \in Nat \ {0}
    /\ verdict \in {"none", "OK", "VERIFY", "BAD_HANDSHAKE", "UNSUPPORTED"}

\* Whatever chain and CertificateVerify a server sends, it is accepted only when there is
\* a valid certification path from its leaf to an anchor and it proved to hold the leaf's
\* key: the checks of the two loops, each on one pair, add up to a path.
AcceptsOnlyAuthentic == verdict = "OK" => Authentic

\* No authentic server that sends a plain list is turned away: the limits of the loops (path
\* lengths with and without the anchor in the list, the order of anchors) exclude no such
\* path.  The verifier is stricter than RFC 5280 with the others: it looks for no anchor
\* but above the last certificate sent, counts self-issued certificates ("Conservative
\* pathLenConstraint enforcement", native_verifier.cpp:294), and refuses a CA as a server.
RejectsOnlyOthers == verdict \notin {"none", "OK"} => ~(Authentic /\ PlainList)

=============================================================================
