--------------------------------- MODULE X509 ---------------------------------
(***************************************************************************)
(* x509_parse_certificate() and x509_verify_hostname() of                  *)
(* src/src/x509/x509.cpp: what the view of a certificate keeps of its      *)
(* extensions, and which hostnames its names cover.                        *)
(*                                                                         *)
(* A certificate is what its DER holds, read as far as the parser does:    *)
(* an element that der_tlv() or a check of tag, length or time refuses is  *)
(* not well formed, whichever the check.  Names and hostnames are          *)
(* sequences of characters.                                                *)
(***************************************************************************)
EXTENDS Naturals, Sequences, FiniteSets

CONSTANTS
    LeafCalls       \* certificates and hostnames given to verify_chain()

Names == [tag : {"dns", "other", "malformed"}, value : Seq(STRING)]

\* An extension and what it says, path being {} or {path_len_constraint}.
ExtensionSet ==
    [oid : {"san"}, names : Seq(Names)]
    \cup [oid : {"bc"}, ca : BOOLEAN, path : SUBSET Nat]
    \cup [oid : {"ku"}, usages : SUBSET {"digitalSignature", "keyCertSign"}]
    \cup [oid : {"eku"}, purposes : SUBSET {"serverAuth"}]
    \cup [oid : {"other"}, critical : BOOLEAN]
    \cup [oid : {"malformed"}]

\* blocks are the [3] elements behind the key, each a sequence of extensions.
CertificateSet ==
    [frame : BOOLEAN, validity : BOOLEAN, key : {"rsa", "p256", "unsupported", "bad"},
     blocks : Seq(Seq(ExtensionSet))]

ASSUME LeafAssumption == LeafCalls \subseteq [cert : CertificateSet, hostname : Seq(STRING)]

VARIABLES
    at,             \* the loop or call the parser is in
    cert,           \* the certificate being parsed
    hostname,       \* the hostname it is to be valid for, <<>> when none is asked
    block, pos,     \* the [3] element and the extension in it that is next
    view,           \* X509CertificateView
    error           \* what the parser or the hostname check returned last

x509Vars == <<at, cert, hostname, block, pos, view, error>>

\* X509CertificateView
ViewSet == [key : {"unknown", "rsa", "p256"}, validity : BOOLEAN,
            san : BOOLEAN, names : Seq(Names),
            bc : BOOLEAN, ca : BOOLEAN, path : SUBSET Nat,
            ku : BOOLEAN, digitalSignature : BOOLEAN, keyCertSign : BOOLEAN,
            eku : BOOLEAN, serverAuth : BOOLEAN]
NoView == [key |-> "unknown", validity |-> FALSE,
           san |-> FALSE, names |-> <<>>,
           bc |-> FALSE, ca |-> FALSE, path |-> {},
           ku |-> FALSE, digitalSignature |-> FALSE, keyCertSign |-> FALSE,
           eku |-> FALSE, serverAuth |-> FALSE]

-----------------------------------------------------------------------------
(* x509_parse_certificate() *)

Returns(e) == at' = "parsed" /\ error' = e /\ UNCHANGED <<cert, hostname, block, pos>>

\* The frame, and the five fields before the key, of which only the times are looked into.
FrameRefused ==
    /\ at = "frame" /\ ~(cert.frame /\ cert.validity)
    /\ Returns("BAD_HANDSHAKE") /\ UNCHANGED view

Frame ==
    /\ at = "frame" /\ cert.frame /\ cert.validity
    /\ at' = "key" /\ view' = [NoView EXCEPT !.validity = TRUE]
    /\ UNCHANGED <<cert, hostname, block, pos, error>>

\* parse_spki()
KeyRefused ==
    /\ at = "key" /\ cert.key \notin {"rsa", "p256"}
    /\ Returns(IF cert.key = "unsupported" THEN "UNSUPPORTED" ELSE "BAD_HANDSHAKE")
    /\ UNCHANGED view

PublicKey ==
    /\ at = "key" /\ cert.key \in {"rsa", "p256"}
    /\ at' = "extensions" /\ block' = 1 /\ pos' = 1
    /\ view' = [view EXCEPT !.key = cert.key]
    /\ UNCHANGED <<cert, hostname, error>>

\* The loop over what follows the key, and in each [3] element parse_extensions().
AtBlock == at = "extensions" /\ block <= Len(cert.blocks)
AtExtension(oid) ==
    /\ AtBlock /\ pos <= Len(cert.blocks[block])
    /\ cert.blocks[block][pos].oid = oid

Extension == cert.blocks[block][pos]
NextExtension == pos' = pos + 1 /\ UNCHANGED <<at, cert, hostname, block, error>>

NextBlock ==
    /\ AtBlock /\ pos > Len(cert.blocks[block])
    /\ block' = block + 1 /\ pos' = 1
    /\ UNCHANGED <<at, cert, hostname, view, error>>

Malformed == AtExtension("malformed") /\ Returns("BAD_HANDSHAKE") /\ UNCHANGED view

SubjectAltName ==
    /\ AtExtension("san")
    /\ view' = [view EXCEPT !.san = TRUE, !.names = Extension.names]
    /\ NextExtension

\* A path length given once stays when a later element has none.
BasicConstraints ==
    /\ AtExtension("bc")
    /\ view' = [view EXCEPT !.bc = TRUE, !.ca = Extension.ca,
                            !.path = IF Extension.path = {} THEN @ ELSE Extension.path]
    /\ NextExtension

\* The two bits of the octet, each by its mask.  Mutant: any bit allows signatures.
KeyUsage_AnyBit ==
    /\ AtExtension("ku")
    /\ view' = [view EXCEPT !.ku = TRUE, !.digitalSignature = Extension.usages # {},
                            !.keyCertSign = "keyCertSign" \in Extension.usages]
    /\ NextExtension
KeyUsage ==
    /\ AtExtension("ku")
    /\ view' = [view EXCEPT !.ku = TRUE,
                            !.digitalSignature = "digitalSignature" \in Extension.usages,
                            !.keyCertSign = "keyCertSign" \in Extension.usages]
    /\ NextExtension

\* A purpose given once stays given.
ExtendedKeyUsage ==
    /\ AtExtension("eku")
    /\ view' = [view EXCEPT !.eku = TRUE, !.serverAuth = @ \/ "serverAuth" \in Extension.purposes]
    /\ NextExtension

CriticalUnknown ==
    /\ AtExtension("other") /\ Extension.critical
    /\ Returns("UNSUPPORTED") /\ UNCHANGED view

Ignored ==
    /\ AtExtension("other") /\ ~Extension.critical
    /\ NextExtension /\ UNCHANGED view

ExtensionsEnd ==
    /\ at = "extensions" /\ block > Len(cert.blocks)
    /\ Returns("OK") /\ UNCHANGED view

ParseStep ==
    \/ FrameRefused \/ Frame \/ KeyRefused \/ PublicKey
    \/ NextBlock \/ Malformed \/ SubjectAltName \/ BasicConstraints \/ KeyUsage
    \/ ExtendedKeyUsage \/ CriticalUnknown \/ Ignored \/ ExtensionsEnd

-----------------------------------------------------------------------------
(* x509_verify_hostname() *)

ascii_lower(c) == IF c = "A" THEN "a" ELSE c
Same(p, h) == Len(p) = Len(h) /\ \A i \in 1..Len(p) : ascii_lower(p[i]) = ascii_lower(h[i])

Dots(h) == {i \in 1..Len(h) : h[i] = "."}
\* strchr(host, '.') points there.  Mutant: strrchr().
FirstDot_Last(h, dot) == dot \in Dots(h) /\ \A j \in Dots(h) : j <= dot
FirstDot(h, dot) == dot \in Dots(h) /\ \A j \in Dots(h) : dot <= j
After(s, n) == SubSeq(s, n + 1, Len(s))

dns_equal(p, h) ==
    \/ Same(p, h)
    \/ /\ Len(p) > 2 /\ p[1] = "*" /\ p[2] = "."
       /\ \E dot \in 2..Len(h) : FirstDot(h, dot) /\ Same(After(p, 2), After(h, dot))

\* Of a certificate that parsed.
VerifyHostname ==
    /\ at = "parsed" /\ error = "OK" /\ hostname # <<>> /\ view.san
    /\ at' = "names" /\ pos' = 1
    /\ UNCHANGED <<cert, hostname, block, view, error>>

NoNames ==
    /\ at = "parsed" /\ error = "OK" /\ hostname # <<>> /\ ~view.san
    /\ at' = "verified" /\ error' = "VERIFY"
    /\ UNCHANGED <<cert, hostname, block, pos, view>>

AtName == at = "names" /\ pos <= Len(view.names)
Name   == view.names[pos]

NameMalformed ==
    /\ AtName /\ Name.tag = "malformed"
    /\ at' = "verified" /\ error' = "BAD_HANDSHAKE"
    /\ UNCHANGED <<cert, hostname, block, pos, view>>

NameMatches ==
    /\ AtName /\ Name.tag = "dns" /\ dns_equal(Name.value, hostname)
    /\ at' = "verified" /\ error' = "OK"
    /\ UNCHANGED <<cert, hostname, block, pos, view>>

NamePassed ==
    /\ AtName /\ Name.tag # "malformed" /\ ~(Name.tag = "dns" /\ dns_equal(Name.value, hostname))
    /\ pos' = pos + 1
    /\ UNCHANGED <<at, cert, hostname, block, view, error>>

NamesEnd ==
    /\ at = "names" /\ pos > Len(view.names)
    /\ at' = "verified" /\ error' = "VERIFY"
    /\ UNCHANGED <<cert, hostname, block, pos, view>>

NameStep == VerifyHostname \/ NoNames \/ NameMalformed \/ NameMatches \/ NamePassed \/ NamesEnd

-----------------------------------------------------------------------------
(* The specification *)

LeafInit ==
    /\ \E c \in LeafCalls : cert = c.cert /\ hostname = c.hostname
    /\ at = "frame" /\ block = 0 /\ pos = 0 /\ view = NoView /\ error = "OK"

-----------------------------------------------------------------------------
(* Properties *)

\* All extensions of the certificate.
Extensions == UNION {{<<b, i>> : i \in 1..Len(cert.blocks[b])} : b \in 1..Len(cert.blocks)}
At(x)      == cert.blocks[x[1]][x[2]]
Of(oid)    == {x \in Extensions : At(x).oid = oid}

\* A certificate that is accepted has no malformed and no unknown critical extension, and
\* its view says of each extension, given once as RFC 5280 section 4.2 requires, just what
\* it says, which the loop gathers from all [3] elements.  What a repeated one should mean
\* nothing says (the parser lets it through, see MalformedIsRefused); the view then holds
\* no permission that none of them gives and drops no path length.
AcceptedIsUnderstood ==
    at \in {"parsed", "names"} /\ error = "OK" =>
        /\ cert.frame /\ cert.validity /\ view.key = cert.key
        /\ Of("malformed") = {} /\ \A x \in Of("other") : ~At(x).critical
        /\ \A x \in Extensions : Of(At(x).oid) = {x} =>
              CASE At(x).oid = "san" -> view.names = At(x).names
                [] At(x).oid = "bc"  -> view.ca = At(x).ca /\ view.path = At(x).path
                [] At(x).oid = "ku"  ->
                     /\ view.digitalSignature <=> "digitalSignature" \in At(x).usages
                     /\ view.keyCertSign <=> "keyCertSign" \in At(x).usages
                [] At(x).oid = "eku" -> view.serverAuth <=> "serverAuth" \in At(x).purposes
                [] OTHER             -> TRUE
        /\ <<view.san, view.bc, view.ku, view.eku>>
              = <<Of("san") # {}, Of("bc") # {}, Of("ku") # {}, Of("eku") # {}>>
        /\ view.path = {} => \A x \in Of("bc") : At(x).path = {}
        /\ view.ca => \E x \in Of("bc") : At(x).ca
        /\ view.digitalSignature => \E x \in Of("ku") : "digitalSignature" \in At(x).usages
        /\ view.keyCertSign => \E x \in Of("ku") : "keyCertSign" \in At(x).usages
        /\ view.serverAuth => \E x \in Of("eku") : "serverAuth" \in At(x).purposes

\* README.md:337: "malformed input fail[s] closed".  The parser accepts no certificate with
\* an extension twice (RFC 5280 section 4.2), and no leaf is valid for a host with a name in
\* it that cannot be read.
MalformedIsRefused ==
    /\ at = "parsed" /\ error = "OK" =>
          \A x \in Extensions : At(x).oid = "other" \/ Of(At(x).oid) = {x}
    /\ at = "verified" /\ error = "OK" =>
          \A i \in 1..Len(view.names) : view.names[i].tag # "malformed"

\* A name covers a host when they agree but for the case of letters, or when it is the
\* host with an asterisk for the whole of its first label, and for nothing else.
Covers(p, h) ==
    \/ Same(p, h)
    \/ \E k \in 2..(Len(h) - 1) :
          /\ h[k] = "." /\ \A i \in 1..(k - 1) : h[i] # "."
          /\ Same(p, <<"*">> \o SubSeq(h, k, Len(h)))

\* A leaf is valid for a host exactly if one of its DNS names covers it; a malformed entry
\* hides those behind it, and is not seen behind a match (see MalformedIsRefused).  (test_auth.cpp:92 has the two labels an asterisk may not span.)
HostnameVerified ==
    at = "verified" =>
        (error = "OK" <=>
            \E i \in 1..Len(view.names) :
                /\ view.names[i].tag = "dns" /\ Covers(view.names[i].value, hostname)
                /\ \A j \in 1..(i - 1) : view.names[j].tag # "malformed")

=============================================================================
