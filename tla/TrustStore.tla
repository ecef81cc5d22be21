------------------------------ MODULE TrustStore ------------------------------
(***************************************************************************)
(* load_compact_trust_store() of src/src/x509/trust_store.cpp and the      *)
(* anchors it adds to and clears from a NativeServerAuthVerifier           *)
(* (src/src/verifier/native/native_verifier.cpp), which parses each entry  *)
(* with x509_parse_certificate() before it keeps it.                       *)
(*                                                                         *)
(* A blob is its magic, its count and the octets behind them.  Octets that *)
(* are the DER of a certificate are given by Certificates; all others are  *)
(* refused at the frame.                                                   *)
(***************************************************************************)
EXTENDS X509

CONSTANTS
    MaxAnchors,     \* 16: anchors a verifier holds
    Certificates,   \* from octets to the certificate they hold
    Blobs,          \* given to load_trust_store()
    Entries         \* given to add_trust_anchor()

Octets  == Seq(0..255)
BlobSet == [kind : {"short", "foreign", "store"}, count : Nat, body : Octets]

ASSUME StoreAssumption ==
    /\ MaxAnchors \in Nat
    /\ \A d \in DOMAIN Certificates : Certificates[d] \in CertificateSet
    /\ Blobs \subseteq BlobSet /\ Entries \subseteq Octets

VARIABLES
    caller,         \* the call that is in progress or returned last
    blob,           \* the blob being loaded
    off,            \* octets of its body that have been read
    der,            \* the entry given to the parser
    anchors,        \* anchors_[0..anchor_count_)
    loaded          \* *loaded_count

storeVars == <<caller, blob, off, der, anchors, loaded>>
vars      == <<x509Vars, storeVars>>

NotCertificate == [frame |-> FALSE, validity |-> FALSE, key |-> "bad", blocks |-> <<>>]
CertificateOf(d) == IF d \in DOMAIN Certificates THEN Certificates[d] ELSE NotCertificate

\* What is local to a call and to the parser's, when there is none.
NoCall ==
    /\ cert = NotCertificate /\ hostname = <<>> /\ block = 0 /\ pos = 0 /\ view = NoView
    /\ off = 0 /\ der = <<>>
EndsCall ==
    /\ cert' = NotCertificate /\ hostname' = <<>> /\ block' = 0 /\ pos' = 0 /\ view' = NoView
    /\ off' = 0 /\ der' = <<>>

-----------------------------------------------------------------------------
(* add_trust_anchor(), called by the application or for an entry *)

\* What it refuses before it parses.
AnchorError(d) ==
    IF d = <<>> THEN "INVALID_ARGUMENT"
    ELSE IF Len(anchors) >= MaxAnchors THEN "BUFFER_TOO_SMALL"
    ELSE "OK"

Parse(d) ==
    /\ at' = "frame" /\ der' = d /\ cert' = CertificateOf(d) /\ hostname' = <<>>
    /\ UNCHANGED <<block, pos, view, error>>

AddRefused(d) ==
    /\ at = "idle" /\ AnchorError(d) # "OK"
    /\ error' = AnchorError(d) /\ caller' = "add"
    /\ UNCHANGED <<at, cert, hostname, block, pos, view, blob, off, der, anchors, loaded>>

Add(d) ==
    /\ at = "idle" /\ AnchorError(d) = "OK"
    /\ Parse(d) /\ caller' = "add"
    /\ UNCHANGED <<blob, off, anchors, loaded>>

\* With the parser's verdict it returns to the application.
AddReturns ==
    /\ at = "parsed" /\ caller = "add"
    /\ at' = "idle" /\ EndsCall
    /\ anchors' = IF error = "OK" THEN Append(anchors, der) ELSE anchors
    /\ UNCHANGED <<error, caller, blob, loaded>>

\* clear_trust_anchors()
Clear ==
    /\ at = "idle"
    /\ anchors' = <<>> /\ error' = "OK" /\ caller' = "none"
    /\ UNCHANGED <<at, cert, hostname, block, pos, view, blob, off, der, loaded>>

-----------------------------------------------------------------------------
(* load_compact_trust_store() *)

LoadReturns(e) ==
    /\ at' = "idle" /\ error' = e /\ EndsCall
    /\ UNCHANGED <<caller, blob>>

\* clear_trust_anchors() and the error.  Mutant: the anchors of the entries before stay.
LoadFails_Keeps(e) == LoadReturns(e) /\ UNCHANGED <<anchors, loaded>>
LoadFails(e) == LoadReturns(e) /\ anchors' = <<>> /\ UNCHANGED loaded

\* Shorter than its header, or another magic: the anchors there are stay.
LoadRefused(b) ==
    /\ at = "idle" /\ b.kind # "store"
    /\ error' = IF b.kind = "short" THEN "INVALID_ARGUMENT" ELSE "BAD_HANDSHAKE"
    /\ caller' = "load" /\ blob' = b /\ loaded' = 0
    /\ UNCHANGED <<at, cert, hostname, block, pos, view, off, der, anchors>>

Load(b) ==
    /\ at = "idle" /\ b.kind = "store"
    /\ at' = "entries" /\ caller' = "load" /\ blob' = b /\ off' = 0
    /\ anchors' = <<>> /\ loaded' = 0
    /\ UNCHANGED <<cert, hostname, block, pos, view, error, der>>

\* The count of anchors is the index of the loop.
AtEntry == at = "entries" /\ Len(anchors) < blob.count

HeaderSize == 3
read_be24(b, o) == 65536 * b[o + 1] + 256 * b[o + 2] + b[o + 3]
HasHeader(b, o) == o + HeaderSize <= Len(b)
\* Whether an entry lies at an offset of the body, where it ends and the octets of it.
HasEntry(b, o)  == /\ HasHeader(b, o) /\ read_be24(b, o) > 0
                   /\ read_be24(b, o) <= Len(b) - (o + HeaderSize)
EntryEnd(b, o)  == o + HeaderSize + read_be24(b, o)
EntryAt(b, o)   == SubSeq(b, o + HeaderSize + 1, EntryEnd(b, o))

EntryRefused ==
    /\ AtEntry
    /\ \/ ~HasEntry(blob.body, off) /\ LoadFails("BAD_HANDSHAKE")
       \/ /\ HasEntry(blob.body, off) /\ AnchorError(EntryAt(blob.body, off)) # "OK"
          /\ LoadFails(AnchorError(EntryAt(blob.body, off)))

ReadEntry ==
    /\ AtEntry /\ HasEntry(blob.body, off) /\ AnchorError(EntryAt(blob.body, off)) = "OK"
    /\ Parse(EntryAt(blob.body, off))
    /\ off' = EntryEnd(blob.body, off)
    /\ UNCHANGED <<caller, blob, anchors, loaded>>

AnchorRefused ==
    /\ at = "parsed" /\ caller = "load" /\ error # "OK"
    /\ LoadFails(error)

AnchorAdded ==
    /\ at = "parsed" /\ caller = "load" /\ error = "OK"
    /\ at' = "entries" /\ anchors' = Append(anchors, der)
    /\ UNCHANGED <<cert, hostname, block, pos, view, error, caller, blob, off, der, loaded>>

OctetsLeft ==
    /\ at = "entries" /\ Len(anchors) = blob.count /\ off # Len(blob.body)
    /\ LoadFails("BAD_HANDSHAKE")

Loaded ==
    /\ at = "entries" /\ Len(anchors) = blob.count /\ off = Len(blob.body)
    /\ LoadReturns("OK") /\ loaded' = blob.count /\ UNCHANGED anchors

-----------------------------------------------------------------------------
(* The specification: calls that change the anchors, or one leaf to verify *)

StoreInit ==
    /\ at = "idle" /\ caller = "none" /\ error = "OK" /\ NoCall
VerifyInit == LeafInit /\ caller = "verify" /\ off = 0 /\ der = <<>>

Init ==
    /\ StoreInit \/ VerifyInit
    /\ blob = [kind |-> "short", count |-> 0, body |-> <<>>]
    /\ anchors = <<>> /\ loaded = 0

StoreStep ==
    \/ \E d \in Entries : AddRefused(d) \/ Add(d)
    \/ AddReturns \/ Clear
    \/ \E b \in Blobs : LoadRefused(b) \/ Load(b)
    \/ EntryRefused \/ ReadEntry \/ AnchorRefused \/ AnchorAdded \/ OctetsLeft \/ Loaded

X509Step == (ParseStep \/ NameStep) /\ UNCHANGED storeVars

Next == StoreStep \/ X509Step

Spec == Init /\ [][Next]_vars

-----------------------------------------------------------------------------
(* Properties *)

\* The state of the parser, the loader and the anchors.
TypeOK ==
    /\ at \in {"idle", "entries", "frame", "key", "extensions", "parsed", "names", "verified"}
    /\ caller \in {"none", "add", "load", "verify"}
    /\ cert \in CertificateSet /\ hostname \in Seq(STRING) /\ block \in Nat /\ pos \in Nat
    /\ view \in ViewSet
    /\ blob \in BlobSet /\ off \in 0..Len(blob.body) /\ der \in Octets
    /\ anchors \in Seq(Octets) /\ Len(anchors) <= MaxAnchors /\ loaded \in Nat

\* What the parser accepts, said of the whole certificate.
Acceptable(e) == e.oid # "malformed" /\ ~(e.oid = "other" /\ e.critical)
Understood(c) ==
    /\ c.frame /\ c.validity /\ c.key \in {"rsa", "p256"}
    /\ \A b \in 1..Len(c.blocks) : \A i \in 1..Len(c.blocks[b]) : Acceptable(c.blocks[b][i])

\* Entries of b.body that follow each other from its first octet, the ith ending at ends[i].
StartOf(ends, i) == IF i = 1 THEN 0 ELSE ends[i - 1]
Follow(b, ends) ==
    \A i \in DOMAIN ends : /\ HasEntry(b.body, StartOf(ends, i))
                           /\ ends[i] = EntryEnd(b.body, StartOf(ends, i))
                           /\ Understood(CertificateOf(EntryAt(b.body, StartOf(ends, i))))

\* A blob that is what the format asks for: count certificates and nothing behind them.
WellFormed(b, ends) ==
    /\ b.kind = "store" /\ Follow(b, ends)
    /\ StartOf(ends, b.count + 1) = Len(b.body)

\* A store is loaded as a whole or not at all: load_trust_store() returns XT_OK exactly for
\* blobs that are well formed and fit, the anchors are then their certificates and the
\* number returned is theirs; after a failure nothing is counted, and no anchor is left,
\* neither of the blob nor, once its magic was right, of an earlier one.
LoadIsExact ==
    at = "idle" /\ caller = "load" =>
        /\ error = "OK" <=>
              /\ blob.count <= MaxAnchors
              /\ \E ends \in [1..blob.count -> 0..Len(blob.body)] :
                    /\ WellFormed(blob, ends)
                    /\ anchors = [i \in 1..blob.count |-> EntryAt(blob.body, StartOf(ends, i))]
                    /\ loaded = blob.count
        /\ error # "OK" =>
              /\ loaded = 0 /\ (blob.kind = "store" => anchors = <<>>)
              /\ blob.count <= MaxAnchors =>
                    \A ends \in [1..blob.count -> 0..Len(blob.body)] : ~WellFormed(blob, ends)

=============================================================================
