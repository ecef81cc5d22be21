--------------------------- MODULE TrustStoreProofs ---------------------------
(***************************************************************************)
(* Proofs about TrustStore and X509: the matcher of hostnames accepts the  *)
(* names that cover the host, and a trust store is loaded as a whole or    *)
(* not at all, for every certificate, blob and capacity.                   *)
(***************************************************************************)
EXTENDS TrustStore, SequenceTheorems, TLAPS

-----------------------------------------------------------------------------
(* The hostname matcher *)

\* Where strchr() points there is a dot and none before it, and nowhere else.
LEMMA FirstDotIs ==
    ASSUME NEW h \in Seq(STRING), NEW k \in 1..Len(h)
    PROVE  FirstDot(h, k) <=> h[k] = "." /\ \A i \in 1..(k - 1) : h[i] # "."
<1>1. ASSUME FirstDot(h, k)
      PROVE  h[k] = "." /\ \A i \in 1..(k - 1) : h[i] # "."
  <2>1. h[k] = "."
    BY <1>1 DEF FirstDot, Dots
  <2>2. ASSUME NEW i \in 1..(k - 1), h[i] = "."
        PROVE  FALSE
    <3>1. i \in 1..Len(h)
      OBVIOUS
    <3>2. k <= i
      BY <1>1, <2>2, <3>1 DEF FirstDot, Dots
    <3> QED  BY <3>2
  <2> QED  BY <2>1, <2>2
<1>2. ASSUME h[k] = ".", \A i \in 1..(k - 1) : h[i] # "."
      PROVE  FirstDot(h, k)
  <2>1. k \in Dots(h)
    BY <1>2 DEF Dots
  <2>2. ASSUME NEW j \in Dots(h)
        PROVE  k <= j
    <3>1. j \in 1..Len(h) /\ h[j] = "."
      BY DEF Dots
    <3> QED  BY <3>1, <1>2
  <2> QED  BY <2>1, <2>2 DEF FirstDot
<1> QED  BY <1>1, <1>2

\* What is behind the first n characters.
LEMMA AfterIs ==
    ASSUME NEW s \in Seq(STRING), NEW n \in 0..Len(s)
    PROVE  /\ Len(After(s, n)) = Len(s) - n
           /\ \A i \in 1..(Len(s) - n) : After(s, n)[i] = s[n + i]
BY DEF After

\* The comparison of a name that starts with an asterisk and a dot with the rest of the
\* host is the comparison of the whole name with the host's rest behind an asterisk.
LEMMA WildcardIs ==
    ASSUME NEW p \in Seq(STRING), NEW h \in Seq(STRING), NEW k \in 1..Len(h), h[k] = "."
    PROVE  Same(p, <<"*">> \o SubSeq(h, k, Len(h)))
             <=> Len(p) >= 2 /\ p[1] = "*" /\ p[2] = "." /\ Same(After(p, 2), After(h, k))
<1> DEFINE r == SubSeq(h, k, Len(h))
           q == <<"*">> \o r
           a == After(h, k)
           b == After(p, 2)
<1>1. r \in Seq(STRING) /\ Len(r) = Len(h) - k + 1 /\ \A i \in 1..Len(r) : r[i] = h[k + i - 1]
  OBVIOUS
<1>2. /\ Len(q) = Len(h) - k + 2 /\ q[1] = "*"
      /\ \A i \in 2..Len(q) : q[i] = h[k + i - 2]
  BY <1>1
<1>3. Len(a) = Len(h) - k /\ \A i \in 1..Len(a) : a[i] = h[k + i]
  BY AfterIs
<1>4. \A c : ascii_lower(c) = "*" <=> c = "*"
  BY DEF ascii_lower
<1>5. \A c : ascii_lower(c) = "." <=> c = "."
  BY DEF ascii_lower
<1>6. ASSUME Len(p) >= 2
      PROVE  Len(b) = Len(p) - 2 /\ \A i \in 1..Len(b) : b[i] = p[2 + i]
  <2>1. 2 \in 0..Len(p)
    BY <1>6
  <2> QED  BY <2>1, AfterIs
<1> HIDE DEF r, q, a, b
<1>7. ASSUME Same(p, q)
      PROVE  Len(p) >= 2 /\ p[1] = "*" /\ p[2] = "." /\ Same(b, a)
  <2>1. Len(p) = Len(q) /\ \A i \in 1..Len(p) : ascii_lower(p[i]) = ascii_lower(q[i])
    BY <1>7 DEF Same
  <2>2. Len(p) >= 2
    BY <2>1, <1>2
  <2>3. 1 \in 1..Len(p) /\ 2 \in 1..Len(p) /\ 2 \in 2..Len(q)
    BY <2>1, <2>2
  <2>4. p[1] = "*"
    BY <2>1, <2>3, <1>2, <1>4
  <2>5. q[2] = "."
    BY <2>3, <1>2
  <2>6. p[2] = "."
    BY <2>1, <2>3, <2>5, <1>5
  <2>7. Len(b) = Len(a)
    <3>1. Len(b) = Len(p) - 2
      BY <2>2, <1>6
    <3>2. Len(p) = Len(h) - k + 2
      BY <2>1, <1>2
    <3> QED  BY <3>1, <3>2, <1>3
  <2>8. ASSUME NEW i \in 1..Len(b)
        PROVE  ascii_lower(b[i]) = ascii_lower(a[i])
    <3>1. i + 2 \in 1..Len(p) /\ i + 2 \in 2..Len(q) /\ b[i] = p[2 + i] /\ a[i] = h[k + i]
      BY <2>1, <2>2, <2>7, <1>3, <1>6
    <3>2. q[i + 2] = h[k + (i + 2) - 2]
      BY <3>1, <1>2
    <3>3. k + (i + 2) - 2 = k + i /\ 2 + i = i + 2
      OBVIOUS
    <3> QED  BY <3>1, <3>2, <3>3, <2>1
  <2> QED  BY <2>2, <2>4, <2>6, <2>7, <2>8 DEF Same
<1>8. ASSUME Len(p) >= 2, p[1] = "*", p[2] = ".", Same(b, a)
      PROVE  Same(p, q)
  <2>1. Len(b) = Len(a) /\ \A i \in 1..Len(b) : ascii_lower(b[i]) = ascii_lower(a[i])
    BY <1>8 DEF Same
  <2>2. Len(p) = Len(q)
    BY <2>1, <1>8, <1>2, <1>3, <1>6
  <2>3. ASSUME NEW i \in 1..Len(p)
        PROVE  ascii_lower(p[i]) = ascii_lower(q[i])
    <3>1. CASE i = 1
      BY <3>1, <1>2, <1>8
    <3>2. CASE i = 2
      <4>1. q[2] = h[k + 2 - 2]
        BY <3>2, <2>2, <1>2
      <4>2. k + 2 - 2 = k
        OBVIOUS
      <4> QED  BY <4>1, <4>2, <3>2, <1>8
    <3>3. CASE i > 2
      <4>1. i - 2 \in 1..Len(b) /\ i - 2 \in 1..Len(a) /\ i \in 2..Len(q)
        BY <3>3, <1>6, <1>8, <2>1, <2>2
      <4>2. b[i - 2] = p[2 + (i - 2)] /\ a[i - 2] = h[k + (i - 2)] /\ q[i] = h[k + i - 2]
        BY <4>1, <1>2, <1>3, <1>6, <1>8
      <4>3. 2 + (i - 2) = i /\ k + (i - 2) = k + i - 2
        OBVIOUS
      <4> QED  BY <4>1, <4>2, <4>3, <2>1
    <3> QED  BY <3>1, <3>2, <3>3
  <2> QED  BY <2>2, <2>3 DEF Same
<1> QED  BY <1>7, <1>8 DEF q, r, a, b

\* dns_equal() holds for the names that cover the host.
LEMMA MatcherCovers ==
    ASSUME NEW p \in Seq(STRING), NEW h \in Seq(STRING)
    PROVE  dns_equal(p, h) <=> Covers(p, h)
<1>1. ASSUME NEW k \in 2..Len(h), Len(p) > 2, h[k] = ".",
             Same(p, <<"*">> \o SubSeq(h, k, Len(h)))
                \/ (p[1] = "*" /\ p[2] = "." /\ Same(After(p, 2), After(h, k)))
      PROVE  k \in 2..(Len(h) - 1)
  <2>1. k \in 1..Len(h)
    OBVIOUS
  <2>2. Same(After(p, 2), After(h, k))
    BY <1>1, <2>1, WildcardIs
  <2>3. Len(After(p, 2)) = Len(p) - 2
    BY <1>1 DEF After
  <2>4. Len(After(h, k)) = Len(h) - k
    BY <2>1 DEF After
  <2> QED  BY <1>1, <2>2, <2>3, <2>4 DEF Same
<1>2. ASSUME NEW k \in 2..(Len(h) - 1), h[k] = ".",
             Same(p, <<"*">> \o SubSeq(h, k, Len(h)))
      PROVE  Len(p) > 2
  <2>1. k \in 1..Len(h)
    OBVIOUS
  <2>2. Same(After(p, 2), After(h, k)) /\ Len(p) >= 2
    BY <1>2, <2>1, WildcardIs
  <2>3. Len(After(p, 2)) = Len(p) - 2
    <3>1. 2 \in 0..Len(p)
      BY <2>2
    <3> QED  BY <3>1, AfterIs
  <2>4. Len(After(h, k)) = Len(h) - k
    BY <2>1, AfterIs
  <2> QED  BY <2>2, <2>3, <2>4 DEF Same
<1>3. ASSUME NEW k \in 2..Len(h), Len(p) > 2, p[1] = "*", p[2] = ".", FirstDot(h, k),
             Same(After(p, 2), After(h, k))
      PROVE  Covers(p, h)
  <2>1. k \in 1..Len(h)
    OBVIOUS
  <2>2. h[k] = "." /\ \A i \in 1..(k - 1) : h[i] # "."
    BY <1>3, <2>1, FirstDotIs
  <2>3. Same(p, <<"*">> \o SubSeq(h, k, Len(h)))
    BY <1>3, <2>1, <2>2, WildcardIs
  <2>4. k \in 2..(Len(h) - 1)
    BY <1>1, <1>3, <2>2
  <2> QED  BY <2>2, <2>3, <2>4 DEF Covers
<1>4. ASSUME NEW k \in 2..(Len(h) - 1), h[k] = ".", \A i \in 1..(k - 1) : h[i] # ".",
             Same(p, <<"*">> \o SubSeq(h, k, Len(h)))
      PROVE  dns_equal(p, h)
  <2>1. k \in 1..Len(h) /\ k \in 2..Len(h)
    OBVIOUS
  <2>2. FirstDot(h, k)
    BY <1>4, <2>1, FirstDotIs
  <2>3. p[1] = "*" /\ p[2] = "." /\ Same(After(p, 2), After(h, k))
    BY <1>4, <2>1, WildcardIs
  <2>4. Len(p) > 2
    BY <1>2, <1>4
  <2> QED  BY <2>1, <2>2, <2>3, <2>4 DEF dns_equal
<1>5. Same(p, h) => dns_equal(p, h) /\ Covers(p, h)
  BY DEF dns_equal, Covers
<1>6. dns_equal(p, h) => Covers(p, h)
  BY <1>3, <1>5 DEF dns_equal
<1>7. Covers(p, h) => dns_equal(p, h)
  BY <1>4, <1>5 DEF Covers
<1> QED  BY <1>6, <1>7

-----------------------------------------------------------------------------
(* The inductive invariant *)

\* What the parser has seen of the certificate so far is acceptable, and its verdict is
\* about the whole of it.
Parsing ==
    /\ at = "key" => cert.frame /\ cert.validity
    /\ at = "extensions" =>
          /\ cert.frame /\ cert.validity /\ cert.key \in {"rsa", "p256"}
          /\ block \in 1..(Len(cert.blocks) + 1) /\ pos >= 1
          /\ \A b \in 1..(block - 1) : \A i \in 1..Len(cert.blocks[b]) : Acceptable(cert.blocks[b][i])
          /\ block <= Len(cert.blocks) =>
                /\ pos <= Len(cert.blocks[block]) + 1
                /\ \A i \in 1..(pos - 1) : Acceptable(cert.blocks[block][i])
    /\ at = "parsed" => (error = "OK" <=> Understood(cert))

\* The names before pos do not cover the host, and were read.
Naming ==
    /\ ~view.san => view.names = <<>>
    /\ at = "names" =>
          /\ pos \in 1..(Len(view.names) + 1)
          /\ \A j \in 1..(pos - 1) :
                /\ view.names[j].tag # "malformed"
                /\ ~(view.names[j].tag = "dns" /\ Covers(view.names[j].value, hostname))
    /\ HostnameVerified

\* The anchors are the entries up to one that starts at the octet start, and there is no
\* other way to read the blob so far.
Reached(start) ==
    /\ \E ends \in [1..Len(anchors) -> 0..Len(blob.body)] :
          /\ Follow(blob, ends) /\ StartOf(ends, Len(anchors) + 1) = start
          /\ anchors = [i \in 1..Len(anchors) |-> EntryAt(blob.body, StartOf(ends, i))]
    /\ \A ends \in [1..blob.count -> 0..Len(blob.body)] :
          Follow(blob, ends) => StartOf(ends, Len(anchors) + 1) = start

InParser == at \in {"frame", "key", "extensions", "parsed"}

Loading ==
    /\ at \in {"names", "verified"} => caller = "verify"
    /\ caller = "load" /\ at # "idle" =>
          /\ at = "entries" \/ InParser
          /\ blob.kind = "store" /\ loaded = 0 /\ hostname = <<>>
    /\ caller = "load" /\ at = "entries" => Reached(off) /\ Len(anchors) <= blob.count
    /\ caller = "load" /\ InParser =>
          /\ Len(anchors) < blob.count /\ Len(anchors) < MaxAnchors /\ cert = CertificateOf(der)
          /\ \E start \in 0..Len(blob.body) :
                /\ Reached(start) /\ HasEntry(blob.body, start)
                /\ off = EntryEnd(blob.body, start) /\ der = EntryAt(blob.body, start)
    /\ caller = "add" => at = "idle" \/ InParser
    /\ caller = "add" \/ at = "idle" => hostname = <<>>
    /\ caller = "add" /\ InParser => Len(anchors) < MaxAnchors
    /\ caller = "none" => at = "idle"
    /\ at = "entries" => caller = "load"
    /\ at = "idle" => off = 0
    /\ LoadIsExact

IInv == TypeOK /\ Parsing /\ Naming /\ Loading

-----------------------------------------------------------------------------
(* Type correctness *)

LEMMA CertificateType == ASSUME NEW d PROVE CertificateOf(d) \in CertificateSet
<1>1. NotCertificate \in CertificateSet
  <2>1. <<>> \in Seq(Seq(ExtensionSet))
    BY EmptySeq
  <2> QED  BY <2>1 DEF NotCertificate, CertificateSet
<1> QED  BY <1>1, StoreAssumption DEF CertificateOf

\* The entry at an offset, and where it ends.
LEMMA EntryIs ==
    ASSUME NEW b \in Octets, NEW o \in 0..Len(b), HasEntry(b, o)
    PROVE  /\ EntryAt(b, o) \in Octets /\ EntryAt(b, o) # <<>>
           /\ EntryEnd(b, o) \in 0..Len(b)
<1> DEFINE n == read_be24(b, o)
<1>1. o + 3 <= Len(b) /\ n > 0 /\ n <= Len(b) - (o + 3)
  BY DEF HasEntry, HasHeader, HeaderSize
<1>2. b \in Seq(0..255) /\ Len(b) \in Nat /\ o \in Nat
  BY DEF Octets
<1>3. b[o + 1] \in 0..255 /\ b[o + 2] \in 0..255 /\ b[o + 3] \in 0..255
  <2>1. o + 1 \in 1..Len(b) /\ o + 2 \in 1..Len(b) /\ o + 3 \in 1..Len(b)
    BY <1>1, <1>2
  <2> QED  BY <2>1, <1>2, ElementOfSeq
<1>4. n \in Nat
  <2> DEFINE x == b[o + 1]
             y == b[o + 2]
             z == b[o + 3]
  <2>1. n = 65536 * x + 256 * y + z
    BY DEF read_be24
  <2>2. x \in 0..255 /\ y \in 0..255 /\ z \in 0..255
    BY <1>3
  <2> HIDE DEF n, x, y, z
  <2> QED  BY ONLY <2>1, <2>2
<1> HIDE DEF n
<1>5. EntryEnd(b, o) = o + 3 + n
  BY DEF EntryEnd, HeaderSize, n
<1>6. EntryEnd(b, o) \in 0..Len(b)
  BY <1>1, <1>2, <1>4, <1>5
<1>7. EntryAt(b, o) = SubSeq(b, o + 4, o + 3 + n)
  <2>1. o + 3 + 1 = o + 4
    BY <1>2
  <2> QED  BY <2>1, <1>5 DEF EntryAt, HeaderSize
<1>8. o + 4 \in 1..(Len(b) + 1) /\ o + 3 + n \in (o + 3)..Len(b)
  BY <1>1, <1>2, <1>4
<1>9. SubSeq(b, o + 4, o + 3 + n) \in Seq(0..255) /\ Len(SubSeq(b, o + 4, o + 3 + n)) = n
  <2> DEFINE k == o + 4
             m == o + 3 + n
  <2>1. k \in 1..(Len(b) + 1) /\ m \in (k - 1)..Len(b) /\ m - k + 1 = n
    BY <1>2, <1>4, <1>8
  <2> HIDE DEF k, m
  <2>2. SubSeq(b, k, m) \in Seq(0..255) /\ Len(SubSeq(b, k, m)) = IF k <= m THEN m - k + 1 ELSE 0
    <3>1. k \in Int /\ m \in Int /\ \A i \in k..m : i \in 1..Len(b)
      BY <1>2, <2>1
    <3>2. \A i \in k..m : b[i] \in 0..255
      BY <1>2, <3>1, ElementOfSeq
    <3> QED  BY ONLY <3>1, <3>2, SubSeqProperties
  <2>3. k <= m
    BY <1>1, <1>4, <2>1
  <2>4. SubSeq(b, k, m) \in Seq(0..255) /\ Len(SubSeq(b, k, m)) = n
    BY <2>1, <2>2, <2>3
  <2> QED  BY <2>4 DEF k, m
<1>10. Len(<<>>) = 0
  BY EmptySeq
<1>11. EntryAt(b, o) \in Octets
  BY <1>7, <1>9 DEF Octets
<1>12. Len(EntryAt(b, o)) > 0
  <2>1. n > 0
    BY <1>1
  <2> QED  BY <2>1, <1>7, <1>9
<1>13. EntryAt(b, o) # <<>>
  BY ONLY <1>10, <1>12
<1> QED  BY <1>6, <1>11, <1>13

LEMMA NoViewType == NoView \in ViewSet /\ NoView.names = <<>> /\ <<>> \in Seq(STRING)
<1>1. <<>> \in Seq(Names) /\ <<>> \in Seq(STRING)
  BY EmptySeq
<1>2. NoView.names = <<>>
  BY DEF NoView
<1>3. NoView \in ViewSet
  BY <1>1 DEF NoView, ViewSet
<1> QED  BY <1>1, <1>2, <1>3

\* The extension at pos, and the names of one that has them.
LEMMA ExtensionType ==
    ASSUME TypeOK, Parsing, AtBlock, pos <= Len(cert.blocks[block])
    PROVE  /\ block \in 1..Len(cert.blocks) /\ pos \in 1..Len(cert.blocks[block])
           /\ Extension \in ExtensionSet
           /\ Extension.oid = "san" => Extension.names \in Seq(Names)
           /\ Extension.oid = "bc" => Extension.ca \in BOOLEAN /\ Extension.path \subseteq Nat
           /\ Extension.oid = "other" => Extension.critical \in BOOLEAN
<1>1. cert.blocks \in Seq(Seq(ExtensionSet)) /\ block \in Nat /\ pos \in Nat
  BY DEF TypeOK, CertificateSet
<1>2. block \in 1..Len(cert.blocks)
  BY <1>1 DEF AtBlock, Parsing
<1>3. cert.blocks[block] \in Seq(ExtensionSet)
  BY <1>1, <1>2, ElementOfSeq
<1>4. pos \in 1..Len(cert.blocks[block])
  BY <1>1, <1>3 DEF AtBlock, Parsing
<1>5. Extension \in ExtensionSet
  BY <1>3, <1>4, ElementOfSeq DEF Extension
<1>6. ASSUME NEW e \in ExtensionSet
      PROVE  /\ e.oid = "san" => e.names \in Seq(Names)
             /\ e.oid = "bc" => e.ca \in BOOLEAN /\ e.path \subseteq Nat
             /\ e.oid = "other" => e.critical \in BOOLEAN
  BY <1>6 DEF ExtensionSet
<1> QED  BY <1>2, <1>4, <1>5, <1>6

LEMMA BlocksType ==
    ASSUME NEW c \in CertificateSet
    PROVE  /\ c.blocks \in Seq(Seq(ExtensionSet)) /\ Len(c.blocks) \in Nat
           /\ \A b \in 1..Len(c.blocks) : c.blocks[b] \in Seq(ExtensionSet) /\ Len(c.blocks[b]) \in Nat
           /\ c.frame \in BOOLEAN /\ c.validity \in BOOLEAN
           /\ c.key \in {"rsa", "p256", "unsupported", "bad"}
<1>1. c.blocks \in Seq(Seq(ExtensionSet))
  BY DEF CertificateSet
<1>2. ASSUME NEW b \in 1..Len(c.blocks)
      PROVE  c.blocks[b] \in Seq(ExtensionSet) /\ Len(c.blocks[b]) \in Nat
  BY <1>1, ElementOfSeq
<1>3. Len(c.blocks) \in Nat
  BY <1>1
<1>4. c.frame \in BOOLEAN /\ c.validity \in BOOLEAN /\ c.key \in {"rsa", "p256", "unsupported", "bad"}
  BY DEF CertificateSet
<1> QED  BY <1>1, <1>2, <1>3, <1>4

LEMMA InitType == Init => TypeOK
<1> SUFFICES ASSUME Init PROVE TypeOK
  OBVIOUS
<1>1. blob \in BlobSet /\ anchors \in Seq(Octets) /\ Len(anchors) = 0 /\ loaded = 0
  BY EmptySeq DEF Init, BlobSet, Octets
<1>2. NotCertificate \in CertificateSet
  <2>1. <<>> \in Seq(Seq(ExtensionSet))
    BY EmptySeq
  <2> QED  BY <2>1 DEF NotCertificate, CertificateSet
<1>3. <<>> \in Octets
  BY EmptySeq DEF Octets
<1>4. cert \in CertificateSet /\ hostname \in Seq(STRING)
  <2>1. CASE StoreInit
    BY <2>1, <1>2, NoViewType DEF StoreInit, NoCall
  <2>2. CASE VerifyInit
    BY <2>2, LeafAssumption DEF VerifyInit, LeafInit
  <2> QED  BY <2>1, <2>2 DEF Init
<1>5. /\ at \in {"idle", "frame"} /\ caller \in {"none", "verify"} /\ block = 0 /\ pos = 0
      /\ view = NoView /\ off = 0 /\ der = <<>>
  BY DEF Init, StoreInit, VerifyInit, LeafInit, NoCall
<1>6. 0 \in 0..Len(blob.body)
  BY <1>1 DEF BlobSet, Octets
<1>7. view \in ViewSet
  BY <1>5, NoViewType
<1>8. Len(anchors) <= MaxAnchors
  BY <1>1, StoreAssumption
<1> QED  BY <1>1, <1>3, <1>4, <1>5, <1>6, <1>7, <1>8 DEF TypeOK

LEMMA ParseType == ASSUME TypeOK, Parsing, ParseStep, UNCHANGED storeVars PROVE TypeOK'
<1>1. /\ caller' \in {"none", "add", "load", "verify"}
      /\ blob' \in BlobSet /\ off' \in 0..Len(blob'.body) /\ der' \in Octets
      /\ anchors' \in Seq(Octets) /\ Len(anchors') <= MaxAnchors /\ loaded' \in Nat
  BY DEF TypeOK, storeVars
<1>2. cert' \in CertificateSet /\ hostname' \in Seq(STRING)
  <2>1. cert' = cert /\ hostname' = hostname
    BY DEF ParseStep, FrameRefused, Frame, KeyRefused, PublicKey, NextBlock, Malformed, SubjectAltName,
           BasicConstraints, KeyUsage, ExtendedKeyUsage, CriticalUnknown, Ignored, ExtensionsEnd,
           Returns, NextExtension
  <2> QED  BY <2>1 DEF TypeOK
<1>3. at' \in {"key", "extensions", "parsed"}
  BY DEF ParseStep, FrameRefused, Frame, KeyRefused, PublicKey, NextBlock, Malformed, SubjectAltName,
         BasicConstraints, KeyUsage, ExtendedKeyUsage, CriticalUnknown, Ignored, ExtensionsEnd,
         Returns, NextExtension, AtExtension, AtBlock
<1>4. block' \in Nat /\ pos' \in Nat
  <2>1. block \in Nat /\ pos \in Nat
    BY DEF TypeOK
  <2> QED
    BY <2>1 DEF ParseStep, FrameRefused, Frame, KeyRefused, PublicKey, NextBlock, Malformed,
           SubjectAltName, BasicConstraints, KeyUsage, ExtendedKeyUsage, CriticalUnknown, Ignored,
           ExtensionsEnd, Returns, NextExtension
<1>5. view' \in ViewSet
  <2>0. view \in ViewSet
    BY DEF TypeOK
  <2>1. CASE SubjectAltName
    <3>1. AtBlock /\ pos <= Len(cert.blocks[block]) /\ Extension.oid = "san"
      BY <2>1 DEF SubjectAltName, AtExtension, Extension
    <3>2. Extension.names \in Seq(Names)
      BY <3>1, ExtensionType
    <3>3. view' = [view EXCEPT !.san = TRUE, !.names = Extension.names]
      BY <2>1 DEF SubjectAltName
    <3> QED  BY <2>0, <3>2, <3>3 DEF ViewSet
  <2>2. CASE BasicConstraints
    <3>1. AtBlock /\ pos <= Len(cert.blocks[block]) /\ Extension.oid = "bc"
      BY <2>2 DEF BasicConstraints, AtExtension, Extension
    <3>2. Extension.ca \in BOOLEAN /\ Extension.path \in SUBSET Nat /\ view.path \in SUBSET Nat
      BY <2>0, <3>1, ExtensionType DEF ViewSet
    <3>3. PICK path \in SUBSET Nat :
             view' = [view EXCEPT !.bc = TRUE, !.ca = Extension.ca, !.path = path]
      BY <2>2, <3>2 DEF BasicConstraints
    <3> QED  BY <2>0, <3>2, <3>3 DEF ViewSet
  <2>3. CASE KeyUsage
    <3> DEFINE d == "digitalSignature" \in Extension.usages
               k == "keyCertSign" \in Extension.usages
    <3>1. view' = [view EXCEPT !.ku = TRUE, !.digitalSignature = d, !.keyCertSign = k]
      BY <2>3 DEF KeyUsage
    <3>2. d \in BOOLEAN /\ k \in BOOLEAN
      OBVIOUS
    <3> HIDE DEF d, k
    <3> QED  BY <2>0, <3>1, <3>2 DEF ViewSet
  <2>4. CASE ExtendedKeyUsage
    <3>1. PICK a \in BOOLEAN : view' = [view EXCEPT !.eku = TRUE, !.serverAuth = a]
      BY <2>4 DEF ExtendedKeyUsage
    <3> QED  BY <2>0, <3>1 DEF ViewSet
  <2>5. CASE Frame
    BY <2>5, NoViewType DEF Frame, ViewSet
  <2>6. CASE PublicKey
    BY <2>0, <2>6 DEF PublicKey, ViewSet
  <2>7. CASE \/ FrameRefused \/ KeyRefused \/ NextBlock \/ Malformed \/ CriticalUnknown \/ Ignored
             \/ ExtensionsEnd
    BY <2>0, <2>7 DEF FrameRefused, KeyRefused, NextBlock, Malformed, CriticalUnknown, Ignored,
                      ExtensionsEnd
  <2> QED  BY <2>1, <2>2, <2>3, <2>4, <2>5, <2>6, <2>7 DEF ParseStep
<1> QED  BY <1>1, <1>2, <1>3, <1>4, <1>5 DEF TypeOK

LEMMA NameType == ASSUME TypeOK, NameStep, UNCHANGED storeVars PROVE TypeOK'
<1>1. /\ caller' \in {"none", "add", "load", "verify"}
      /\ blob' \in BlobSet /\ off' \in 0..Len(blob'.body) /\ der' \in Octets
      /\ anchors' \in Seq(Octets) /\ Len(anchors') <= MaxAnchors /\ loaded' \in Nat
  BY DEF TypeOK, storeVars
<1>2. cert' = cert /\ hostname' = hostname /\ block' = block /\ view' = view
  BY DEF NameStep, VerifyHostname, NoNames, NameMalformed, NameMatches, NamePassed, NamesEnd
<1>3. at' \in {"names", "verified"}
  BY DEF NameStep, VerifyHostname, NoNames, NameMalformed, NameMatches, NamePassed, NamesEnd, AtName
<1>4. pos' \in Nat
  <2>1. pos' = pos \/ pos' = 1 \/ pos' = pos + 1
    BY DEF NameStep, VerifyHostname, NoNames, NameMalformed, NameMatches, NamePassed, NamesEnd
  <2> QED  BY <2>1 DEF TypeOK
<1> QED  BY <1>1, <1>2, <1>3, <1>4 DEF TypeOK

\* A call that has ended leaves nothing of its own behind.
LEMMA EndsCallType ==
    ASSUME TypeOK, EndsCall, blob' \in BlobSet
    PROVE  /\ cert' \in CertificateSet /\ hostname' \in Seq(STRING) /\ block' \in Nat /\ pos' \in Nat
           /\ view' \in ViewSet /\ off' \in 0..Len(blob'.body) /\ der' \in Octets
<1>1. NotCertificate \in CertificateSet
  <2>1. <<>> \in Seq(Seq(ExtensionSet))
    BY EmptySeq
  <2> QED  BY <2>1 DEF NotCertificate, CertificateSet
<1>2. <<>> \in Octets
  BY EmptySeq DEF Octets
<1>3. 0 \in 0..Len(blob'.body)
  BY DEF BlobSet, Octets
<1> QED  BY <1>1, <1>2, <1>3, NoViewType DEF EndsCall

\* The ways a step of the store ends, each with what it leaves of the anchors.
LEMMA LoadFailsType == ASSUME TypeOK, NEW e, LoadFails(e) PROVE TypeOK'
<1>1. blob' = blob /\ caller' = caller /\ at' = "idle" /\ anchors' = <<>> /\ loaded' = loaded /\ EndsCall
  BY DEF LoadFails, LoadReturns
<1>2. anchors' \in Seq(Octets) /\ Len(anchors') <= MaxAnchors
  BY <1>1, EmptySeq, StoreAssumption
<1>3. blob' \in BlobSet /\ loaded' \in Nat /\ caller' \in {"none", "add", "load", "verify"}
  BY <1>1 DEF TypeOK
<1> QED  BY <1>1, <1>2, <1>3, EndsCallType DEF TypeOK

LEMMA ParseCallType ==
    ASSUME TypeOK, NEW d \in Octets, Parse(d),
           off' \in 0..Len(blob.body), UNCHANGED <<blob, anchors, loaded>>,
           caller' \in {"add", "load"}
    PROVE  TypeOK'
<1>1. cert' \in CertificateSet
  BY CertificateType DEF Parse
<1>2. at' = "frame" /\ der' \in Octets /\ hostname' \in Seq(STRING)
  BY NoViewType DEF Parse
<1>3. block' \in Nat /\ pos' \in Nat /\ view' \in ViewSet
  BY DEF Parse, TypeOK
<1>4. blob' \in BlobSet /\ off' \in 0..Len(blob'.body)
  BY DEF TypeOK
<1>5. anchors' \in Seq(Octets) /\ Len(anchors') <= MaxAnchors /\ loaded' \in Nat
  BY DEF TypeOK
<1> QED  BY <1>1, <1>2, <1>3, <1>4, <1>5 DEF TypeOK

LEMMA AppendType ==
    ASSUME NEW s \in Seq(Octets), NEW d \in Octets, Len(s) < MaxAnchors
    PROVE  Append(s, d) \in Seq(Octets) /\ Len(Append(s, d)) <= MaxAnchors
<1>1. Append(s, d) \in Seq(Octets) /\ Len(Append(s, d)) = Len(s) + 1 /\ Len(s) \in Nat
  BY AppendProperties
<1> QED  BY ONLY <1>1, Len(s) < MaxAnchors, StoreAssumption

LEMMA StoreType == ASSUME IInv, StoreStep PROVE TypeOK'
<1>1. TypeOK /\ Loading
  BY DEF IInv
<1>2. ASSUME NEW d \in Entries, AddRefused(d)
      PROVE  TypeOK'
  <2>1. /\ UNCHANGED <<at, cert, hostname, block, pos, view, blob, off, der, anchors, loaded>>
        /\ caller' = "add"
    BY <1>2 DEF AddRefused
  <2> QED  BY <1>1, <2>1 DEF TypeOK
<1>3. ASSUME NEW d \in Entries, Add(d)
      PROVE  TypeOK'
  <2>1. d \in Octets
    BY StoreAssumption
  <2>2. Parse(d) /\ caller' = "add" /\ UNCHANGED <<blob, anchors, loaded>> /\ off' = off
    BY <1>3 DEF Add
  <2>3. off' \in 0..Len(blob.body)
    BY <1>1, <2>2 DEF TypeOK
  <2> QED  BY <1>1, <2>1, <2>2, <2>3, ParseCallType
<1>4. CASE AddReturns
  <2>1. at' = "idle" /\ EndsCall /\ caller' = "add" /\ blob' = blob /\ loaded' = loaded
    BY <1>4 DEF AddReturns
  <2>2. Len(anchors) < MaxAnchors
    BY <1>1, <1>4 DEF AddReturns, Loading, InParser
  <2>3. anchors' = anchors \/ anchors' = Append(anchors, der)
    BY <1>4 DEF AddReturns
  <2>4. anchors \in Seq(Octets) /\ Len(anchors) <= MaxAnchors /\ der \in Octets
    BY <1>1 DEF TypeOK
  <2>5. anchors' \in Seq(Octets) /\ Len(anchors') <= MaxAnchors
    BY <2>2, <2>3, <2>4, AppendType
  <2>6. blob' \in BlobSet /\ loaded' \in Nat
    BY <1>1, <2>1 DEF TypeOK
  <2> QED  BY <1>1, <2>1, <2>5, <2>6, EndsCallType DEF TypeOK
<1>5. ASSUME NEW b \in Blobs, LoadRefused(b)
      PROVE  TypeOK'
  <2>1. UNCHANGED <<at, cert, hostname, block, pos, view, off, der, anchors>> /\ at = "idle"
    BY <1>5 DEF LoadRefused
  <2>2. caller' = "load" /\ blob' = b /\ loaded' = 0 /\ b \in BlobSet
    BY <1>5, StoreAssumption DEF LoadRefused
  <2>3. off' \in 0..Len(blob'.body)
    BY <1>1, <2>1, <2>2 DEF Loading, BlobSet, Octets
  <2> QED  BY <1>1, <2>1, <2>2, <2>3 DEF TypeOK
<1>6. ASSUME NEW b \in Blobs, Load(b)
      PROVE  TypeOK'
  <2>1. UNCHANGED <<cert, hostname, block, pos, view, der>> /\ at' = "entries" /\ caller' = "load"
    BY <1>6 DEF Load
  <2>2. blob' = b /\ b \in BlobSet /\ loaded' = 0 /\ off' = 0 /\ anchors' = <<>>
    BY <1>6, StoreAssumption DEF Load
  <2>3. off' \in 0..Len(blob'.body)
    BY <2>2 DEF BlobSet, Octets
  <2>4. anchors' \in Seq(Octets) /\ Len(anchors') <= MaxAnchors
    BY <2>2, EmptySeq, StoreAssumption
  <2> QED  BY <1>1, <2>1, <2>2, <2>3, <2>4 DEF TypeOK
<1>7. CASE EntryRefused \/ AnchorRefused \/ OctetsLeft
  <2>1. PICK e : LoadFails(e)
    BY <1>7 DEF EntryRefused, AnchorRefused, OctetsLeft
  <2> QED  BY <1>1, <2>1, LoadFailsType
<1>8. CASE ReadEntry
  <2>1. HasEntry(blob.body, off) /\ Parse(EntryAt(blob.body, off)) /\ off' = EntryEnd(blob.body, off)
    BY <1>8 DEF ReadEntry
  <2>2. blob.body \in Octets /\ off \in 0..Len(blob.body)
    BY <1>1 DEF TypeOK, BlobSet
  <2>3. EntryAt(blob.body, off) \in Octets /\ off' \in 0..Len(blob.body)
    BY <2>1, <2>2, EntryIs
  <2>4. UNCHANGED <<blob, anchors, loaded>> /\ caller' = "load"
    BY <1>1, <1>8 DEF ReadEntry, AtEntry, Loading
  <2> QED  BY <1>1, <2>1, <2>3, <2>4, ParseCallType
<1>9. CASE AnchorAdded
  <2>1. /\ UNCHANGED <<cert, hostname, block, pos, view, caller, blob, off, der, loaded>>
        /\ at' = "entries" /\ anchors' = Append(anchors, der)
    BY <1>9 DEF AnchorAdded
  <2>2. Len(anchors) < MaxAnchors
    BY <1>1, <1>9 DEF AnchorAdded, Loading, InParser
  <2>3. anchors \in Seq(Octets) /\ der \in Octets
    BY <1>1 DEF TypeOK
  <2>4. anchors' \in Seq(Octets) /\ Len(anchors') <= MaxAnchors
    BY <2>1, <2>2, <2>3, AppendType
  <2> QED  BY <1>1, <2>1, <2>4 DEF TypeOK
<1>10. CASE Loaded
  <2>1. at' = "idle" /\ EndsCall /\ caller' = caller /\ blob' = blob /\ anchors' = anchors
    BY <1>10 DEF Loaded, LoadReturns
  <2>2. loaded' = blob.count /\ blob' \in BlobSet /\ loaded' \in Nat
    BY <1>1, <1>10, <2>1 DEF Loaded, TypeOK, BlobSet
  <2> QED  BY <1>1, <2>1, <2>2, EndsCallType DEF TypeOK
<1>11. CASE Clear
  <2>1. /\ UNCHANGED <<at, cert, hostname, block, pos, view, blob, off, der, loaded>>
        /\ anchors' = <<>> /\ caller' = "none"
    BY <1>11 DEF Clear
  <2>2. anchors' \in Seq(Octets) /\ Len(anchors') <= MaxAnchors
    BY <2>1, EmptySeq, StoreAssumption
  <2> QED  BY <1>1, <2>1, <2>2 DEF TypeOK
<1> QED
  BY <1>2, <1>3, <1>4, <1>5, <1>6, <1>7, <1>8, <1>9, <1>10, <1>11 DEF StoreStep

-----------------------------------------------------------------------------
(* The parser's verdict *)

\* One unacceptable extension makes the certificate unacceptable.
LEMMA Refuted ==
    ASSUME NEW c, NEW b \in 1..Len(c.blocks), NEW i \in 1..Len(c.blocks[b]),
           ~Acceptable(c.blocks[b][i])
    PROVE  ~Understood(c)
BY DEF Understood

LEMMA ParsingKept == ASSUME IInv, ParseStep PROVE Parsing'
<1>1. TypeOK /\ Parsing
  BY DEF IInv
<1>2. cert \in CertificateSet
  BY <1>1 DEF TypeOK
<1>3. CASE FrameRefused
  <2>1. at' = "parsed" /\ error' # "OK" /\ cert' = cert /\ ~Understood(cert)
    BY <1>3 DEF FrameRefused, Returns, Understood
  <2> QED  BY <2>1 DEF Parsing
<1>4. CASE Frame
  BY <1>4 DEF Frame, Parsing
<1>5. CASE KeyRefused
  <2>1. at' = "parsed" /\ error' # "OK" /\ cert' = cert /\ ~Understood(cert)
    BY <1>5 DEF KeyRefused, Returns, Understood
  <2> QED  BY <2>1 DEF Parsing
<1>6. CASE PublicKey
  <2>1. at' = "extensions" /\ block' = 1 /\ pos' = 1 /\ cert' = cert
    BY <1>6 DEF PublicKey
  <2>2. cert.frame /\ cert.validity /\ cert.key \in {"rsa", "p256"}
    BY <1>1, <1>6 DEF PublicKey, Parsing
  <2>3. 1 \in 1..(Len(cert.blocks) + 1)
    BY <1>2, BlocksType
  <2>4. 1 <= Len(cert.blocks) => 1 <= Len(cert.blocks[1]) + 1
    BY <1>2, BlocksType
  <2> QED  BY <2>1, <2>2, <2>3, <2>4 DEF Parsing
<1>7. ASSUME AtBlock
      PROVE  /\ cert.frame /\ cert.validity /\ cert.key \in {"rsa", "p256"}
             /\ block \in 1..Len(cert.blocks) /\ pos \in Nat /\ pos >= 1
             /\ \A b \in 1..(block - 1) : \A i \in 1..Len(cert.blocks[b]) : Acceptable(cert.blocks[b][i])
             /\ pos <= Len(cert.blocks[block]) + 1
             /\ \A i \in 1..(pos - 1) : Acceptable(cert.blocks[block][i])
             /\ Len(cert.blocks) \in Nat
  <2>1. at = "extensions" /\ block <= Len(cert.blocks)
    BY <1>7 DEF AtBlock
  <2>2. Len(cert.blocks) \in Nat /\ pos \in Nat
    BY <1>1, <1>2, BlocksType DEF TypeOK
  <2> QED  BY <1>1, <2>1, <2>2 DEF Parsing
<1>8. CASE NextBlock
  <2>1. /\ AtBlock /\ pos > Len(cert.blocks[block]) /\ block' = block + 1 /\ pos' = 1
        /\ at' = "extensions" /\ cert' = cert
    BY <1>8 DEF NextBlock, AtBlock
  <2>2. ASSUME NEW b \in 1..(block' - 1), NEW i \in 1..Len(cert.blocks[b])
        PROVE  Acceptable(cert.blocks[b][i])
    <3>1. CASE b = block
      <4>1. Len(cert.blocks[block]) \in Nat
        BY <1>2, <1>7, <2>1, BlocksType
      <4>2. i \in 1..(pos - 1)
        BY <1>7, <2>1, <3>1, <4>1
      <4> QED  BY <1>7, <2>1, <3>1, <4>2
    <3>2. CASE b # block
      <4>1. b \in 1..(block - 1)
        BY <1>7, <2>1, <3>2
      <4> QED  BY <1>7, <2>1, <4>1
    <3> QED  BY <3>1, <3>2
  <2>3. block' \in 1..(Len(cert.blocks) + 1)
    BY <1>7, <2>1
  <2>4. block' <= Len(cert.blocks) => 1 <= Len(cert.blocks[block']) + 1
    BY <1>2, <2>3, BlocksType
  <2> QED  BY <1>7, <2>1, <2>2, <2>3, <2>4 DEF Parsing
<1>9. CASE Malformed \/ CriticalUnknown
  <2>1. /\ AtBlock /\ pos <= Len(cert.blocks[block]) /\ ~Acceptable(cert.blocks[block][pos])
        /\ at' = "parsed" /\ error' # "OK" /\ cert' = cert
    BY <1>9 DEF Malformed, CriticalUnknown, AtExtension, Extension, Returns, Acceptable
  <2>2. pos \in 1..Len(cert.blocks[block])
    BY <1>1, <2>1, ExtensionType
  <2>3. ~Understood(cert)
    BY <1>7, <2>1, <2>2, Refuted
  <2> QED  BY <2>1, <2>3 DEF Parsing
<1>10. CASE SubjectAltName \/ BasicConstraints \/ KeyUsage \/ ExtendedKeyUsage \/ Ignored
  <2>1. /\ AtBlock /\ pos <= Len(cert.blocks[block]) /\ Acceptable(cert.blocks[block][pos])
        /\ pos' = pos + 1 /\ UNCHANGED <<at, cert, block>>
    BY <1>10 DEF SubjectAltName, BasicConstraints, KeyUsage, ExtendedKeyUsage, Ignored, AtExtension,
                 Extension, NextExtension, Acceptable
  <2>2. ASSUME NEW i \in 1..(pos' - 1)
        PROVE  Acceptable(cert.blocks[block][i])
    <3>1. i = pos \/ i \in 1..(pos - 1)
      BY <1>7, <2>1
    <3> QED  BY <1>7, <2>1, <3>1
  <2>3. Len(cert.blocks[block]) \in Nat
    BY <1>2, <1>7, <2>1, BlocksType
  <2>4. pos' >= 1 /\ pos' <= Len(cert.blocks[block]) + 1 /\ block \in 1..(Len(cert.blocks) + 1)
    BY <1>7, <2>1, <2>3
  <2>5. at = "extensions"
    BY <2>1 DEF AtBlock
  <2> QED  BY <1>7, <2>1, <2>2, <2>4, <2>5 DEF Parsing
<1>11. CASE ExtensionsEnd
  <2>1. at = "extensions" /\ block > Len(cert.blocks) /\ at' = "parsed" /\ error' = "OK" /\ cert' = cert
    BY <1>11 DEF ExtensionsEnd, Returns
  <2>2. block \in 1..(Len(cert.blocks) + 1) /\ Len(cert.blocks) \in Nat
    BY <1>1, <1>2, <2>1, BlocksType DEF Parsing
  <2>3. block - 1 = Len(cert.blocks)
    BY <2>1, <2>2
  <2>4. Understood(cert)
    BY <1>1, <2>1, <2>3 DEF Parsing, Understood
  <2> QED  BY <2>1, <2>4 DEF Parsing
<1> QED
  BY <1>3, <1>4, <1>5, <1>6, <1>8, <1>9, <1>10, <1>11 DEF ParseStep

-----------------------------------------------------------------------------
(* The names *)

\* The loop over the names decides as HostnameVerified says.
LEMMA NamingKept == ASSUME IInv, NameStep PROVE Naming'
<1>1. TypeOK /\ Naming
  BY DEF IInv
<1>2. view' = view /\ hostname' = hostname
  BY DEF NameStep, VerifyHostname, NoNames, NameMalformed, NameMatches, NamePassed, NamesEnd
<1>3. view.names \in Seq(Names) /\ hostname \in Seq(STRING) /\ pos \in Nat
  BY <1>1 DEF TypeOK, ViewSet
<1>4. Len(view.names) \in Nat
  BY <1>3
<1>5. ASSUME NEW i \in 1..Len(view.names)
      PROVE  /\ view.names[i] \in Names
             /\ dns_equal(view.names[i].value, hostname) <=> Covers(view.names[i].value, hostname)
  <2>1. view.names[i] \in Names
    BY <1>3, ElementOfSeq
  <2>2. view.names[i].value \in Seq(STRING)
    BY <2>1 DEF Names
  <2> QED  BY <1>3, <2>1, <2>2, MatcherCovers
<1>6. (~view.san => view.names = <<>>)'
  BY <1>1, <1>2 DEF Naming
<1>7. ASSUME at = "names"
      PROVE  /\ pos \in 1..(Len(view.names) + 1)
             /\ \A j \in 1..(pos - 1) :
                   /\ view.names[j].tag # "malformed"
                   /\ ~(view.names[j].tag = "dns" /\ Covers(view.names[j].value, hostname))
  BY <1>1, <1>7 DEF Naming
<1>8. CASE VerifyHostname
  <2>1. at' = "names" /\ pos' = 1
    BY <1>8 DEF VerifyHostname
  <2>2. 1 \in 1..(Len(view.names) + 1) /\ 1..(1 - 1) = {}
    BY <1>4
  <2> QED  BY <1>2, <1>6, <2>1, <2>2 DEF Naming, HostnameVerified
<1>9. CASE NoNames
  <2>1. at' = "verified" /\ error' # "OK" /\ ~view.san
    BY <1>9 DEF NoNames
  <2>2. 1..Len(view.names) = {}
    BY <1>1, <2>1, EmptySeq DEF Naming
  <2> QED  BY <1>2, <1>6, <2>1, <2>2 DEF Naming, HostnameVerified
<1>10. CASE NameMalformed
  <2>1. at' = "verified" /\ error' # "OK" /\ at = "names" /\ pos <= Len(view.names)
        /\ view.names[pos].tag = "malformed"
    BY <1>10 DEF NameMalformed, AtName, Name
  <2>2. ASSUME NEW i \in 1..Len(view.names), view.names[i].tag = "dns",
               Covers(view.names[i].value, hostname),
               \A j \in 1..(i - 1) : view.names[j].tag # "malformed"
        PROVE  FALSE
    <3>1. CASE i < pos
      <4>1. i \in 1..(pos - 1)
        BY <1>3, <3>1
      <4> QED  BY <1>7, <2>1, <2>2, <4>1
    <3>2. CASE i = pos
      BY <2>1, <2>2, <3>2
    <3>3. CASE i > pos
      <4>1. pos \in 1..(i - 1)
        BY <1>7, <2>1, <3>3
      <4> QED  BY <2>1, <2>2, <4>1
    <3> QED  BY <1>3, <3>1, <3>2, <3>3
  <2> QED  BY <1>2, <1>6, <2>1, <2>2 DEF Naming, HostnameVerified
<1>11. CASE NameMatches
  <2>1. at' = "verified" /\ error' = "OK" /\ at = "names" /\ pos <= Len(view.names)
        /\ view.names[pos].tag = "dns" /\ dns_equal(view.names[pos].value, hostname)
    BY <1>11 DEF NameMatches, AtName, Name
  <2>2. pos \in 1..Len(view.names)
    BY <1>4, <1>7, <2>1
  <2>3. Covers(view.names[pos].value, hostname)
    BY <1>5, <2>1, <2>2
  <2>4. \A j \in 1..(pos - 1) : view.names[j].tag # "malformed"
    BY <1>7, <2>1
  <2>5. HostnameVerified'
    BY <1>2, <2>1, <2>2, <2>3, <2>4 DEF HostnameVerified
  <2> QED  BY <1>6, <2>1, <2>5 DEF Naming
<1>12. CASE NamePassed
  <2>1. at' = "names" /\ pos' = pos + 1 /\ at = "names" /\ pos <= Len(view.names)
        /\ view.names[pos].tag # "malformed"
        /\ ~(view.names[pos].tag = "dns" /\ dns_equal(view.names[pos].value, hostname))
    BY <1>12 DEF NamePassed, AtName, Name
  <2>2. pos \in 1..Len(view.names)
    BY <1>4, <1>7, <2>1
  <2>3. ~(view.names[pos].tag = "dns" /\ Covers(view.names[pos].value, hostname))
    BY <1>5, <2>1, <2>2
  <2>4. pos' \in 1..(Len(view.names) + 1)
    BY <1>4, <2>1, <2>2
  <2>5. ASSUME NEW j \in 1..(pos' - 1)
        PROVE  /\ view.names[j].tag # "malformed"
               /\ ~(view.names[j].tag = "dns" /\ Covers(view.names[j].value, hostname))
    <3>1. j = pos \/ j \in 1..(pos - 1)
      BY <1>3, <2>1
    <3> QED  BY <1>7, <2>1, <2>3, <3>1
  <2>6. at' # "verified"
    BY <2>1
  <2> QED  BY <1>2, <1>6, <2>1, <2>4, <2>5, <2>6 DEF Naming, HostnameVerified
<1>13. CASE NamesEnd
  <2>1. at' = "verified" /\ error' # "OK" /\ at = "names" /\ pos > Len(view.names)
    BY <1>13 DEF NamesEnd
  <2>2. \A i \in 1..Len(view.names) : i \in 1..(pos - 1)
    BY <1>3, <1>4, <2>1
  <2>3. \A i \in 1..Len(view.names) : ~(view.names[i].tag = "dns" /\ Covers(view.names[i].value, hostname))
    BY <1>7, <2>1, <2>2
  <2> QED  BY <1>2, <1>6, <2>1, <2>3 DEF Naming, HostnameVerified
<1> QED
  BY <1>8, <1>9, <1>10, <1>11, <1>12, <1>13 DEF NameStep

\* A view without names says so, whatever the parser and the loader do.
LEMMA NamingParsed == ASSUME IInv, ParseStep PROVE Naming'
<1>1. TypeOK /\ Naming
  BY DEF IInv
<1>2. at' \in {"key", "extensions", "parsed"}
  BY DEF ParseStep, FrameRefused, Frame, KeyRefused, PublicKey, NextBlock, Malformed, SubjectAltName,
         BasicConstraints, KeyUsage, ExtendedKeyUsage, CriticalUnknown, Ignored, ExtensionsEnd,
         Returns, NextExtension, AtExtension, AtBlock
<1>3. view \in ViewSet /\ (~view.san => view.names = <<>>)
  BY <1>1 DEF TypeOK, Naming
<1>4. ~view'.san => view'.names = <<>>
  <2>1. CASE Frame
    BY <2>1 DEF Frame, NoView
  <2>2. CASE SubjectAltName
    BY <1>3, <2>2 DEF SubjectAltName, ViewSet
  <2>3. CASE PublicKey \/ KeyUsage \/ ExtendedKeyUsage
    BY <1>3, <2>3 DEF PublicKey, KeyUsage, ExtendedKeyUsage, ViewSet
  <2>4. CASE BasicConstraints
    BY <1>3, <2>4 DEF BasicConstraints, ViewSet
  <2>5. CASE \/ FrameRefused \/ KeyRefused \/ NextBlock \/ Malformed \/ CriticalUnknown \/ Ignored
             \/ ExtensionsEnd
    BY <1>3, <2>5 DEF FrameRefused, KeyRefused, NextBlock, Malformed, CriticalUnknown, Ignored,
                      ExtensionsEnd
  <2> QED  BY <2>1, <2>2, <2>3, <2>4, <2>5 DEF ParseStep
<1> QED  BY <1>2, <1>4 DEF Naming, HostnameVerified

LEMMA StoreKept == ASSUME IInv, StoreStep PROVE Parsing' /\ Naming'
<1>1. at' \in {"idle", "frame", "entries"}
  BY DEF StoreStep, AddRefused, Add, AddReturns, Clear, LoadRefused, Load, EntryRefused, ReadEntry,
         AnchorRefused, AnchorAdded, OctetsLeft, Loaded, LoadFails, LoadReturns, Parse
<1>2. view' = view \/ view' = NoView
  BY DEF StoreStep, AddRefused, Add, AddReturns, Clear, LoadRefused, Load, EntryRefused, ReadEntry,
         AnchorRefused, AnchorAdded, OctetsLeft, Loaded, LoadFails, LoadReturns, Parse, EndsCall
<1>3. ~view'.san => view'.names = <<>>
  BY <1>2, NoViewType DEF IInv, Naming
<1> QED  BY <1>1, <1>3 DEF Parsing, Naming, HostnameVerified

-----------------------------------------------------------------------------
(* The loader *)

\* An entry that is there and a certificate takes the reading one further.
LEMMA ReadFurther ==
    ASSUME TypeOK, NEW start \in 0..Len(blob.body), Reached(start), Len(anchors) < blob.count,
           HasEntry(blob.body, start), Understood(CertificateOf(EntryAt(blob.body, start))),
           blob' = blob, anchors' = Append(anchors, EntryAt(blob.body, start))
    PROVE  Reached(EntryEnd(blob.body, start))'
<1> DEFINE n == Len(anchors)
           end == EntryEnd(blob.body, start)
           entry == EntryAt(blob.body, start)
<1>1. /\ blob.body \in Octets /\ blob.count \in Nat /\ anchors \in Seq(Octets) /\ n \in Nat
      /\ Len(blob.body) \in Nat
  BY DEF TypeOK, BlobSet, Octets
<1>2. end \in 0..Len(blob.body) /\ entry \in Octets
  BY <1>1, EntryIs
<1>3. /\ Len(anchors') = n + 1 /\ anchors' \in Seq(Octets)
      /\ \A i \in 1..n : anchors'[i] = anchors[i]
      /\ anchors'[n + 1] = entry
  BY <1>1, <1>2, AppendProperties
<1>4. PICK ends \in [1..n -> 0..Len(blob.body)] :
         /\ Follow(blob, ends) /\ StartOf(ends, n + 1) = start
         /\ anchors = [i \in 1..n |-> EntryAt(blob.body, StartOf(ends, i))]
  BY DEF Reached
<1> DEFINE more == [i \in 1..(n + 1) |-> IF i = n + 1 THEN end ELSE ends[i]]
<1>5. more \in [1..(n + 1) -> 0..Len(blob.body)]
  BY <1>1, <1>2, <1>4
<1>6. ASSUME NEW i \in 1..(n + 1)
      PROVE  StartOf(more, i) = StartOf(ends, i)
  <2>1. CASE i = 1
    BY <2>1 DEF StartOf
  <2>2. CASE i # 1
    <3>1. i - 1 \in 1..(n + 1) /\ i - 1 # n + 1
      BY <1>1, <2>2
    <3>2. more[i - 1] = ends[i - 1]
      BY <3>1
    <3> QED  BY <2>2, <3>2 DEF StartOf
  <2> QED  BY <2>1, <2>2
<1>7. ASSUME NEW i \in 1..(n + 1), i # n + 1
      PROVE  i \in 1..n /\ more[i] = ends[i]
  BY <1>1, <1>7
<1>8. more[n + 1] = end
  BY <1>1
<1>9. DOMAIN more = 1..(n + 1) /\ DOMAIN ends = 1..n
  BY <1>4
<1> HIDE DEF more
<1>10. ASSUME NEW i \in 1..(n + 1)
       PROVE  /\ HasEntry(blob.body, StartOf(more, i))
              /\ more[i] = EntryEnd(blob.body, StartOf(more, i))
              /\ Understood(CertificateOf(EntryAt(blob.body, StartOf(more, i))))
  <2>1. CASE i = n + 1
    BY <1>4, <1>6, <1>8, <2>1
  <2>2. CASE i # n + 1
    BY <1>4, <1>6, <1>7, <1>9, <2>2 DEF Follow
  <2> QED  BY <2>1, <2>2
<1>11. Follow(blob, more)
  BY <1>9, <1>10 DEF Follow
<1>12. StartOf(more, n + 1 + 1) = end
  <2>1. n + 1 + 1 # 1 /\ n + 1 + 1 - 1 = n + 1
    BY <1>1
  <2> QED  BY <1>8, <2>1 DEF StartOf
<1>13. anchors' = [i \in 1..(n + 1) |-> EntryAt(blob.body, StartOf(more, i))]
  <2> DEFINE f == [i \in 1..(n + 1) |-> EntryAt(blob.body, StartOf(more, i))]
  <2>1. anchors' = [i \in 1..(n + 1) |-> anchors'[i]]
    BY <1>3
  <2>2. ASSUME NEW i \in 1..(n + 1)
        PROVE  anchors'[i] = EntryAt(blob.body, StartOf(more, i))
    <3>1. CASE i = n + 1
      BY <1>3, <1>4, <1>6, <3>1
    <3>2. CASE i # n + 1
      <4>1. i \in 1..n
        BY <1>7, <3>2
      <4>2. anchors[i] = EntryAt(blob.body, StartOf(ends, i))
        BY <1>4, <4>1
      <4> QED  BY <1>3, <1>6, <4>1, <4>2
    <3> QED  BY <3>1, <3>2
  <2> QED  BY <2>1, <2>2
<1>14. ASSUME NEW all \in [1..blob.count -> 0..Len(blob.body)], Follow(blob, all)
       PROVE  StartOf(all, n + 1 + 1) = end
  <2>1. StartOf(all, n + 1) = start
    BY <1>14 DEF Reached
  <2>2. n + 1 \in 1..blob.count /\ DOMAIN all = 1..blob.count
    BY <1>1
  <2>3. all[n + 1] = EntryEnd(blob.body, StartOf(all, n + 1))
    BY <1>14, <2>2 DEF Follow
  <2>4. n + 1 + 1 # 1 /\ n + 1 + 1 - 1 = n + 1
    BY <1>1
  <2> QED  BY <2>1, <2>3, <2>4 DEF StartOf
<1>15. /\ more \in [1..Len(anchors') -> 0..Len(blob.body)]
       /\ Follow(blob, more) /\ StartOf(more, Len(anchors') + 1) = end
       /\ anchors' = [i \in 1..Len(anchors') |-> EntryAt(blob.body, StartOf(more, i))]
  BY <1>3, <1>5, <1>11, <1>12, <1>13
<1>16. \A all \in [1..blob.count -> 0..Len(blob.body)] :
          Follow(blob, all) => StartOf(all, Len(anchors') + 1) = end
  BY <1>3, <1>14
<1>17. end' = end
  BY DEF EntryEnd, read_be24
<1> HIDE DEF end, entry, n
<1>18. Reached(end)'
  BY <1>15, <1>16, <1>17 DEF Reached
<1> QED  BY <1>18 DEF end

\* Without an entry that is a certificate there, no reading of the blob goes on.
LEMMA ReadEnds ==
    ASSUME TypeOK, NEW start \in 0..Len(blob.body), Reached(start), Len(anchors) < blob.count,
           ~HasEntry(blob.body, start) \/ ~Understood(CertificateOf(EntryAt(blob.body, start)))
    PROVE  \A ends \in [1..blob.count -> 0..Len(blob.body)] : ~WellFormed(blob, ends)
<1> SUFFICES ASSUME NEW ends \in [1..blob.count -> 0..Len(blob.body)], Follow(blob, ends)
             PROVE  FALSE
  BY DEF WellFormed
<1>1. StartOf(ends, Len(anchors) + 1) = start
  BY DEF Reached
<1>2. Len(anchors) + 1 \in DOMAIN ends
  BY DEF TypeOK, BlobSet
<1> QED  BY <1>1, <1>2 DEF Follow

\* A load that fails on a blob that is not well formed, or does not fit.
LEMMA FailureIsExact ==
    ASSUME NEW e, e # "OK", LoadFails(e), loaded = 0,
           blob.count <= MaxAnchors =>
              \A ends \in [1..blob.count -> 0..Len(blob.body)] : ~WellFormed(blob, ends)
    PROVE  LoadIsExact'
<1>1. error' # "OK" /\ anchors' = <<>> /\ blob' = blob /\ loaded' = 0
  BY DEF LoadFails, LoadReturns
<1> QED  BY <1>1 DEF LoadIsExact

\* While the parser works and while a leaf is verified, the store stays as it is.
LEMMA LoadingParsed == ASSUME IInv, X509Step PROVE Loading'
<1>1. Loading /\ UNCHANGED storeVars
  BY DEF IInv, X509Step
<1>2. /\ UNCHANGED <<caller, blob, off, der, anchors, loaded>>
  BY <1>1 DEF storeVars
<1>3. CASE ParseStep
  <2>1. InParser /\ InParser' /\ at # "idle" /\ at' # "idle" /\ at' \notin {"names", "verified", "entries"}
    BY <1>3 DEF ParseStep, FrameRefused, Frame, KeyRefused, PublicKey, NextBlock, Malformed, SubjectAltName,
           BasicConstraints, KeyUsage, ExtendedKeyUsage, CriticalUnknown, Ignored, ExtensionsEnd,
           Returns, NextExtension, AtExtension, AtBlock, InParser
  <2>2. UNCHANGED <<cert, hostname>>
    BY <1>3 DEF ParseStep, FrameRefused, Frame, KeyRefused, PublicKey, NextBlock, Malformed, SubjectAltName,
           BasicConstraints, KeyUsage, ExtendedKeyUsage, CriticalUnknown, Ignored, ExtensionsEnd,
           Returns, NextExtension
  <2>3. LoadIsExact'
    BY <2>1 DEF LoadIsExact
  <2> QED  BY <1>1, <1>2, <2>1, <2>2, <2>3 DEF Loading, Reached
<1>4. CASE NameStep
  <2>1. at' \in {"names", "verified"}
    BY <1>4 DEF NameStep, VerifyHostname, NoNames, NameMalformed, NameMatches, NamePassed, NamesEnd, AtName
  <2>2. at \in {"names", "verified"} \/ (at = "parsed" /\ hostname # <<>>)
    BY <1>4 DEF NameStep, VerifyHostname, NoNames, NameMalformed, NameMatches, NamePassed, NamesEnd, AtName
  <2>3. caller # "load" /\ caller # "add" /\ caller # "none"
    BY <1>1, <2>2 DEF Loading
  <2>4. caller = "verify"
    BY <2>3 DEF IInv, TypeOK
  <2> QED  BY <1>2, <2>1, <2>4 DEF Loading, InParser, LoadIsExact
<1> QED  BY <1>3, <1>4 DEF X509Step

LEMMA LoadingKept == ASSUME IInv, StoreStep PROVE Loading'
<1>1. TypeOK /\ Loading /\ Parsing
  BY DEF IInv
<1>2. blob \in BlobSet /\ blob.body \in Octets /\ blob.count \in Nat /\ off \in 0..Len(blob.body)
  BY <1>1 DEF TypeOK, BlobSet
<1>3. Len(anchors) \in Nat /\ Len(anchors) <= MaxAnchors /\ MaxAnchors \in Nat
  BY <1>1, StoreAssumption DEF TypeOK
<1>4. ASSUME NEW d \in Entries, AddRefused(d)
      PROVE  Loading'
  <2>1. at = "idle" /\ at' = "idle" /\ caller' = "add" /\ off' = off /\ hostname' = hostname
    BY <1>4 DEF AddRefused
  <2>2. hostname = <<>> /\ off = 0
    BY <1>1, <2>1 DEF Loading
  <2> QED  BY <2>1, <2>2 DEF Loading, InParser, LoadIsExact
<1>5. ASSUME NEW d \in Entries, Add(d)
      PROVE  Loading'
  <2>1. at' = "frame" /\ caller' = "add" /\ hostname' = <<>> /\ anchors' = anchors
    BY <1>5 DEF Add, Parse
  <2>2. Len(anchors) < MaxAnchors
    BY <1>3, <1>5 DEF Add, AnchorError
  <2> QED  BY <2>1, <2>2 DEF Loading, InParser, LoadIsExact
<1>6. CASE AddReturns
  <2>1. at' = "idle" /\ caller' = "add" /\ hostname' = <<>> /\ off' = 0
    BY <1>6 DEF AddReturns, EndsCall
  <2> QED  BY <2>1 DEF Loading, InParser, LoadIsExact
<1>7. ASSUME NEW b \in Blobs, LoadRefused(b)
      PROVE  Loading'
  <2>1. /\ at' = "idle" /\ caller' = "load" /\ off' = off /\ blob' = b /\ loaded' = 0 /\ error' # "OK"
        /\ b.kind # "store" /\ at = "idle" /\ hostname' = hostname
    BY <1>7 DEF LoadRefused
  <2>2. off = 0 /\ hostname = <<>>
    BY <1>1, <2>1 DEF Loading
  <2>3. LoadIsExact'
    BY <2>1 DEF LoadIsExact, WellFormed
  <2> QED  BY <2>1, <2>2, <2>3 DEF Loading, InParser
<1>8. ASSUME NEW b \in Blobs, Load(b)
      PROVE  Loading'
  <2>1. /\ at = "idle" /\ b.kind = "store" /\ at' = "entries" /\ caller' = "load" /\ blob' = b
        /\ off' = 0 /\ anchors' = <<>> /\ loaded' = 0 /\ hostname' = hostname
    BY <1>8 DEF Load
  <2>2. b \in BlobSet /\ b.count \in Nat
    BY <1>8, StoreAssumption DEF BlobSet
  <2>3. hostname = <<>>
    BY <1>1, <2>1 DEF Loading
  <2>4. Reached(0)'
    <3> DEFINE none == [i \in 1..0 |-> 0]
    <3>1. Len(anchors') = 0 /\ 1..0 = {}
      BY <2>1, EmptySeq
    <3>2. none \in [1..Len(anchors') -> 0..Len(blob'.body)] /\ DOMAIN none = {}
      BY <3>1
    <3>3. Follow(blob', none) /\ StartOf(none, Len(anchors') + 1) = 0
      BY <3>1, <3>2 DEF Follow, StartOf
    <3>4. anchors' = [i \in 1..Len(anchors') |-> EntryAt(blob'.body, StartOf(none, i))]
      <4>1. anchors' \in Seq(Octets)
        BY <2>1, EmptySeq
      <4>2. anchors' = [i \in 1..Len(anchors') |-> anchors'[i]]
        BY <4>1
      <4> QED  BY <3>1, <4>2
    <3>5. \A ends : StartOf(ends, Len(anchors') + 1) = 0
      BY <3>1 DEF StartOf
    <3> HIDE DEF none
    <3> QED  BY <3>2, <3>3, <3>4, <3>5 DEF Reached
  <2>5. Len(anchors') <= blob'.count
    BY <2>1, <2>2, EmptySeq
  <2> QED  BY <2>1, <2>3, <2>4, <2>5 DEF Loading, InParser, LoadIsExact
<1>9. ASSUME at = "entries"
      PROVE  /\ caller = "load" /\ blob.kind = "store" /\ loaded = 0 /\ hostname = <<>>
             /\ Reached(off) /\ Len(anchors) <= blob.count
  BY <1>1, <1>9 DEF Loading
<1>10. ASSUME at = "parsed", caller = "load"
       PROVE  /\ blob.kind = "store" /\ loaded = 0 /\ hostname = <<>>
              /\ Len(anchors) < blob.count /\ cert = CertificateOf(der)
              /\ \E start \in 0..Len(blob.body) :
                    /\ Reached(start) /\ HasEntry(blob.body, start)
                    /\ off = EntryEnd(blob.body, start) /\ der = EntryAt(blob.body, start)
  BY <1>1, <1>10 DEF Loading, InParser
<1>11. ASSUME NEW e, e # "OK", LoadFails(e), caller = "load", LoadIsExact'
       PROVE  Loading'
  <2>1. at' = "idle" /\ caller' = "load" /\ off' = 0 /\ hostname' = <<>>
    BY <1>11 DEF LoadFails, LoadReturns, EndsCall
  <2> QED  BY <1>11, <2>1 DEF Loading, InParser
<1>12. CASE EntryRefused
  <2>1. at = "entries" /\ Len(anchors) < blob.count
    BY <1>12 DEF EntryRefused, AtEntry
  <2>2. CASE ~HasEntry(blob.body, off) /\ LoadFails("BAD_HANDSHAKE")
    <3>1. \A ends \in [1..blob.count -> 0..Len(blob.body)] : ~WellFormed(blob, ends)
      BY <1>1, <1>2, <1>9, <2>1, <2>2, ReadEnds
    <3>2. LoadIsExact'
      BY <1>9, <2>1, <2>2, <3>1, FailureIsExact
    <3> QED  BY <1>9, <1>11, <2>1, <2>2, <3>2
  <2>3. CASE /\ HasEntry(blob.body, off) /\ AnchorError(EntryAt(blob.body, off)) # "OK"
             /\ LoadFails(AnchorError(EntryAt(blob.body, off)))
    <3>1. EntryAt(blob.body, off) # <<>>
      BY <1>2, <2>3, EntryIs
    <3>2. Len(anchors) >= MaxAnchors
      BY <2>3, <3>1 DEF AnchorError
    <3>3. ~(blob.count <= MaxAnchors)
      BY <1>2, <1>3, <2>1, <3>2
    <3>4. LoadIsExact'
      BY <1>9, <2>1, <2>3, <3>3, FailureIsExact
    <3> QED  BY <1>9, <1>11, <2>1, <2>3, <3>4
  <2> QED  BY <1>12, <2>2, <2>3 DEF EntryRefused
<1>13. CASE ReadEntry
  <2>1. /\ at = "entries" /\ Len(anchors) < blob.count /\ HasEntry(blob.body, off)
        /\ AnchorError(EntryAt(blob.body, off)) = "OK"
        /\ at' = "frame" /\ der' = EntryAt(blob.body, off) /\ cert' = CertificateOf(der')
        /\ hostname' = <<>> /\ off' = EntryEnd(blob.body, off)
        /\ UNCHANGED <<caller, blob, anchors, loaded>>
    BY <1>13 DEF ReadEntry, AtEntry, Parse
  <2>2. Len(anchors) < MaxAnchors
    BY <1>3, <2>1 DEF AnchorError
  <2>3. Reached(off)
    BY <1>9, <2>1
  <2>4. \E start \in 0..Len(blob.body) :
           /\ Reached(start)' /\ HasEntry(blob.body, start)
           /\ off' = EntryEnd(blob.body, start) /\ der' = EntryAt(blob.body, start)
    <3>1. Reached(off) /\ UNCHANGED <<blob, anchors>>
      BY <2>1, <2>3
    <3>2. \A start : Reached(start) => Reached(start)'
      BY <3>1 DEF Reached
    <3> QED  BY <1>2, <2>1, <2>3, <3>2
  <2> QED  BY <1>9, <2>1, <2>2, <2>4 DEF Loading, InParser, LoadIsExact
<1>14. CASE AnchorRefused
  <2>1. at = "parsed" /\ caller = "load" /\ error # "OK" /\ LoadFails(error)
    BY <1>14 DEF AnchorRefused
  <2>2. PICK start \in 0..Len(blob.body) :
           Reached(start) /\ HasEntry(blob.body, start) /\ der = EntryAt(blob.body, start)
    BY <1>10, <2>1
  <2>3. ~Understood(CertificateOf(EntryAt(blob.body, start)))
    BY <1>1, <1>10, <2>1, <2>2 DEF Parsing
  <2>4. \A ends \in [1..blob.count -> 0..Len(blob.body)] : ~WellFormed(blob, ends)
    BY <1>1, <1>10, <2>1, <2>2, <2>3, ReadEnds
  <2>5. LoadIsExact'
    BY <1>10, <2>1, <2>4, FailureIsExact
  <2> QED  BY <1>11, <2>1, <2>5
<1>15. CASE AnchorAdded
  <2>1. /\ at = "parsed" /\ caller = "load" /\ error = "OK" /\ at' = "entries"
        /\ anchors' = Append(anchors, der)
        /\ UNCHANGED <<hostname, caller, blob, off, loaded>>
    BY <1>15 DEF AnchorAdded
  <2>2. PICK start \in 0..Len(blob.body) :
           /\ Reached(start) /\ HasEntry(blob.body, start)
           /\ off = EntryEnd(blob.body, start) /\ der = EntryAt(blob.body, start)
    BY <1>10, <2>1
  <2>3. Understood(CertificateOf(EntryAt(blob.body, start)))
    BY <1>1, <1>10, <2>1, <2>2 DEF Parsing
  <2>4. Reached(EntryEnd(blob.body, start))'
    BY <1>1, <1>10, <2>1, <2>2, <2>3, ReadFurther
  <2>5. Reached(off)'
    <3>1. EntryEnd(blob.body, start)' = EntryEnd(blob.body, start)
      BY <2>1 DEF EntryEnd, read_be24
    <3>2. off' = EntryEnd(blob.body, start)
      BY <2>1, <2>2
    <3> QED  BY <2>1, <2>4, <3>1, <3>2 DEF Reached
  <2>6. Len(anchors') <= blob'.count
    <3>1. der \in Octets /\ anchors \in Seq(Octets)
      BY <1>1 DEF TypeOK
    <3>2. Len(anchors') = Len(anchors) + 1
      BY <2>1, <3>1, AppendProperties
    <3> QED  BY <1>2, <1>3, <1>10, <2>1, <3>2
  <2> QED  BY <1>10, <2>1, <2>5, <2>6 DEF Loading, InParser, LoadIsExact
<1>16. CASE OctetsLeft
  <2>1. at = "entries" /\ Len(anchors) = blob.count /\ off # Len(blob.body) /\ LoadFails("BAD_HANDSHAKE")
    BY <1>16 DEF OctetsLeft
  <2>2. ASSUME NEW ends \in [1..blob.count -> 0..Len(blob.body)], WellFormed(blob, ends)
        PROVE  FALSE
    <3>1. StartOf(ends, Len(anchors) + 1) = off
      BY <1>9, <2>1, <2>2 DEF WellFormed, Reached
    <3> QED  BY <2>1, <2>2, <3>1 DEF WellFormed
  <2>3. LoadIsExact'
    BY <1>9, <2>1, <2>2, FailureIsExact
  <2> QED  BY <1>9, <1>11, <2>1, <2>3
<1>17. CASE Loaded
  <2>1. /\ at = "entries" /\ Len(anchors) = blob.count /\ off = Len(blob.body)
        /\ at' = "idle" /\ error' = "OK" /\ off' = 0 /\ loaded' = blob.count /\ hostname' = <<>>
        /\ UNCHANGED <<caller, blob, anchors>>
    BY <1>17 DEF Loaded, LoadReturns, EndsCall
  <2>2. PICK ends \in [1..blob.count -> 0..Len(blob.body)] :
           /\ Follow(blob, ends) /\ StartOf(ends, blob.count + 1) = Len(blob.body)
           /\ anchors = [i \in 1..blob.count |-> EntryAt(blob.body, StartOf(ends, i))]
    BY <1>9, <2>1 DEF Reached
  <2>3. WellFormed(blob, ends)
    BY <1>9, <2>1, <2>2 DEF WellFormed
  <2>4. blob.count <= MaxAnchors
    BY <1>3, <2>1
  <2>5. LoadIsExact'
    BY <2>1, <2>2, <2>3, <2>4 DEF LoadIsExact
  <2> QED  BY <1>9, <2>1, <2>5 DEF Loading, InParser
<1>18. CASE Clear
  <2>1. /\ at = "idle" /\ at' = "idle" /\ off' = off /\ hostname' = hostname /\ caller' = "none"
    BY <1>18 DEF Clear
  <2>2. hostname = <<>> /\ off = 0
    BY <1>1, <2>1 DEF Loading
  <2> QED  BY <2>1, <2>2 DEF Loading, InParser, LoadIsExact
<1> QED
  BY <1>4, <1>5, <1>6, <1>7, <1>8, <1>12, <1>13, <1>14, <1>15, <1>16, <1>17, <1>18 DEF StoreStep

-----------------------------------------------------------------------------
(* The theorems *)

LEMMA Inductive == Spec => []IInv
<1>1. Init => IInv
  <2> SUFFICES ASSUME Init PROVE IInv
    OBVIOUS
  <2>1. TypeOK
    BY InitType
  <2>2. at \in {"idle", "frame"} /\ caller \in {"none", "verify"} /\ view = NoView /\ off = 0
    BY DEF Init, StoreInit, VerifyInit, LeafInit, NoCall
  <2>3. /\ (caller = "none" => at = "idle") /\ (at = "idle" => hostname = <<>>)
    BY DEF Init, StoreInit, VerifyInit, LeafInit, NoCall
  <2>4. Parsing
    BY <2>2 DEF Parsing
  <2>5. Naming
    BY <2>2, NoViewType DEF Naming, HostnameVerified
  <2>6. Loading
    BY <2>2, <2>3 DEF Loading, InParser, LoadIsExact
  <2> QED  BY <2>1, <2>4, <2>5, <2>6 DEF IInv
<1>2. IInv /\ [Next]_vars => IInv'
  <2> SUFFICES ASSUME IInv, [Next]_vars PROVE IInv'
    OBVIOUS
  <2>1. CASE StoreStep
    BY <2>1, StoreType, StoreKept, LoadingKept DEF IInv
  <2>2. CASE X509Step
    <3>1. TypeOK /\ Parsing /\ UNCHANGED storeVars
      BY <2>2 DEF IInv, X509Step
    <3>2. Loading'
      BY <2>2, LoadingParsed
    <3>3. CASE ParseStep
      BY <3>1, <3>2, <3>3, ParseType, ParsingKept, NamingParsed DEF IInv
    <3>4. CASE NameStep
      <4>1. at' \in {"names", "verified"}
        BY <3>4 DEF NameStep, VerifyHostname, NoNames, NameMalformed, NameMatches, NamePassed, NamesEnd,
                    AtName
      <4>2. Parsing'
        BY <4>1 DEF Parsing
      <4> QED  BY <3>1, <3>2, <3>4, <4>2, NameType, NamingKept DEF IInv
    <3> QED  BY <2>2, <3>3, <3>4 DEF X509Step
  <2>3. CASE UNCHANGED vars
    <3>1. /\ UNCHANGED <<at, cert, hostname, block, pos, view, error>>
          /\ UNCHANGED <<caller, blob, off, der, anchors, loaded>>
      BY <2>3 DEF vars, x509Vars, storeVars
    <3>2. TypeOK'
      BY <3>1 DEF IInv, TypeOK
    <3>3. Parsing'
      BY <3>1 DEF IInv, Parsing
    <3>4. Naming'
      BY <3>1 DEF IInv, Naming, HostnameVerified
    <3>5. Loading'
      <4>1. LoadIsExact'
        BY <3>1 DEF IInv, Loading, LoadIsExact
      <4>2. (Reached(off) <=> Reached(off)') /\ \A start : Reached(start) <=> Reached(start)'
        BY <3>1 DEF Reached
      <4>3. Loading
        BY DEF IInv
      <4> HIDE DEF Reached, LoadIsExact
      <4> QED  BY <3>1, <4>1, <4>2, <4>3 DEF Loading, InParser
    <3> QED  BY <3>2, <3>3, <3>4, <3>5 DEF IInv
  <2> QED  BY <2>1, <2>2, <2>3 DEF Next
<1> QED  BY <1>1, <1>2, PTL DEF Spec

\* The parser, the matcher and the store keep to their types, the anchors to their array.
THEOREM TypeCorrect == Spec => []TypeOK
<1>1. IInv => TypeOK
  BY DEF IInv
<1> QED  BY <1>1, Inductive, PTL

\* x509_verify_hostname() accepts exactly the leaves one of whose names covers the host.
THEOREM HostnameIsVerified == Spec => []HostnameVerified
<1>1. IInv => HostnameVerified
  BY DEF IInv, Naming
<1> QED  BY <1>1, Inductive, PTL

\* load_compact_trust_store() loads all of a blob or nothing, and refuses no other.
THEOREM LoadsExactly == Spec => []LoadIsExact
<1>1. IInv => LoadIsExact
  BY DEF IInv, Loading
<1> QED  BY <1>1, Inductive, PTL

-----------------------------------------------------------------------------
(* The view *)

\* What a view says of the extension at x, when it is the only one of its kind.
Says(v, x) ==
    /\ At(x).oid = "san" => v.names = At(x).names
    /\ At(x).oid = "bc" => v.ca = At(x).ca /\ v.path = At(x).path
    /\ At(x).oid = "ku" => (v.digitalSignature <=> "digitalSignature" \in At(x).usages)
    /\ At(x).oid = "ku" => (v.keyCertSign <=> "keyCertSign" \in At(x).usages)
    /\ At(x).oid = "eku" => (v.serverAuth <=> "serverAuth" \in At(x).purposes)

Among(S, oid) == {x \in S : At(x).oid = oid}

\* A view is what the extensions of S say together.
Gathered(v, S) ==
    /\ \A x \in S : Among(S, At(x).oid) = {x} => Says(v, x)
    /\ v.san <=> Among(S, "san") # {}
    /\ v.bc <=> Among(S, "bc") # {}
    /\ v.ku <=> Among(S, "ku") # {}
    /\ v.eku <=> Among(S, "eku") # {}
    /\ v.path = {} <=> \A x \in Among(S, "bc") : At(x).path = {}
    /\ v.ca => \E x \in Among(S, "bc") : At(x).ca
    /\ v.digitalSignature => \E x \in Among(S, "ku") : "digitalSignature" \in At(x).usages
    /\ v.keyCertSign => \E x \in Among(S, "ku") : "keyCertSign" \in At(x).usages
    /\ v.serverAuth <=> \E x \in Among(S, "eku") : "serverAuth" \in At(x).purposes

\* What the loop does to its view with the extension e.
Absorbs(v, w, e) ==
    /\ w.key = v.key
    /\ w.san <=> v.san \/ e.oid = "san"
    /\ w.names = IF e.oid = "san" THEN e.names ELSE v.names
    /\ w.bc <=> v.bc \/ e.oid = "bc"
    /\ w.ca <=> IF e.oid = "bc" THEN e.ca ELSE v.ca
    /\ w.path = IF e.oid = "bc" /\ e.path # {} THEN e.path ELSE v.path
    /\ w.ku <=> v.ku \/ e.oid = "ku"
    /\ w.digitalSignature <=>
         IF e.oid = "ku" THEN "digitalSignature" \in e.usages ELSE v.digitalSignature
    /\ w.keyCertSign <=> IF e.oid = "ku" THEN "keyCertSign" \in e.usages ELSE v.keyCertSign
    /\ w.eku <=> v.eku \/ e.oid = "eku"
    /\ w.serverAuth <=> v.serverAuth \/ (e.oid = "eku" /\ "serverAuth" \in e.purposes)

\* The extensions in front of pos.
Seen == {x \in Extensions : x[1] < block \/ (x[1] = block /\ x[2] < pos)}

Viewing ==
    /\ at = "key" => view = [NoView EXCEPT !.validity = TRUE]
    /\ at = "extensions" => view.key = cert.key /\ Gathered(view, Seen)
    /\ at \in {"parsed", "names"} /\ error = "OK" =>
          Understood(cert) /\ view.key = cert.key /\ Gathered(view, Extensions)

\* One extension more, and the view says of all of them what they say.
LEMMA OneGathered ==
    ASSUME NEW S, NEW x, x \notin S, NEW v \in ViewSet, NEW w \in ViewSet,
           Gathered(v, S), Absorbs(v, w, At(x)), At(x).oid = "bc" => At(x).ca \in BOOLEAN
    PROVE  Gathered(w, S \cup {x})
<1> DEFINE T == S \cup {x}
           e == At(x)
<1>0. \A oid : Among(S, oid) \subseteq S
  BY DEF Among
<1>1. \A oid : Among(T, oid) = IF oid = e.oid THEN Among(S, oid) \cup {x} ELSE Among(S, oid)
  BY DEF Among
<1>2. \A oid : x \notin Among(S, oid)
  BY <1>0
<1> HIDE DEF T
<1>3. ASSUME NEW y \in T, Among(T, At(y).oid) = {y}
      PROVE  Says(w, y)
  <2>1. y \in Among(T, At(y).oid) /\ (y = x \/ y \in S)
    BY <1>3 DEF Among, T
  <2>2. CASE y = x
    <3>1. Among(S, e.oid) = {}
      BY <1>1, <1>2, <1>3, <2>2
    <3>2. e.oid = "bc" => v.path = {}
      BY <3>1 DEF Gathered
    <3>3. e.oid = "bc" => w.path = e.path
      BY <3>2 DEF Absorbs
    <3>4. e.oid = "bc" => w.ca = e.ca
      BY DEF Absorbs, ViewSet
    <3>5. e.oid = "eku" => ~v.serverAuth
      BY <3>1 DEF Gathered
    <3>6. e.oid = "eku" => (w.serverAuth <=> "serverAuth" \in e.purposes)
      BY <3>5 DEF Absorbs
    <3>7. /\ e.oid = "san" => w.names = e.names
          /\ e.oid = "ku" => (w.digitalSignature <=> "digitalSignature" \in e.usages)
          /\ e.oid = "ku" => (w.keyCertSign <=> "keyCertSign" \in e.usages)
      BY DEF Absorbs
    <3> QED  BY <2>2, <3>3, <3>4, <3>6, <3>7 DEF Says
  <2>3. CASE y # x
    <3>1. At(y).oid # e.oid
      BY <1>1, <1>2, <1>3, <2>3
    <3>2. Among(S, At(y).oid) = {y} /\ y \in S
      BY <1>1, <1>3, <2>1, <2>3, <3>1
    <3>3. Says(v, y)
      BY <3>2 DEF Gathered
    <3>4. /\ At(y).oid = "san" => w.names = v.names
          /\ At(y).oid = "bc" => w.ca = v.ca /\ w.path = v.path
          /\ At(y).oid = "ku" => (w.digitalSignature <=> v.digitalSignature)
          /\ At(y).oid = "ku" => (w.keyCertSign <=> v.keyCertSign)
          /\ At(y).oid = "eku" => (w.serverAuth <=> v.serverAuth)
      BY <3>1 DEF Absorbs, ViewSet
    <3> QED  BY <3>3, <3>4 DEF Says
  <2> QED  BY <2>2, <2>3
<1>4. /\ w.san <=> Among(T, "san") # {}
      /\ w.bc <=> Among(T, "bc") # {}
      /\ w.ku <=> Among(T, "ku") # {}
      /\ w.eku <=> Among(T, "eku") # {}
  BY <1>1 DEF Gathered, Absorbs
<1>5. w.path = {} <=> \A y \in Among(T, "bc") : At(y).path = {}
  <2>1. CASE e.oid = "bc"
    <3>1. Among(T, "bc") = Among(S, "bc") \cup {x}
      BY <1>1, <2>1
    <3>2. w.path = IF e.path # {} THEN e.path ELSE v.path
      BY <2>1 DEF Absorbs
    <3> QED  BY <3>1, <3>2 DEF Gathered
  <2>2. CASE e.oid # "bc"
    BY <1>1, <2>2 DEF Gathered, Absorbs
  <2> QED  BY <2>1, <2>2
<1>6. w.ca => \E y \in Among(T, "bc") : At(y).ca
  BY <1>1 DEF Gathered, Absorbs
<1>7. w.keyCertSign => \E y \in Among(T, "ku") : "keyCertSign" \in At(y).usages
  BY <1>1 DEF Gathered, Absorbs
<1>9. w.digitalSignature => \E y \in Among(T, "ku") : "digitalSignature" \in At(y).usages
  BY <1>1 DEF Gathered, Absorbs
<1>8. w.serverAuth <=> \E y \in Among(T, "eku") : "serverAuth" \in At(y).purposes
  BY <1>1 DEF Gathered, Absorbs
<1> QED  BY <1>3, <1>4, <1>5, <1>6, <1>7, <1>8, <1>9 DEF Gathered, T

\* As long as the certificate stays, what is said of it does.
LEMMA GatheredStays ==
    ASSUME cert' = cert
    PROVE  /\ Gathered(view', Seen') => Gathered(view, Seen)'
           /\ Gathered(view', Extensions') => Gathered(view, Extensions)'
<1>1. \A x : At(x)' = At(x)
  BY DEF At
<1>2. /\ \A oid : Among(Seen', oid) = Among(Seen, oid)'
      /\ \A oid : Among(Extensions', oid) = Among(Extensions, oid)'
  BY <1>1 DEF Among
<1>3. \A x : Says(view', x) => Says(view, x)'
  BY <1>1 DEF Says
<1>4. Gathered(view', Seen') => Gathered(view, Seen)'
  BY <1>1, <1>2, <1>3 DEF Gathered
<1>5. Gathered(view', Extensions') => Gathered(view, Extensions)'
  BY <1>1, <1>2, <1>3 DEF Gathered
<1> QED  BY <1>4, <1>5

\* Without extensions there is nothing to say.
LEMMA NoneGathered ==
    ASSUME NEW v, ~v.san, ~v.bc, v.path = {}, ~v.ca, ~v.ku, ~v.digitalSignature,
           ~v.keyCertSign, ~v.eku, ~v.serverAuth
    PROVE  Gathered(v, {})
  BY DEF Gathered, Among

LEMMA ViewingParsed == ASSUME IInv, Viewing, ParseStep PROVE Viewing'
<1>1. TypeOK /\ Parsing /\ cert \in CertificateSet /\ view \in ViewSet
  BY DEF IInv, TypeOK
<1>2. Parsing'
  BY ParsingKept
<1>3. cert' = cert
  BY DEF ParseStep, FrameRefused, Frame, KeyRefused, PublicKey, NextBlock, Malformed, SubjectAltName,
         BasicConstraints, KeyUsage, ExtendedKeyUsage, CriticalUnknown, Ignored, ExtensionsEnd,
         Returns, NextExtension
<1>5. Extensions' = Extensions
  BY <1>3 DEF Extensions
<1>4. /\ Gathered(view', Seen') => Gathered(view, Seen)'
      /\ Gathered(view', Extensions') => Gathered(view, Extensions)'
  BY <1>3, GatheredStays
<1>6. \A x \in Extensions : x = <<x[1], x[2]>> /\ x[1] \in 1..Len(cert.blocks)
                            /\ x[2] \in 1..Len(cert.blocks[x[1]])
  BY DEF Extensions
<1>7. CASE FrameRefused \/ KeyRefused \/ Malformed \/ CriticalUnknown
  <2>1. at' = "parsed" /\ error' # "OK"
    BY <1>7 DEF FrameRefused, KeyRefused, Malformed, CriticalUnknown, Returns
  <2> QED  BY <2>1 DEF Viewing
<1>8. CASE Frame
  <2>1. at' = "key" /\ view' = [NoView EXCEPT !.validity = TRUE]
    BY <1>8 DEF Frame
  <2> QED  BY <2>1 DEF Viewing
<1>9. CASE PublicKey
  <2>1. at' = "extensions" /\ block' = 1 /\ pos' = 1 /\ view' = [view EXCEPT !.key = cert.key]
    BY <1>9 DEF PublicKey
  <2>2. view = [NoView EXCEPT !.validity = TRUE]
    BY <1>9 DEF PublicKey, Viewing
  <2>3. /\ ~view'.san /\ ~view'.bc /\ view'.path = {} /\ ~view'.ca /\ ~view'.ku
        /\ ~view'.digitalSignature /\ ~view'.keyCertSign /\ ~view'.eku /\ ~view'.serverAuth
        /\ view'.key = cert.key
    BY <2>1, <2>2 DEF NoView
  <2>4. Seen' = {}
    <3>1. ASSUME NEW x \in Extensions
          PROVE  ~(x[1] < 1 \/ (x[1] = 1 /\ x[2] < 1))
      BY <1>6
    <3> QED  BY <1>5, <2>1, <3>1 DEF Seen
  <2>5. Gathered(view', {})
    BY <2>3, NoneGathered
  <2> QED  BY <1>3, <1>4, <2>1, <2>3, <2>4, <2>5 DEF Viewing
<1>10. CASE NextBlock
  <2>1. /\ AtBlock /\ pos > Len(cert.blocks[block]) /\ block' = block + 1 /\ pos' = 1
        /\ at = "extensions" /\ at' = "extensions" /\ view' = view
    BY <1>10 DEF NextBlock, AtBlock
  <2>2. block \in Nat /\ pos \in Nat
    BY <1>1 DEF TypeOK
  <2>3. Seen' = Seen
    <3>1. ASSUME NEW x \in Extensions
          PROVE  (x[1] < block + 1 \/ (x[1] = block + 1 /\ x[2] < 1))
                 <=> (x[1] < block \/ (x[1] = block /\ x[2] < pos))
      <4>1. x[1] \in Nat /\ x[2] \in Nat /\ x[2] >= 1
        BY <1>6
      <4>2. x[1] = block => x[2] < pos
        <5>1. x[2] \in 1..Len(cert.blocks[x[1]])
          BY <1>6
        <5>2. Len(cert.blocks[x[1]]) \in Nat
          BY <1>1, <1>6, BlocksType
        <5> QED  BY <2>1, <2>2, <5>1, <5>2
      <4> QED  BY <2>2, <4>1, <4>2
    <3> QED  BY <1>5, <2>1, <3>1 DEF Seen
  <2> QED  BY <1>3, <1>4, <2>1, <2>3 DEF Viewing
<1>11. CASE SubjectAltName \/ BasicConstraints \/ KeyUsage \/ ExtendedKeyUsage \/ Ignored
  <2> DEFINE y == <<block, pos>>
  <2>1. /\ AtBlock /\ pos <= Len(cert.blocks[block]) /\ pos' = pos + 1 /\ block' = block
        /\ at = "extensions" /\ at' = "extensions"
    BY <1>11 DEF SubjectAltName, BasicConstraints, KeyUsage, ExtendedKeyUsage, Ignored, AtExtension,
                 AtBlock, NextExtension
  <2>2. At(y) = Extension
    BY DEF At, Extension
  <2>3. /\ block \in 1..Len(cert.blocks) /\ pos \in 1..Len(cert.blocks[block])
        /\ Extension.oid = "bc" => Extension.ca \in BOOLEAN
    BY <1>1, <2>1, ExtensionType
  <2>4. y \in Extensions
    BY <2>3 DEF Extensions
  <2>5. Seen' = Seen \cup {y} /\ y \notin Seen
    <3>1. ASSUME NEW x \in Extensions
          PROVE  (x[1] < block \/ (x[1] = block /\ x[2] < pos + 1))
                 <=> (x[1] < block \/ (x[1] = block /\ x[2] < pos)) \/ x = y
      <4>1. x[1] \in Nat /\ x[2] \in Nat /\ x = <<x[1], x[2]>> /\ block \in Nat /\ pos \in Nat
        BY <1>6, <2>3
      <4>2. x = y <=> x[1] = block /\ x[2] = pos
        BY <4>1
      <4> QED  BY <4>1, <4>2
    <3>2. Seen' = {x \in Extensions : x[1] < block \/ (x[1] = block /\ x[2] < pos + 1)}
      BY <1>5, <2>1 DEF Seen
    <3>3. y[1] = block /\ y[2] = pos /\ block \in Nat /\ pos \in Nat
      BY <2>3
    <3>4. y \notin Seen
      BY <3>3 DEF Seen
    <3>5. Seen' = Seen \cup {y}
      BY <2>4, <3>1, <3>2 DEF Seen
    <3> QED  BY <3>4, <3>5
  <2>6. view' \in ViewSet /\ Absorbs(view, view', Extension)
    <3>1. CASE SubjectAltName
      <4>1. Extension.oid = "san" /\ view' = [view EXCEPT !.san = TRUE, !.names = Extension.names]
        BY <3>1 DEF SubjectAltName, AtExtension, Extension
      <4>2. Extension.names \in Seq(Names)
        BY <1>1, <2>1, <4>1, ExtensionType
      <4> QED  BY <1>1, <4>1, <4>2 DEF ViewSet, Absorbs
    <3>2. CASE BasicConstraints
      <4>1. Extension.oid = "bc"
            /\ view' = [view EXCEPT !.bc = TRUE, !.ca = Extension.ca,
                                    !.path = IF Extension.path = {} THEN @ ELSE Extension.path]
        BY <3>2 DEF BasicConstraints, AtExtension, Extension
      <4>2. Extension.ca \in BOOLEAN /\ Extension.path \subseteq Nat
        BY <1>1, <2>1, <4>1, ExtensionType
      <4>3. PICK path \in SUBSET Nat :
               /\ path = IF Extension.path = {} THEN view.path ELSE Extension.path
               /\ view' = [view EXCEPT !.bc = TRUE, !.ca = Extension.ca, !.path = path]
        <5>1. view.path \in SUBSET Nat
          BY <1>1 DEF ViewSet
        <5> QED  BY <4>1, <4>2, <5>1
      <4> QED  BY <1>1, <4>1, <4>2, <4>3 DEF ViewSet, Absorbs
    <3>3. CASE KeyUsage
      <4> DEFINE d == "digitalSignature" \in Extension.usages
                 k == "keyCertSign" \in Extension.usages
      <4>1. Extension.oid = "ku"
            /\ view' = [view EXCEPT !.ku = TRUE, !.digitalSignature = d, !.keyCertSign = k]
        BY <3>3 DEF KeyUsage, AtExtension, Extension
      <4>2. d \in BOOLEAN /\ k \in BOOLEAN /\ (k <=> "keyCertSign" \in Extension.usages)
            /\ (d <=> "digitalSignature" \in Extension.usages)
        OBVIOUS
      <4> HIDE DEF d, k
      <4> QED  BY <1>1, <4>1, <4>2 DEF ViewSet, Absorbs
    <3>4. CASE ExtendedKeyUsage
      <4>1. Extension.oid = "eku"
        BY <3>4 DEF ExtendedKeyUsage, AtExtension, Extension
      <4>2. PICK a \in BOOLEAN :
               /\ a <=> view.serverAuth \/ "serverAuth" \in Extension.purposes
               /\ view' = [view EXCEPT !.eku = TRUE, !.serverAuth = a]
        BY <3>4 DEF ExtendedKeyUsage
      <4> QED  BY <1>1, <4>1, <4>2 DEF ViewSet, Absorbs
    <3>5. CASE Ignored
      <4>1. Extension.oid = "other" /\ view' = view
        BY <3>5 DEF Ignored, AtExtension, Extension
      <4> QED  BY <1>1, <4>1 DEF ViewSet, Absorbs
    <3> QED  BY <1>11, <3>1, <3>2, <3>3, <3>4, <3>5
  <2>7. view.key = cert.key /\ Gathered(view, Seen)
    BY <2>1 DEF Viewing
  <2> HIDE DEF y
  <2>8. Gathered(view', Seen \cup {y})
    BY <1>1, <2>2, <2>3, <2>5, <2>6, <2>7, OneGathered
  <2>9. view'.key = cert.key
    BY <2>6, <2>7 DEF Absorbs
  <2> QED  BY <1>3, <1>4, <2>1, <2>5, <2>8, <2>9 DEF Viewing
<1>12. CASE ExtensionsEnd
  <2>1. at = "extensions" /\ block > Len(cert.blocks) /\ at' = "parsed" /\ error' = "OK" /\ view' = view
    BY <1>12 DEF ExtensionsEnd, Returns
  <2>2. Understood(cert)'
    BY <1>2, <2>1 DEF Parsing
  <2>3. Seen = Extensions
    <3>1. ASSUME NEW x \in Extensions
          PROVE  x[1] < block
      <4>1. x[1] \in 1..Len(cert.blocks) /\ Len(cert.blocks) \in Nat /\ block \in Nat
        BY <1>1, <1>6, BlocksType DEF TypeOK
      <4> QED  BY <2>1, <4>1
    <3> QED  BY <3>1 DEF Seen
  <2> QED  BY <1>3, <1>4, <1>5, <2>1, <2>2, <2>3 DEF Viewing
<1> QED
  BY <1>7, <1>8, <1>9, <1>10, <1>11, <1>12 DEF ParseStep

LEMMA ViewingNamed == ASSUME Viewing, NameStep PROVE Viewing'
<1>1. UNCHANGED <<cert, view>>
  BY DEF NameStep, VerifyHostname, NoNames, NameMalformed, NameMatches, NamePassed, NamesEnd
<1>2. \/ at' = "verified"
      \/ at' = "names" /\ at \in {"parsed", "names"} /\ error' = error
  BY DEF NameStep, VerifyHostname, NoNames, NameMalformed, NameMatches, NamePassed, NamesEnd, AtName
<1>3. CASE at' = "verified"
  BY <1>3 DEF Viewing
<1>4. CASE at' = "names" /\ at \in {"parsed", "names"} /\ error' = error
  <2>1. (Understood(cert) <=> Understood(cert)') /\ Extensions' = Extensions
    BY <1>1 DEF Understood, Extensions
  <2>2. /\ Gathered(view', Seen') => Gathered(view, Seen)'
        /\ Gathered(view', Extensions') => Gathered(view, Extensions)'
    BY <1>1, GatheredStays
  <2> QED  BY <1>1, <1>4, <2>1, <2>2 DEF Viewing
<1> QED  BY <1>2, <1>3, <1>4

LEMMA ViewingInvariant == Spec => []Viewing
<1>1. Init => Viewing
  BY DEF Init, StoreInit, VerifyInit, LeafInit, NoCall, Viewing
<1>2. IInv /\ Viewing /\ [Next]_vars => Viewing'
  <2> SUFFICES ASSUME IInv, Viewing, [Next]_vars PROVE Viewing'
    OBVIOUS
  <2>1. CASE StoreStep
    <3>1. at' \in {"idle", "frame", "entries"}
      BY <2>1 DEF StoreStep, AddRefused, Add, AddReturns, Clear, LoadRefused, Load, EntryRefused,
             ReadEntry, AnchorRefused, AnchorAdded, OctetsLeft, Loaded, LoadFails, LoadReturns, Parse
    <3> QED  BY <3>1 DEF Viewing
  <2>2. CASE X509Step
    BY <2>2, ViewingParsed, ViewingNamed DEF X509Step
  <2>3. CASE UNCHANGED vars
    <3>1. UNCHANGED <<at, cert, block, pos, view, error>>
      BY <2>3 DEF vars, x509Vars
    <3>2. (Understood(cert) <=> Understood(cert)') /\ Extensions' = Extensions
      BY <3>1 DEF Understood, Extensions
    <3>3. /\ Gathered(view', Seen') => Gathered(view, Seen)'
          /\ Gathered(view', Extensions') => Gathered(view, Extensions)'
      BY <3>1, GatheredStays
    <3>4. Seen' = Seen
      BY <3>1, <3>2 DEF Seen
    <3> QED  BY <3>1, <3>2, <3>3, <3>4 DEF Viewing
  <2> QED  BY <2>1, <2>2, <2>3 DEF Next
<1> QED  BY <1>1, <1>2, Inductive, PTL DEF Spec

\* A certificate that the parser accepts has nothing in it that the parser does not
\* understand, and its view says of each extension given once just what it says; of one
\* that is repeated it holds no permission none gives and drops no path length.
THEOREM AcceptedAreUnderstood == Spec => []AcceptedIsUnderstood
<1>1. TypeOK /\ Viewing => AcceptedIsUnderstood
  <2> SUFFICES ASSUME TypeOK, Viewing, at \in {"parsed", "names"}, error = "OK"
               PROVE  AcceptedIsUnderstood
    BY DEF AcceptedIsUnderstood
  <2>1. Understood(cert) /\ view.key = cert.key /\ Gathered(view, Extensions) /\ view \in ViewSet
    BY DEF Viewing, TypeOK
  <2>2. \A x \in Extensions : Acceptable(At(x))
    BY <2>1 DEF Understood, Extensions, At
  <2>3. \A oid : Among(Extensions, oid) = Of(oid)
    BY DEF Among, Of
  <2>4. Of("malformed") = {} /\ \A x \in Of("other") : ~At(x).critical
    BY <2>2 DEF Of, Acceptable
  <2>5. ASSUME NEW x \in Extensions, Of(At(x).oid) = {x}
        PROVE  CASE At(x).oid = "san" -> view.names = At(x).names
                 [] At(x).oid = "bc"  -> view.ca = At(x).ca /\ view.path = At(x).path
                 [] At(x).oid = "ku"  ->
                      /\ view.digitalSignature <=> "digitalSignature" \in At(x).usages
                      /\ view.keyCertSign <=> "keyCertSign" \in At(x).usages
                 [] At(x).oid = "eku" -> view.serverAuth <=> "serverAuth" \in At(x).purposes
                 [] OTHER             -> TRUE
    <3>1. Says(view, x)
      BY <2>1, <2>3, <2>5 DEF Gathered
    <3> QED  BY <3>1 DEF Says
  <2>6. /\ view.san = (Of("san") # {}) /\ view.bc = (Of("bc") # {})
        /\ view.ku = (Of("ku") # {}) /\ view.eku = (Of("eku") # {})
    BY <2>1, <2>3 DEF Gathered, ViewSet
  <2>7. /\ view.path = {} => \A x \in Of("bc") : At(x).path = {}
        /\ view.ca => \E x \in Of("bc") : At(x).ca
        /\ view.digitalSignature => \E x \in Of("ku") : "digitalSignature" \in At(x).usages
        /\ view.keyCertSign => \E x \in Of("ku") : "keyCertSign" \in At(x).usages
        /\ view.serverAuth => \E x \in Of("eku") : "serverAuth" \in At(x).purposes
    BY <2>1, <2>3 DEF Gathered
  <2>8. cert.frame /\ cert.validity
    BY <2>1 DEF Understood
  <2> QED  BY <2>1, <2>4, <2>5, <2>6, <2>7, <2>8 DEF AcceptedIsUnderstood
<1>2. Spec => []TypeOK
  BY TypeCorrect
<1> QED  BY <1>1, <1>2, ViewingInvariant, PTL

=============================================================================
