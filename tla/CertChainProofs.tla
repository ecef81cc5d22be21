--------------------------- MODULE CertChainProofs ---------------------------
(***************************************************************************)
(* authenticate_server_flight() accepts authentic servers only, and every  *)
(* authentic one that sends a plain list, for every set of certificates,   *)
(* chain and list of anchors.  The invariant is what the checks passed so  *)
(* far have established: that they add up to a strict path, along the      *)
(* whole list and with every certificate counted (AnchoredIsPath).  Strict *)
(* paths are RFC 5280's where nothing is self-issued (StrictIsValid).      *)
(***************************************************************************)
EXTENDS CertChain, SequenceTheorems, FiniteSetTheorems, TLAPS

\* What the loops look for: a path along all of the list, with every CA certificate counted.
WholeTo(a) == IF Top = a THEN chain ELSE Append(chain, a)

StrictPath(p) ==
    /\ \A k \in 1..Len(p) : View[p[k]].parses /\ InTime(p[k]) /\ (View[p[k]].ca <=> k > 1)
    /\ \A k \in 2..Len(p) :
         /\ View[p[k - 1]].issuer = View[p[k]].subject /\ View[p[k - 1]].signer = View[p[k]].key
         /\ View[p[k]].mayCertify
         /\ View[p[k]].limited => k - 2 <= View[p[k]].path

HasStrictPath ==
    \E k \in 1..Len(anchors) :
        View[anchors[k]].ca /\ View[anchors[k]].mayCertify /\ StrictPath(WholeTo(anchors[k]))

Strict ==
    /\ Len(chain) \in 1..Entries
    /\ host \in Leaf.names /\ Leaf.serverUse
    /\ pin \in {"none", chain[1]}
    /\ HasStrictPath
    /\ proof.scheme = "of_leaf" /\ proof.signer = Leaf.key /\ proof.covers

InputOK == /\ chain \in Seq(Certs) /\ anchors \in Seq(Certs) /\ proof \in ProofSpace
           /\ host \in Hosts /\ pin \in Certs \cup {"none"}
           /\ \A k \in 1..Len(anchors) : View[anchors[k]].parses

LeafOK  == FlightError = "OK" /\ anchors # <<>> /\ pin \in {"none", chain[1]}
LinksOK == LeafOK /\ LeafFits /\ \A k \in 1..(Len(chain) - 1) : LinkHolds(k)

\* What has been established when the call is at each of its checks.
Passed ==
    /\ at = "leaf"    => FlightError = "OK"
    /\ at = "use"     => LeafOK
    /\ at = "links"   => /\ LeafOK /\ LeafFits /\ index \in 1..Len(chain)
                         /\ \A k \in 1..(index - 1) : LinkHolds(k)
    /\ at = "anchors" => /\ LinksOK /\ View[Top].parses
                         /\ index \in 1..(Len(anchors) + 1)
                         /\ \A k \in 1..(index - 1) : ~Anchored(anchors[k])
    /\ at = "proof"   => LinksOK /\ HasStrictPath
    /\ at = "done" <=> verdict # "none"
    /\ at = "done" => (verdict = "OK" <=> Strict)

IInv == InputOK /\ Passed /\ TypeOK

Usable(a) == View[a].ca /\ View[a].mayCertify /\ StrictPath(WholeTo(a))

-----------------------------------------------------------------------------
(* Paths *)

LEMMA ChainLength ==
    ASSUME InputOK, FlightError = "OK"
    PROVE  Len(chain) \in 1..Entries /\ Len(chain) \in Nat
<1>1. Len(chain) \in Nat /\ Len(chain) <= Entries /\ chain # <<>>
  BY DEF InputOK, FlightError, Entries
<1>2. Len(chain) \in 1..Entries
  <2>1. chain \in Seq(Certs)
    BY DEF InputOK
  <2>2. Len(chain) \in Nat \ {0}
    BY <2>1, <1>1, EmptySeq
  <2>3. \A m \in Nat \ {0} : m <= 8 => m \in 1..8
    OBVIOUS
  <2> QED BY <2>2, <2>3, <1>1 DEF Entries
<1> QED BY <1>1, <1>2

LEMMA PathShape ==
    ASSUME InputOK, FlightError = "OK", NEW a \in Certs
    PROVE  /\ Len(chain) \in 1..Entries /\ Len(chain) \in Nat
           /\ Top \in Certs
           /\ Top = a  => WholeTo(a) = chain
           /\ Top # a => /\ Len(WholeTo(a)) = Len(chain) + 1
                         /\ \A k \in 1..Len(chain) : WholeTo(a)[k] = chain[k]
                         /\ WholeTo(a)[Len(chain) + 1] = a
<1>2. Len(chain) \in 1..Entries /\ Len(chain) \in Nat
  BY ChainLength
<1>3. Top \in Certs
  BY <1>2 DEF Top, InputOK
<1>4. Top = a => WholeTo(a) = chain
  BY DEF WholeTo
<1>5. Top # a => /\ Len(WholeTo(a)) = Len(chain) + 1
                 /\ \A k \in 1..Len(chain) : WholeTo(a)[k] = chain[k]
                 /\ WholeTo(a)[Len(chain) + 1] = a
  BY <1>2 DEF WholeTo, InputOK
<1> QED BY <1>2, <1>3, <1>4, <1>5

\* The checks on a path, one certificate or pair at a time.
LEMMA AnchoredIsPath ==
    ASSUME InputOK, LinksOK, View[Top].parses, NEW a \in Certs, View[a].parses, Anchored(a)
    PROVE  Usable(a)
<1>0. FlightError = "OK"
  BY DEF LinksOK, LeafOK
<1> DEFINE n == Len(chain)
           p == WholeTo(a)
<1>1. n \in 1..Entries /\ n \in Nat /\ Top = chain[n]
  BY <1>0, PathShape DEF Entries, Top
<1>2. View[a].ca /\ View[a].mayCertify /\ InTime(a)
  BY DEF Anchored, MayCertify
<1>3. \A k \in 1..n : View[chain[k]].parses
  BY <1>1 DEF LinksOK, LinkHolds
<1>4. \A k \in 2..n : /\ View[chain[k]].ca /\ View[chain[k]].mayCertify /\ InTime(chain[k])
                      /\ Issued(chain[k], chain[k - 1])
                      /\ PathAllows(chain[k], k - 2)
  <2> SUFFICES ASSUME NEW k \in 2..n
               PROVE  /\ View[chain[k]].ca /\ View[chain[k]].mayCertify /\ InTime(chain[k])
                      /\ Issued(chain[k], chain[k - 1])
                      /\ PathAllows(chain[k], k - 2)
    OBVIOUS
  <2>1. k - 1 \in 1..(Len(chain) - 1) /\ (k - 1) + 1 = k /\ (k - 1) - 1 = k - 2
    BY <1>1
  <2>2. LinkHolds(k - 1)
    BY <2>1 DEF LinksOK
  <2> QED BY <2>1, <2>2 DEF LinkHolds, MayCertify
<1>5. InTime(chain[1]) /\ ~View[chain[1]].ca
  BY DEF LinksOK, LeafFits, Leaf
<1>6. CASE Top = a
  <2>1. p = chain
    BY <1>6, <1>0, PathShape
  <2>2. \A k \in 1..n : View[p[k]].parses /\ InTime(p[k]) /\ (View[p[k]].ca <=> k > 1)
    BY <2>1, <1>1, <1>3, <1>4, <1>5
  <2>3. \A k \in 2..n :
          /\ View[p[k - 1]].issuer = View[p[k]].subject /\ View[p[k - 1]].signer = View[p[k]].key
          /\ View[p[k]].mayCertify
          /\ View[p[k]].limited => k - 2 <= View[p[k]].path
    <3> SUFFICES ASSUME NEW k \in 2..n
                 PROVE  /\ View[p[k - 1]].issuer = View[p[k]].subject
                        /\ View[p[k - 1]].signer = View[p[k]].key
                        /\ View[p[k]].mayCertify
                        /\ View[p[k]].limited => k - 2 <= View[p[k]].path
      OBVIOUS
    <3>1. chain[k] \in Certs
      BY <1>1 DEF InputOK
    <3>2. View[chain[k]].path \in Nat
      BY <3>1, ChainAssumption DEF Views
    <3> QED BY <2>1, <1>4, <3>2 DEF Issued, PathAllows
  <2> QED BY <2>1, <2>2, <2>3, <1>2 DEF Usable, StrictPath
<1>7. CASE Top # a
  <2>1. Len(p) = n + 1 /\ (\A k \in 1..n : p[k] = chain[k]) /\ p[n + 1] = a
    BY <1>7, <1>0, PathShape
  <2>2. \A k \in 1..(n + 1) : View[p[k]].parses /\ InTime(p[k]) /\ (View[p[k]].ca <=> k > 1)
    <3> SUFFICES ASSUME NEW k \in 1..(n + 1)
                 PROVE  View[p[k]].parses /\ InTime(p[k]) /\ (View[p[k]].ca <=> k > 1)
      OBVIOUS
    <3>1. CASE k = 1 BY <3>1, <2>1, <1>1, <1>3, <1>5
    <3>2. CASE k \in 2..n BY <3>2, <2>1, <1>1, <1>3, <1>4
    <3>3. CASE k = n + 1 BY <3>3, <2>1, <1>1, <1>2
    <3> QED BY <3>1, <3>2, <3>3, <1>1
  <2>3. \A k \in 2..(n + 1) :
          /\ View[p[k - 1]].issuer = View[p[k]].subject /\ View[p[k - 1]].signer = View[p[k]].key
          /\ View[p[k]].mayCertify
          /\ View[p[k]].limited => k - 2 <= View[p[k]].path
    <3> SUFFICES ASSUME NEW k \in 2..(n + 1)
                 PROVE  /\ View[p[k - 1]].issuer = View[p[k]].subject
                        /\ View[p[k - 1]].signer = View[p[k]].key
                        /\ View[p[k]].mayCertify
                        /\ View[p[k]].limited => k - 2 <= View[p[k]].path
      OBVIOUS
    <3>1. CASE k \in 2..n
      <4>1. chain[k] \in Certs /\ p[k] = chain[k] /\ p[k - 1] = chain[k - 1]
        BY <3>1, <1>1, <2>1, SMTT(30) DEF InputOK
      <4>2. View[chain[k]].path \in Nat
        BY <4>1, ChainAssumption DEF Views
      <4> QED BY <4>1, <4>2, <3>1, <1>4 DEF Issued, PathAllows
    <3>2. CASE k = n + 1
      <4>1. p[k] = a /\ p[k - 1] = Top /\ k - 2 = n - 1
        BY <3>2, <1>1, <2>1
      <4>2. View[a].path \in Nat
        BY ChainAssumption DEF Views
      <4>3. Issued(a, Top) /\ PathAllows(a, n - 1)
        BY <1>7 DEF Anchored
      <4> QED BY <4>1, <4>2, <4>3, <1>1, <1>2 DEF Issued, PathAllows
    <3> QED BY <3>1, <3>2, <1>1
  <2> QED BY <2>1, <2>2, <2>3, <1>2 DEF Usable, StrictPath
<1> QED BY <1>6, <1>7

\* Conversely no check fails on a valid path.
LEMMA PathIsAnchored ==
    ASSUME InputOK, FlightError = "OK", NEW a \in Certs, Usable(a)
    PROVE  /\ InTime(chain[1]) /\ ~Leaf.ca
           /\ \A k \in 1..(Len(chain) - 1) : LinkHolds(k)
           /\ View[Top].parses
           /\ Anchored(a)
<1> DEFINE n == Len(chain)
           p == WholeTo(a)
<1>1. n \in 1..Entries /\ n \in Nat /\ Top = chain[n]
  BY PathShape DEF Entries, Top
<1>2. /\ Len(p) \in Nat /\ n <= Len(p)
      /\ \A k \in 1..n : p[k] = chain[k]
  BY <1>1, PathShape
<1>3. /\ \A k \in 1..Len(p) : View[p[k]].parses /\ InTime(p[k]) /\ (View[p[k]].ca <=> k > 1)
      /\ \A k \in 2..Len(p) :
           /\ View[p[k - 1]].issuer = View[p[k]].subject /\ View[p[k - 1]].signer = View[p[k]].key
           /\ View[p[k]].mayCertify
           /\ View[p[k]].limited => k - 2 <= View[p[k]].path
  BY DEF Usable, StrictPath
<1>4. \A k \in 1..n : View[chain[k]].parses /\ InTime(chain[k]) /\ (View[chain[k]].ca <=> k > 1)
  BY <1>1, <1>2, <1>3
<1>5. InTime(chain[1]) /\ ~Leaf.ca
  BY <1>1, <1>4 DEF Leaf
<1>6. \A k \in 1..(n - 1) : LinkHolds(k)
  <2> SUFFICES ASSUME NEW k \in 1..(n - 1)
               PROVE  LinkHolds(k)
    OBVIOUS
  <2>1. k \in 1..n /\ k + 1 \in 2..n /\ k + 1 \in 2..Len(p) /\ (k + 1) - 1 = k
        /\ k + 1 \in 1..n /\ (k + 1) - 2 = k - 1
    BY <1>1, <1>2
  <2>2. p[k] = chain[k] /\ p[k + 1] = chain[k + 1] /\ chain[k + 1] \in Certs
    BY <2>1, <1>2 DEF InputOK
  <2>3. View[chain[k + 1]].path \in Nat
    BY <2>2, ChainAssumption DEF Views
  <2>4. Issued(chain[k + 1], chain[k])
    BY <2>1, <2>2, <1>3 DEF Issued
  <2>5. MayCertify(chain[k + 1])
    BY <2>1, <2>2, <1>3, <1>4 DEF MayCertify
  <2>6. PathAllows(chain[k + 1], k - 1)
    <3>1. View[p[k + 1]].limited => (k + 1) - 2 <= View[p[k + 1]].path
      BY <2>1, <1>3
    <3> QED BY <3>1, <2>1, <2>2, <2>3 DEF PathAllows
  <2> QED BY <2>1, <2>4, <2>5, <2>6, <1>4 DEF LinkHolds
<1>7. View[Top].parses
  BY <1>1, <1>4
<1>8. CASE Top = a
  <2>1. p = chain
    BY <1>8, PathShape
  <2>2. n > 1
    <3>1. n \in 1..n /\ View[chain[n]].ca
      BY <1>1, <1>8 DEF Usable
    <3> QED BY <3>1, <1>4
  <2>3. n \in 2..Len(p) /\ p[n] = a
    <3>1. n \in 1..n /\ n \in 2..Len(p)
      BY <1>1, <1>2, <2>2
    <3> QED BY <3>1, <1>1, <1>2, <1>8
  <2>4. View[a].limited => n - 2 <= View[a].path
    BY <2>3, <1>3
  <2>5. View[a].path \in Nat
    BY ChainAssumption DEF Views
  <2>6. PathAllows(a, n - 2)
    BY <2>4, <2>5, <1>1 DEF PathAllows
  <2>7. MayCertify(a)
    <3>1. n \in 1..n
      BY <1>1
    <3> QED BY <3>1, <1>4, <1>1, <1>8 DEF MayCertify, Usable
  <2> QED BY <1>5, <1>6, <1>7, <1>8, <2>2, <2>6, <2>7, <1>1 DEF Anchored
<1>9. CASE Top # a
  <2>1. Len(p) = n + 1 /\ p[n + 1] = a
    BY <1>9, PathShape
  <2>2. n + 1 \in 2..Len(p) /\ (n + 1) - 1 = n /\ (n + 1) - 2 = n - 1 /\ n \in 1..n
        /\ n + 1 \in 1..Len(p)
    BY <1>1, <2>1
  <2>3. /\ View[p[(n + 1) - 1]].issuer = View[p[n + 1]].subject
        /\ View[p[(n + 1) - 1]].signer = View[p[n + 1]].key
        /\ View[p[n + 1]].limited => (n + 1) - 2 <= View[p[n + 1]].path
    BY <2>2, <1>3
  <2>4. Issued(a, Top)
    BY <2>1, <2>2, <2>3, <1>1, <1>2 DEF Issued
  <2>5. View[a].path \in Nat
    BY ChainAssumption DEF Views
  <2>6. PathAllows(a, n - 1)
    BY <2>1, <2>2, <2>3, <2>5, <1>1 DEF PathAllows
  <2>7. InTime(p[n + 1])
    BY <2>2, <1>3
  <2>8. MayCertify(a)
    BY <2>1, <2>7 DEF MayCertify, Usable
  <2> QED BY <1>5, <1>6, <1>7, <1>9, <2>4, <2>6, <2>8 DEF Anchored
<1> QED BY <1>8, <1>9

COROLLARY Converse ==
    ASSUME InputOK, FlightError = "OK", HasStrictPath
    PROVE  /\ InTime(chain[1]) /\ ~Leaf.ca
           /\ \A k \in 1..(Len(chain) - 1) : LinkHolds(k)
           /\ View[Top].parses
           /\ \E k \in 1..Len(anchors) : Anchored(anchors[k])
<1>1. PICK k \in 1..Len(anchors) : Usable(anchors[k])
  BY DEF HasStrictPath, Usable
<1>2. anchors[k] \in Certs
  BY ElementOfSeq DEF InputOK
<1> QED BY <1>1, <1>2, PathIsAnchored

-----------------------------------------------------------------------------
(* Strict paths and RFC 5280's *)

\* Counting: at most all of the certificates between the leaf and p[k] are not self-issued,
\* and exactly all where none is.
LEMMA CountIs ==
    ASSUME NEW p, NEW k \in Nat, k >= 2
    PROVE  /\ Cardinality({j \in 2..(k - 1) : ~SelfIssued(p[j])}) \in Nat
           /\ Cardinality({j \in 2..(k - 1) : ~SelfIssued(p[j])}) <= k - 2
           /\ (\A j \in 2..(k - 1) : ~SelfIssued(p[j])) =>
                Cardinality({j \in 2..(k - 1) : ~SelfIssued(p[j])}) = k - 2
<1> DEFINE I == 2..(k - 1)
           S == {j \in I : ~SelfIssued(p[j])}
<1>1. IsFiniteSet(I) /\ Cardinality(I) = k - 2
  <2>1. 2 \in Int /\ k - 1 \in Int
    OBVIOUS
  <2>2. IsFiniteSet(2..(k - 1)) /\ Cardinality(2..(k - 1)) = IF 2 > k - 1 THEN 0 ELSE (k - 1) - 2 + 1
    BY <2>1, FS_Interval
  <2>3. (IF 2 > k - 1 THEN 0 ELSE (k - 1) - 2 + 1) = k - 2
    OBVIOUS
  <2> QED BY <2>2, <2>3
<1>2. S \in SUBSET I
  OBVIOUS
<1>3. IsFiniteSet(S) /\ Cardinality(S) <= Cardinality(I)
  BY <1>1, <1>2, FS_Subset
<1>4. Cardinality(S) \in Nat
  BY <1>3, FS_CardinalityType
<1>5. (\A j \in I : ~SelfIssued(p[j])) => S = I
  OBVIOUS
<1> QED BY <1>1, <1>3, <1>4, <1>5

LEMMA WholeIs ==
    ASSUME InputOK, Len(chain) \in 1..Entries, NEW a \in Certs
    PROVE  /\ PathTo(Len(chain), a) = WholeTo(a)
           /\ WholeTo(a) \in Seq(Certs) /\ Len(WholeTo(a)) \in Nat
           /\ WholeTo(a)[1] = chain[1] /\ Len(WholeTo(a)) >= 1
           /\ WholeTo(a)[Len(WholeTo(a))] = a
<1>1. chain \in Seq(Certs) /\ Len(chain) \in Nat /\ Len(chain) >= 1
  <2>1. \A m \in 1..8 : m \in Nat /\ m >= 1
    OBVIOUS
  <2> QED BY <2>1 DEF InputOK, Entries
<1>2. SubSeq(chain, 1, Len(chain)) = chain
  <2> DEFINE t == SubSeq(chain, 1, Len(chain))
  <2>1. t \in Seq(Certs) /\ Len(t) = Len(chain) /\ \A i \in 1..Len(chain) : t[i] = chain[i]
    BY <1>1, SMTT(30)
  <2> HIDE DEF t
  <2> QED BY <2>1, <1>1, SeqEqual
<1>3. PathTo(Len(chain), a) = WholeTo(a)
  BY <1>2 DEF PathTo, WholeTo, Top
<1>4. CASE Top = a
  BY <1>1, <1>3, <1>4 DEF WholeTo, Top
<1>5. CASE Top # a
  <2>1. WholeTo(a) = Append(chain, a)
    BY <1>5 DEF WholeTo
  <2> QED BY <1>1, <1>3, <2>1
<1> QED BY <1>4, <1>5

\* A strict path to a usable anchor is one of RFC 5280.
LEMMA StrictIsValid ==
    ASSUME InputOK, Len(chain) \in 1..Entries, NEW a \in Certs, Usable(a)
    PROVE  ValidPath(PathTo(Len(chain), a))
<1> DEFINE p == WholeTo(a)
<1>1. /\ PathTo(Len(chain), a) = p /\ p \in Seq(Certs) /\ Len(p) \in Nat /\ Len(p) >= 1
      /\ p[Len(p)] = a
  BY WholeIs
<1> HIDE DEF p
<1>2. StrictPath(p) /\ View[a].ca
  BY DEF Usable, p
<1>3. Len(p) >= 2
  <2>1. Len(p) \in 1..Len(p)
    BY <1>1
  <2>2. Len(p) > 1
    BY <1>1, <1>2, <2>1 DEF StrictPath
  <2> QED BY <1>1, <2>2
<1>4. ASSUME NEW k \in 2..Len(p)
      PROVE  /\ View[p[k - 1]].issuer = View[p[k]].subject /\ View[p[k - 1]].signer = View[p[k]].key
             /\ View[p[k]].ca /\ View[p[k]].mayCertify
             /\ View[p[k]].limited =>
                  Cardinality({j \in 2..(k - 1) : ~SelfIssued(p[j])}) <= View[p[k]].path
  <2>1. k \in Nat /\ k >= 2 /\ k > 1 /\ k \in 1..Len(p)
    BY <1>1
  <2>2. View[p[k]].path \in Nat
    <3>1. p[k] \in Certs
      BY <1>1, <2>1, ElementOfSeq
    <3> QED BY <3>1, ChainAssumption DEF Views
  <2> DEFINE n == Cardinality({j \in 2..(k - 1) : ~SelfIssued(p[j])})
             m == View[p[k]].path
  <2>3. n \in Nat /\ n <= k - 2
    BY <2>1, CountIs
  <2>4. /\ View[p[k - 1]].issuer = View[p[k]].subject /\ View[p[k - 1]].signer = View[p[k]].key
        /\ View[p[k]].mayCertify /\ (View[p[k]].limited => k - 2 <= m)
    BY <1>2 DEF StrictPath
  <2>5. View[p[k]].ca
    BY <1>2, <2>1 DEF StrictPath
  <2> HIDE DEF n, m
  <2>6. k - 2 <= m => n <= m
    <3>1. m \in Nat
      BY <2>2 DEF m
    <3> QED BY <2>1, <2>3, <3>1
  <2> QED BY <2>4, <2>5, <2>6 DEF n, m
<1>5. ValidPath(p)
  BY <1>2, <1>3, <1>4 DEF ValidPath, StrictPath
<1> QED BY <1>1, <1>5

\* Conversely with nothing self-issued between the leaf and the anchor.
LEMMA ValidIsStrict ==
    ASSUME InputOK, Len(chain) \in 1..Entries, NEW a \in Certs, ~Leaf.ca,
           ValidPath(PathTo(Len(chain), a)),
           \A j \in 2..(Len(PathTo(Len(chain), a)) - 1) : ~SelfIssued(PathTo(Len(chain), a)[j])
    PROVE  Usable(a)
<1> DEFINE p == WholeTo(a)
<1>1. /\ PathTo(Len(chain), a) = p /\ p \in Seq(Certs) /\ Len(p) \in Nat
      /\ p[1] = chain[1] /\ p[Len(p)] = a
  BY WholeIs
<1> HIDE DEF p
<1>2. ValidPath(p) /\ (\A j \in 2..(Len(p) - 1) : ~SelfIssued(p[j])) /\ Len(p) >= 2
  BY <1>1 DEF ValidPath
<1>3. ASSUME NEW k \in 1..Len(p)
      PROVE  View[p[k]].parses /\ InTime(p[k]) /\ (View[p[k]].ca <=> k > 1)
  <2>1. View[p[k]].parses /\ InTime(p[k])
    BY <1>2 DEF ValidPath
  <2>2. CASE k = 1
    BY <2>1, <2>2, <1>1 DEF Leaf
  <2>3. CASE k # 1
    <3>1. k \in 2..Len(p) /\ k > 1
      BY <2>3, <1>1
    <3>2. View[p[k]].ca
      BY <1>2, <3>1 DEF ValidPath
    <3> QED BY <2>1, <3>1, <3>2
  <2> QED BY <2>2, <2>3
<1>4. ASSUME NEW k \in 2..Len(p)
      PROVE  View[p[k]].limited => k - 2 <= View[p[k]].path
  <2>1. k \in Nat /\ k >= 2 /\ \A j \in 2..(k - 1) : j \in 2..(Len(p) - 1)
    BY <1>1
  <2>2. \A j \in 2..(k - 1) : ~SelfIssued(p[j])
    BY <2>1, <1>2
  <2>3. Cardinality({j \in 2..(k - 1) : ~SelfIssued(p[j])}) = k - 2
    BY <2>1, <2>2, CountIs
  <2>4. View[p[k]].limited =>
          Cardinality({j \in 2..(k - 1) : ~SelfIssued(p[j])}) <= View[p[k]].path
    BY <1>2 DEF ValidPath
  <2> QED BY <2>3, <2>4
<1>5. StrictPath(p)
  BY <1>2, <1>3, <1>4 DEF StrictPath, ValidPath
<1>6. View[a].ca /\ View[a].mayCertify
  <2>1. Len(p) \in 2..Len(p)
    BY <1>1, <1>2
  <2> QED BY <1>1, <1>2, <2>1 DEF ValidPath
<1> QED BY <1>5, <1>6 DEF Usable, p

LEMMA StrictIsAuthentic ==
    ASSUME InputOK
    PROVE  /\ Strict => Authentic
           /\ Authentic /\ PlainList => Strict
<1>1. ASSUME Strict PROVE Authentic
  <2>1. Len(chain) \in 1..Entries /\ HasStrictPath
    BY <1>1 DEF Strict
  <2>2. PICK k \in 1..Len(anchors) : Usable(anchors[k])
    BY <2>1 DEF HasStrictPath, Usable
  <2>3. anchors[k] \in Certs
    BY ElementOfSeq DEF InputOK
  <2>4. ValidPath(PathTo(Len(chain), anchors[k]))
    BY <2>1, <2>2, <2>3, StrictIsValid
  <2>5. Len(chain) \in 1..Len(chain)
    <3>1. \A m \in 1..8 : m \in 1..m
      OBVIOUS
    <3> QED BY <3>1, <2>1 DEF Entries
  <2>6. HasPath
    BY <2>4, <2>5 DEF HasPath
  <2> QED BY <1>1, <2>6 DEF Strict, Authentic
<1>2. ASSUME Authentic, PlainList PROVE Strict
  <2>1. Len(chain) \in 1..Entries /\ ~Leaf.ca
    BY <1>2 DEF Authentic, PlainList
  <2>2. PICK k \in 1..Len(anchors) :
          /\ ValidPath(PathTo(Len(chain), anchors[k]))
          /\ \A j \in 2..(Len(PathTo(Len(chain), anchors[k])) - 1) :
               ~SelfIssued(PathTo(Len(chain), anchors[k])[j])
    BY <1>2 DEF PlainList
  <2>3. anchors[k] \in Certs
    BY ElementOfSeq DEF InputOK
  <2>4. Usable(anchors[k])
    BY <2>1, <2>2, <2>3, ValidIsStrict
  <2>5. HasStrictPath
    BY <2>4 DEF HasStrictPath, Usable
  <2> QED BY <1>2, <2>5 DEF Strict, Authentic
<1> QED BY <1>1, <1>2

-----------------------------------------------------------------------------
(* The call *)

LEMMA InitPassed == Init => IInv
<1> SUFFICES ASSUME Init PROVE IInv
  OBVIOUS
<1>1. chain \in Seq(Certs) /\ proof \in ProofSpace /\ host \in Hosts /\ pin \in Certs \cup {"none"}
  BY ChainAssumption DEF Init
<1>2. anchors \in Seq({c \in Certs : View[c].parses})
  BY ChainAssumption DEF Init
<1>3. anchors \in Seq(Certs)
  BY <1>2, SeqMonotonic
<1>4. \A k \in 1..Len(anchors) : View[anchors[k]].parses
  BY <1>2, ElementOfSeq
<1>5. InputOK
  BY <1>1, <1>3, <1>4 DEF InputOK
<1>6. Passed
  BY DEF Init, Passed
<1>7. TypeOK
  BY <1>1, <1>3 DEF Init, TypeOK
<1> QED BY <1>5, <1>6, <1>7 DEF IInv

\* The checks speak of the input only, which no step changes.
LEMMA InputStays ==
    ASSUME UNCHANGED input
    PROVE  /\ InputOK' <=> InputOK
           /\ FlightError' = FlightError /\ (LeafOK' <=> LeafOK)
           /\ LeafFits' <=> LeafFits
           /\ \A k : LinkHolds(k)' <=> LinkHolds(k)
           /\ LinksOK' <=> LinksOK
           /\ View[Top]'.parses <=> View[Top].parses
           /\ \A a : Anchored(a)' <=> Anchored(a)
           /\ HasStrictPath' <=> HasStrictPath
           /\ Strict' <=> Strict
<1>1. InputOK' <=> InputOK
  BY DEF input, InputOK
<1>2. FlightError' = FlightError /\ (LeafOK' <=> LeafOK)
  BY DEF input, FlightError, LeafOK, Leaf
<1>3. LeafFits' <=> LeafFits
  BY DEF input, LeafFits, Leaf, InTime
<1>4. \A k : LinkHolds(k)' <=> LinkHolds(k)
  BY DEF input, LinkHolds, Issued, MayCertify, PathAllows, InTime
<1>5. LinksOK' <=> LinksOK
  BY <1>2, <1>3, <1>4 DEF LinksOK, input
<1>6. View[Top]'.parses <=> View[Top].parses
  BY DEF input, Top
<1>7. \A a : Anchored(a)' <=> Anchored(a)
  BY DEF input, Anchored, Top, Issued, MayCertify, PathAllows, InTime
<1>8. HasStrictPath' <=> HasStrictPath
  BY DEF input, HasStrictPath, StrictPath, WholeTo, Top, InTime
<1>9. Strict' <=> Strict
  BY <1>8 DEF input, Strict, Leaf
<1> QED BY <1>1, <1>2, <1>3, <1>4, <1>5, <1>6, <1>7, <1>8, <1>9

\* What the parsers and the signature check may refuse with.
LEMMA Refusals ==
    ASSUME InputOK
    PROVE  /\ FlightError \in {"OK", "VERIFY", "BAD_HANDSHAKE", "UNSUPPORTED"}
           /\ ProofError \in {"OK", "VERIFY", "BAD_HANDSHAKE", "UNSUPPORTED"}
           /\ FlightError = "OK" => host \in Leaf.names
<1>1. proof.scheme \in {"of_leaf", "other_kind", "unknown"}
  BY DEF InputOK, ProofSpace
<1>2. proof.refusal \in {"VERIFY", "BAD_HANDSHAKE", "UNSUPPORTED"}
  BY DEF InputOK, ProofSpace
<1>3. ProofError \in {"OK", "VERIFY", "BAD_HANDSHAKE", "UNSUPPORTED"}
  BY <1>1, <1>2 DEF ProofError
<1>4. chain # <<>> => Leaf.refusal \in {"BAD_HANDSHAKE", "UNSUPPORTED"}
  <2> SUFFICES ASSUME chain # <<>> PROVE Leaf.refusal \in {"BAD_HANDSHAKE", "UNSUPPORTED"}
    OBVIOUS
  <2>1. chain \in Seq(Certs) /\ Len(chain) \in Nat \ {0}
    BY EmptySeq DEF InputOK
  <2>2. 1 \in 1..Len(chain)
    BY <2>1
  <2>3. chain[1] \in Certs
    BY <2>1, <2>2, ElementOfSeq
  <2>4. Leaf \in Views
    BY <2>3, ChainAssumption DEF Leaf
  <2> QED BY <2>4 DEF Views
<1>5. FlightError \in {"OK", "VERIFY", "BAD_HANDSHAKE", "UNSUPPORTED"}
  BY <1>4 DEF FlightError
<1>6. FlightError = "OK" => host \in Leaf.names
  BY <1>4 DEF FlightError
<1> QED BY <1>3, <1>5, <1>6

\* One lemma per check of the call.
LEMMA FlightPassed == IInv /\ ParseFlight => Passed'
<1> SUFFICES ASSUME IInv, ParseFlight PROVE Passed'
  OBVIOUS
<1>1. at = "flight" /\ UNCHANGED input
  BY DEF ParseFlight
<1>2. CASE FlightError = "OK"
  BY <1>1, <1>2, InputStays DEF ParseFlight, Goto, Passed, IInv
<1>3. CASE FlightError # "OK"
  <2>1. ASSUME Strict PROVE FALSE
    <3>1. chain \in Seq(Certs) /\ Len(chain) \in Nat /\ Len(chain) >= 1 /\ Len(chain) <= Entries
          /\ host \in Leaf.names
      <4>1. chain \in Seq(Certs) /\ Len(chain) \in 1..8 /\ host \in Leaf.names
        BY <2>1 DEF IInv, InputOK, Strict, Entries
      <4>2. \A m \in 1..8 : m \in Nat /\ m >= 1 /\ m <= 8
        OBVIOUS
      <4> QED BY <4>1, <4>2 DEF Entries
    <3>2. PICK k \in 1..Len(anchors) : StrictPath(WholeTo(anchors[k]))
      BY <2>1 DEF Strict, HasStrictPath
    <3>3. anchors[k] \in Certs
      BY ElementOfSeq DEF IInv, InputOK
    <3>4. Len(WholeTo(anchors[k])) >= 1 /\ WholeTo(anchors[k])[1] = chain[1]
      BY <3>1, <3>3 DEF WholeTo
    <3>5. 1 \in 1..Len(WholeTo(anchors[k]))
      BY <3>1, <3>3, <3>4 DEF WholeTo
    <3>6. Leaf.parses
      BY <3>2, <3>4, <3>5 DEF StrictPath, Leaf
    <3>7. chain # <<>>
      BY <3>1, EmptySeq
    <3>8. ~(Len(chain) > Entries)
      BY <3>1 DEF Entries
    <3> QED BY <1>3, <3>1, <3>6, <3>7, <3>8, Zenon DEF FlightError
  <2>2. FlightError \notin {"OK", "none"}
    BY <1>3, Refusals DEF IInv
  <2> QED BY <1>1, <1>3, <2>1, <2>2, InputStays DEF ParseFlight, Return, Passed, IInv
<1> QED BY <1>2, <1>3

LEMMA PinPassed == IInv /\ CheckPin => Passed'
<1> SUFFICES ASSUME IInv, CheckPin PROVE Passed'
  OBVIOUS
<1>1. at = "leaf" /\ UNCHANGED input /\ FlightError = "OK"
  BY DEF CheckPin, IInv, Passed
<1>2. CASE anchors # <<>> /\ pin \in {"none", chain[1]}
  BY <1>1, <1>2, InputStays DEF CheckPin, Goto, Passed, LeafOK, IInv
<1>3. CASE ~(anchors # <<>> /\ pin \in {"none", chain[1]})
  <2>1. ~Strict
    BY <1>3 DEF Strict, HasStrictPath
  <2> QED BY <1>1, <1>3, <2>1, InputStays DEF CheckPin, Return, Passed, IInv
<1> QED BY <1>2, <1>3

LEMMA LeafPassed == IInv /\ CheckLeaf => Passed'
<1> SUFFICES ASSUME IInv, CheckLeaf PROVE Passed'
  OBVIOUS
<1>1. at = "use" /\ UNCHANGED input /\ LeafOK /\ FlightError = "OK"
  BY DEF CheckLeaf, IInv, Passed, LeafOK
<1>2. CASE LeafFits
  <2>1. 1 \in 1..Len(chain)
    BY <1>1, ChainLength DEF IInv
  <2> QED BY <1>1, <1>2, <2>1, InputStays DEF CheckLeaf, Goto, Passed, IInv, input
<1>3. CASE ~LeafFits
  <2>1. ~Strict
    BY <1>1, <1>3, Converse DEF LeafFits, Strict, IInv
  <2> QED BY <1>1, <1>3, <2>1, InputStays DEF CheckLeaf, Return, Passed, IInv
<1> QED BY <1>2, <1>3

LEMMA LinkPassed == IInv /\ CheckLink => Passed'
<1> SUFFICES ASSUME IInv, CheckLink PROVE Passed'
  OBVIOUS
<1>1. /\ at = "links" /\ UNCHANGED input /\ LeafOK /\ LeafFits /\ FlightError = "OK"
      /\ index \in 1..Len(chain) /\ index < Len(chain) /\ Len(chain) \in Nat
      /\ \A k \in 1..(index - 1) : LinkHolds(k)
  BY ChainLength DEF CheckLink, IInv, Passed, LeafOK
<1>2. CASE LinkHolds(index)
  <2>1. index + 1 \in 1..Len(chain) /\ \A k \in 1..((index + 1) - 1) : LinkHolds(k)
    BY <1>1, <1>2
  <2> QED BY <1>1, <1>2, <2>1, InputStays DEF CheckLink, Goto, Passed, IInv, input
<1>3. CASE ~LinkHolds(index)
  <2>1. index \in 1..(Len(chain) - 1)
    BY <1>1
  <2>2. ~Strict
    BY <1>1, <1>3, <2>1, Converse DEF Strict, IInv
  <2> QED BY <1>1, <1>3, <2>2, InputStays DEF CheckLink, Return, Passed, IInv
<1> QED BY <1>2, <1>3

LEMMA TopPassed == IInv /\ ReachTop => Passed'
<1> SUFFICES ASSUME IInv, ReachTop PROVE Passed'
  OBVIOUS
<1>1. /\ at = "links" /\ UNCHANGED input /\ LinksOK /\ FlightError = "OK"
      /\ anchors \in Seq(Certs)
  BY DEF ReachTop, IInv, Passed, LeafOK, LinksOK, InputOK
<1>2. CASE View[Top].parses
  <2>1. 1 \in 1..(Len(anchors) + 1)
    BY <1>1
  <2> QED BY <1>1, <1>2, <2>1, InputStays DEF ReachTop, Goto, Passed, IInv, input
<1>3. CASE ~View[Top].parses
  <2>1. ~Strict
    BY <1>1, <1>3, Converse DEF Strict, IInv
  <2> QED BY <1>1, <1>3, <2>1, InputStays DEF ReachTop, Return, Passed, IInv
<1> QED BY <1>2, <1>3

LEMMA AnchorPassed == IInv /\ TryAnchor => Passed'
<1> SUFFICES ASSUME IInv, TryAnchor PROVE Passed'
  OBVIOUS
<1>1. /\ at = "anchors" /\ UNCHANGED input /\ LinksOK /\ View[Top].parses
      /\ anchors \in Seq(Certs) /\ index \in 1..(Len(anchors) + 1) /\ index <= Len(anchors)
      /\ \A k \in 1..(index - 1) : ~Anchored(anchors[k])
      /\ \A k \in 1..Len(anchors) : View[anchors[k]].parses
  BY DEF TryAnchor, IInv, Passed, InputOK
<1>2. Len(anchors) \in Nat /\ index \in 1..Len(anchors)
  BY <1>1
<1>3. CASE Anchored(anchors[index])
  <2>1. anchors[index] \in Certs
    BY <1>1, <1>2, ElementOfSeq
  <2>2. Usable(anchors[index])
    BY <1>1, <1>2, <1>3, <2>1, AnchoredIsPath DEF IInv
  <2>3. HasStrictPath
    BY <1>2, <2>2 DEF HasStrictPath, Usable
  <2> QED BY <1>1, <1>3, <2>3, InputStays DEF TryAnchor, Goto, Passed, IInv
<1>4. CASE ~Anchored(anchors[index])
  <2>1. index + 1 \in 1..(Len(anchors) + 1)
        /\ \A k \in 1..((index + 1) - 1) : ~Anchored(anchors[k])
    BY <1>1, <1>2, <1>4
  <2> QED BY <1>1, <1>4, <2>1, InputStays DEF TryAnchor, Goto, Passed, IInv, input
<1> QED BY <1>3, <1>4

LEMMA AnchorsPassed == IInv /\ NoAnchorLeft => Passed'
<1> SUFFICES ASSUME IInv, NoAnchorLeft PROVE Passed'
  OBVIOUS
<1>1. /\ at = "anchors" /\ UNCHANGED input /\ FlightError = "OK"
      /\ anchors \in Seq(Certs) /\ index \in 1..(Len(anchors) + 1) /\ index > Len(anchors)
      /\ \A k \in 1..(index - 1) : ~Anchored(anchors[k])
  BY DEF NoAnchorLeft, IInv, Passed, InputOK, LinksOK, LeafOK
<1>2. \A k \in 1..Len(anchors) : ~Anchored(anchors[k])
  BY <1>1
<1>3. ~Strict
  BY <1>1, <1>2, Converse DEF Strict, IInv
<1> QED BY <1>1, <1>3, InputStays DEF NoAnchorLeft, Return, Passed, IInv

LEMMA ProofPassed == IInv /\ CheckProof => Passed'
<1> SUFFICES ASSUME IInv, CheckProof PROVE Passed'
  OBVIOUS
<1>1. at = "proof" /\ UNCHANGED input /\ LinksOK /\ HasStrictPath
  BY DEF CheckProof, IInv, Passed
<1>2. FlightError = "OK" /\ LeafOK /\ LeafFits
  BY <1>1 DEF LinksOK, LeafOK
<1>3. Len(chain) \in 1..Entries /\ host \in Leaf.names
  BY <1>2, ChainLength, Refusals DEF IInv
<1>4. ProofError = "OK" <=>
        proof.scheme = "of_leaf" /\ proof.signer = Leaf.key /\ proof.covers
  <2>1. proof.scheme \in {"of_leaf", "other_kind", "unknown"} /\ proof.refusal # "OK"
    BY DEF IInv, InputOK, ProofSpace
  <2> QED BY <2>1 DEF ProofError
<1>5. ProofError = "OK" <=> Strict
  BY <1>1, <1>2, <1>3, <1>4 DEF Strict, LeafOK, LeafFits
<1>6. ProofError # "none"
  BY Refusals DEF IInv
<1> QED BY <1>1, <1>5, <1>6, InputStays DEF CheckProof, Return, Passed, IInv

LEMMA InvHolds == Spec => []IInv
<1>1. IInv /\ [Next]_vars => IInv'
  <2> SUFFICES ASSUME IInv, [Next]_vars PROVE IInv'
    OBVIOUS
  <2>1. CASE UNCHANGED vars
    <3>1. Passed'
      BY <2>1, InputStays DEF vars, IInv, Passed, input
    <3> QED BY <2>1, <3>1, InputStays DEF vars, IInv, input, TypeOK
  <2>2. CASE Next
    <3>1. Passed'
      BY <2>2, FlightPassed, PinPassed, LeafPassed, LinkPassed, TopPassed, AnchorPassed,
         AnchorsPassed, ProofPassed DEF Next
    <3>2. UNCHANGED input
      BY <2>2 DEF Next, ParseFlight, CheckPin, CheckLeaf, CheckLink, ReachTop, TryAnchor,
                  NoAnchorLeft, CheckProof
    <3>3. /\ at' \in {"flight", "leaf", "use", "links", "anchors", "proof", "done"}
          /\ index' \in Nat \ {0}
          /\ verdict' \in {"none", "OK", "VERIFY", "BAD_HANDSHAKE", "UNSUPPORTED"}
      BY <2>2, Refusals
         DEF Next, ParseFlight, CheckPin, CheckLeaf, CheckLink, ReachTop, TryAnchor,
                  NoAnchorLeft, CheckProof, Goto, Return, IInv, TypeOK
    <3>4. TypeOK'
      BY <3>2, <3>3 DEF IInv, TypeOK, input
    <3> QED BY <3>1, <3>2, <3>4, InputStays DEF IInv
  <2> QED BY <2>1, <2>2
<1> QED BY <1>1, InitPassed, PTL DEF Spec

\* Every variable keeps its type: a call reports one of its results.
THEOREM TypeCorrect == Spec => []TypeOK
<1>1. IInv => TypeOK
  BY DEF IInv
<1> QED BY <1>1, InvHolds, PTL

\* For every set of certificates and anchors, whatever a server sends, it is accepted only
\* with a valid path from its leaf to an anchor and the proof that it holds the leaf's key.
THEOREM AcceptedAreAuthentic == Spec => []AcceptsOnlyAuthentic
<1>1. IInv => AcceptsOnlyAuthentic
  BY StrictIsAuthentic DEF IInv, Passed, AcceptsOnlyAuthentic
<1> QED BY <1>1, InvHolds, PTL

\* And no authentic server that sends a plain list is turned away: one whose list is the
\* path itself, with nothing self-issued between its leaf and the anchor.
THEOREM RejectedAreOthers == Spec => []RejectsOnlyOthers
<1>1. IInv => RejectsOnlyOthers
  BY StrictIsAuthentic DEF IInv, Passed, RejectsOnlyOthers
<1> QED BY <1>1, InvHolds, PTL
=============================================================================
