--------------------------- MODULE RecordSendProofs ---------------------------
(***************************************************************************)
(* Theorems about RecordSend, for every limit, data and padding.           *)
(***************************************************************************)
EXTENDS RecordSend, SequenceTheorems, TLAPS

USE DEF HeaderSize

LEMMA Joined ==
    ASSUME NEW a \in Seq(Nat), NEW b \in Seq(Nat)
    PROVE  /\ a \o b \in Seq(Nat) /\ Len(a \o b) = Len(a) + Len(b)
           /\ \A i \in 1..Len(a) : (a \o b)[i] = a[i]
           /\ \A i \in 1..Len(b) : (a \o b)[Len(a) + i] = b[i]
<1>1. Len(a) \in Nat /\ Len(b) \in Nat
  BY LenProperties
<1>2. /\ a \o b \in Seq(Nat) /\ Len(a \o b) = Len(a) + Len(b)
      /\ \A i \in 1..(Len(a) + Len(b)) :
            (a \o b)[i] = IF i <= Len(a) THEN a[i] ELSE b[i - Len(a)]
  BY ConcatProperties
<1>3. \A i \in 1..Len(a) : i \in 1..(Len(a) + Len(b)) /\ i <= Len(a)
  BY <1>1
<1>4. \A i \in 1..Len(b) : /\ Len(a) + i \in 1..(Len(a) + Len(b)) /\ ~(Len(a) + i <= Len(a))
                          /\ (Len(a) + i) - Len(a) = i
  BY <1>1
<1> QED
  BY <1>2, <1>3, <1>4

-----------------------------------------------------------------------------
(* What is protected can be unprotected *)

\* A record octet by octet: header, content, content type, padding, tag.
Spelled(r, type, content, pad, s) ==
    /\ r \in Seq(Nat) /\ Len(r) = 2 + FragmentLength(Len(content), pad)
    /\ r[1] = ApplicationData /\ r[2] = FragmentLength(Len(content), pad)
    /\ \A i \in 1..Len(content) : r[2 + i] = content[i]
    /\ r[3 + Len(content)] = type
    /\ \A i \in 1..pad : r[3 + Len(content) + i] = 0
    /\ \A i \in 1..TagSize : r[3 + Len(content) + pad + i] = s

LEMMA ProtectedIs ==
    ASSUME NEW type \in Nat, NEW content \in Seq(Nat), NEW pad \in Nat, NEW s \in Nat
    PROVE  Spelled(Protected(type, content, pad, s), type, content, pad, s)
<1> DEFINE n    == Len(content)
           h    == <<ApplicationData, FragmentLength(n, pad)>>
           t    == [i \in 1..TagSize |-> s]
           a    == content \o <<type>>
           b    == a \o Zeros(pad)
           r    == Protected(type, content, pad, s)
<1>0. n \in Nat /\ TagSize \in Nat
  BY FormatAssumption, LenProperties
<1>1. FragmentLength(n, pad) = n + 1 + pad + TagSize /\ FragmentLength(n, pad) \in Nat
  BY <1>0 DEF FragmentLength
<1>2. h \in Seq(Nat) /\ Len(h) = 2 /\ h[1] = ApplicationData /\ h[2] = FragmentLength(n, pad)
  BY <1>1 DEF ApplicationData
<1>3. t \in Seq(Nat) /\ Len(t) = TagSize /\ \A i \in 1..TagSize : t[i] = s
  BY <1>0
<1>4. /\ Zeros(pad) \in Seq(Nat) /\ Len(Zeros(pad)) = pad
      /\ \A i \in 1..pad : Zeros(pad)[i] = 0
  BY DEF Zeros
<1>5. <<type>> \in Seq(Nat) /\ Len(<<type>>) = 1 /\ <<type>>[1] = type
  OBVIOUS
<1>6. a \in Seq(Nat) /\ Len(a) = n + 1 /\ a[n + 1] = type /\ \A i \in 1..n : a[i] = content[i]
  BY <1>5, <1>0, ConcatProperties
<1> HIDE DEF a, h, t
<1>7. /\ b \in Seq(Nat) /\ Len(b) = n + 1 + pad
      /\ \A i \in 1..(n + 1) : b[i] = a[i]
      /\ \A i \in 1..pad : b[n + 1 + i] = 0
  <2>1. /\ b \in Seq(Nat) /\ Len(b) = Len(a) + Len(Zeros(pad))
        /\ \A i \in 1..Len(a) : b[i] = a[i]
        /\ \A i \in 1..Len(Zeros(pad)) : b[Len(a) + i] = Zeros(pad)[i]
    BY <1>6, <1>4, Joined
  <2> HIDE DEF b
  <2> QED
    BY <2>1, <1>6, <1>4
<1> HIDE DEF b
<1> DEFINE c == h \o b
<1>8. /\ c \in Seq(Nat) /\ Len(c) = 3 + n + pad
      /\ c[1] = h[1] /\ c[2] = h[2] /\ \A i \in 1..(n + 1 + pad) : c[2 + i] = b[i]
  <2>1. /\ c \in Seq(Nat) /\ Len(c) = Len(h) + Len(b)
        /\ \A i \in 1..Len(h) : c[i] = h[i]
        /\ \A i \in 1..Len(b) : c[Len(h) + i] = b[i]
    BY <1>2, <1>7, Joined
  <2>2. 1 \in 1..2 /\ 2 \in 1..2 /\ 2 + (n + 1 + pad) = 3 + n + pad
    BY <1>0
  <2> HIDE DEF c
  <2> QED
    BY <2>1, <2>2, <1>2, <1>7
<1>9. r = c \o t
  BY DEF Protected, Inner, c, b, a, h, t
<1> HIDE DEF c, n, r
<1>10. /\ r \in Seq(Nat) /\ Len(r) = 3 + n + pad + TagSize
       /\ \A i \in 1..(3 + n + pad) : r[i] = c[i]
       /\ \A i \in 1..TagSize : r[3 + n + pad + i] = t[i]
  <2>1. /\ c \o t \in Seq(Nat) /\ Len(c \o t) = Len(c) + Len(t)
        /\ \A i \in 1..Len(c) : (c \o t)[i] = c[i]
        /\ \A i \in 1..Len(t) : (c \o t)[Len(c) + i] = t[i]
    BY <1>8, <1>3, Joined
  <2> QED
    BY <2>1, <1>9, <1>8, <1>3
<1>11. Len(r) = 2 + FragmentLength(n, pad)
  BY <1>10, <1>1, <1>0
<1>12. r[1] = ApplicationData /\ r[2] = FragmentLength(n, pad)
  BY <1>10, <1>8, <1>2, <1>0
<1>13. \A i \in 1..n : r[2 + i] = content[i]
  BY <1>10, <1>8, <1>7, <1>6, <1>0
<1>14. r[3 + n] = type
  <2>1. r[3 + n] = c[2 + (n + 1)]
    BY <1>10, <1>0
  <2> QED
    BY <2>1, <1>8, <1>7, <1>6, <1>0
<1>15. ASSUME NEW i \in 1..pad PROVE r[3 + n + i] = 0
  <2>1. r[3 + n + i] = c[2 + (n + 1 + i)]
    BY <1>10, <1>0
  <2>2. c[2 + (n + 1 + i)] = b[n + 1 + i]
    <3> DEFINE j == n + 1 + i
    <3>1. j \in 1..(n + 1 + pad)
      BY <1>0
    <3> HIDE DEF j
    <3>2. c[2 + j] = b[j]
      BY <3>1, <1>8
    <3> QED
      BY <3>2 DEF j
  <2> QED
    BY <2>1, <2>2, <1>7
<1>16. \A i \in 1..TagSize : r[3 + n + pad + i] = s
  BY <1>10, <1>3
<1> QED
  BY <1>10, <1>11, <1>12, <1>13, <1>14, <1>15, <1>16 DEF n, r, Spelled

\* The scan over the padding stops at the content type, whatever content and padding.
LEMMA ScanStops ==
    ASSUME NEW plain \in Seq(Nat), NEW n \in Nat, n < Len(plain), plain[n + 1] # 0,
           \A i \in (n + 2)..Len(plain) : plain[i] = 0
    PROVE  TypeIndex(plain) = n + 1
<1>0. Len(plain) \in Nat
  BY LenProperties
<1>1. n + 1 \in NonZeros(plain)
  BY <1>0 DEF NonZeros
<1>2. ASSUME NEW j \in NonZeros(plain) PROVE j <= n + 1 /\ j \in Nat
  BY <1>2, <1>0 DEF NonZeros
<1>3. ASSUME NEW i \in NonZeros(plain), \A j \in NonZeros(plain) : j <= i PROVE i = n + 1
  BY <1>1, <1>2, <1>3
<1> DEFINE Last(i) == \A j \in NonZeros(plain) : j <= i
<1>4. TypeIndex(plain) = CHOOSE i \in NonZeros(plain) : Last(i)
  BY <1>1 DEF TypeIndex
<1>5. Last(n + 1)
  BY <1>2
<1>6. \A i \in NonZeros(plain) : Last(i) => i = n + 1
  BY <1>3
<1> HIDE DEF Last
<1> QED
  BY <1>1, <1>4, <1>5, <1>6

\* The peer gets the content back from a record that fits.
LEMMA RoundTrip ==
    ASSUME NEW type \in ContentTypes, NEW content \in Seq(Nat), NEW pad \in Nat, NEW s \in Nat,
           FragmentLength(Len(content), pad) <= MaxFragment
    PROVE  /\ UnprotectError(Protected(type, content, pad, s), s) = "OK"
           /\ ContentOf(PlainOf(Protected(type, content, pad, s))) = content
<1> DEFINE n     == Len(content)
           r     == Protected(type, content, pad, s)
           plain == PlainOf(r)
<1>0. n \in Nat /\ TagSize \in Nat /\ TagSize > 0 /\ MaxFragment \in Nat
  BY FormatAssumption, LenProperties
<1>1. type \in Nat /\ type # 0
  BY DEF ContentTypes
<1>2. /\ r \in Seq(Nat) /\ Len(r) = 2 + FragmentLength(n, pad)
      /\ r[2] = FragmentLength(n, pad)
      /\ \A i \in 1..n : r[2 + i] = content[i]
      /\ r[3 + n] = type
      /\ \A i \in 1..pad : r[3 + n + i] = 0
      /\ \A i \in 1..TagSize : r[3 + n + pad + i] = s
  <2>1. Spelled(r, type, content, pad, s)
    BY <1>1, ProtectedIs
  <2> QED
    BY <2>1 DEF Spelled
<1> HIDE DEF r
<1>3. LengthOf(r) = n + 1 + pad + TagSize
  BY <1>2 DEF LengthOf, FragmentLength
<1>4. plain = SubSeq(r, 3, 3 + n + pad)
  BY <1>3, <1>0 DEF PlainOf
<1>4a. 3 \in 1..(Len(r) + 1) /\ 3 + n + pad \in 2..Len(r)
  BY <1>2, <1>0 DEF FragmentLength
<1>4b. \A i \in 3..(3 + n + pad) : r[i] \in Nat
  BY <1>2, <1>4a, <1>0, ElementOfSeq, SMTT(30)
<1>5. /\ plain \in Seq(Nat) /\ Len(plain) = n + 1 + pad
      /\ \A i \in 1..(n + 1 + pad) : plain[i] = r[2 + i]
  <2>1. /\ plain \in Seq(Nat) /\ Len(plain) = 3 + n + pad - 3 + 1
        /\ \A i \in 1..(3 + n + pad - 3 + 1) : plain[i] = r[3 + i - 1]
    BY <1>4, <1>4a, <1>4b, <1>0, SubSeqProperties
  <2> QED
    BY <2>1, <1>0
<1> HIDE DEF plain, n
<1>6. plain[n + 1] = type /\ \A i \in 1..n : plain[i] = content[i]
  <2>1. plain[n + 1] = r[2 + (n + 1)] /\ 2 + (n + 1) = 3 + n
    BY <1>5, <1>0
  <2>2. \A i \in 1..n : plain[i] = r[2 + i]
    BY <1>5, <1>0
  <2> QED
    BY <2>1, <2>2, <1>2
<1>7. ASSUME NEW i \in (n + 2)..Len(plain) PROVE plain[i] = 0
  <2> DEFINE k == i - n - 1
  <2>1. k \in 1..pad /\ i = n + 1 + k /\ i \in 1..(n + 1 + pad) /\ 2 + i = 3 + n + k
    BY <1>5, <1>0
  <2>2. plain[i] = r[2 + i]
    BY <2>1, <1>5
  <2>3. r[3 + n + k] = 0
    BY <2>1, <1>2
  <2> QED
    BY <2>1, <2>2, <2>3
<1>8. TypeIndex(plain) = n + 1
  <2>1. n < Len(plain)
    BY <1>5, <1>0
  <2> QED
    BY <2>1, <1>5, <1>6, <1>7, <1>1, <1>0, ScanStops, Zenon
<1>9. TypeOf(plain) = type
  BY <1>8, <1>6 DEF TypeOf
<1>10. ContentOf(plain) = content
  <2>1. ContentOf(plain) = SubSeq(plain, 1, n)
    BY <1>8, <1>0 DEF ContentOf
  <2>2. 1 \in 1..(Len(plain) + 1) /\ n \in 0..Len(plain)
    BY <1>5, <1>0
  <2>3. \A i \in 1..n : plain[i] \in Nat
    BY <1>5, <2>2, <1>0, ElementOfSeq
  <2>4. /\ ContentOf(plain) \in Seq(Nat) /\ Len(ContentOf(plain)) = n
        /\ \A i \in 1..n : ContentOf(plain)[i] = plain[i]
    BY <2>1, <2>2, <2>3, <1>5, <1>0, SubSeqProperties
  <2> QED
    BY <2>4, <1>6, SeqEqual DEF n
<1>11. Verifies(r, s)
  <2> SUFFICES ASSUME NEW i \in (LengthOf(r) - TagSize + 1)..LengthOf(r) PROVE r[2 + i] = s
    BY DEF Verifies
  <2> DEFINE k == i - n - 1 - pad
  <2>1. k \in 1..TagSize /\ 2 + i = 3 + n + pad + k
    BY <1>3, <1>0
  <2> QED
    BY <2>1, <1>2
<1>12. ~(LengthOf(r) < TagSize + 1) /\ ~(LengthOf(r) - TagSize > PlainCapacity)
  BY <1>3, <1>0 DEF PlainCapacity, FragmentLength, n
<1>13. UnprotectError(r, s) = "OK"
  BY <1>12, <1>11, <1>8, <1>9, <1>0 DEF UnprotectError, plain
<1> QED
  BY <1>13, <1>10 DEF plain, r

-----------------------------------------------------------------------------
(* What is on the way *)

Written    == Len(socket) + Len(record)
OctetAt(k) == IF k <= Len(socket) THEN socket[k] ELSE record[k - Len(socket)]

\* The octets of Data after the first a up to the bth, as the record with number s.
RecordOf(a, b, s) == Protected(ApplicationData, SubSeq(Data, a + 1, b), ClampedPadding, s)
SizeOf(a, b)      == 2 + FragmentLength(b - a, ClampedPadding)

\* n records are on the way: c are the places in Data where they are cut, e their ends
\* in the octets on the way.
Cut(n, c) ==
    /\ c \in [0..n -> 0..submitted] /\ c[0] = Len(peerGot)
    /\ \A i, j \in 0..n : i <= j => c[i] <= c[j]
    /\ \A i \in 1..n : ProtectError(c[i] - c[i - 1], ClampedPadding) = "OK"
EndsAt(n, c, e) ==
    /\ e \in [0..n -> Nat] /\ e[0] = 0
    /\ \A i, j \in 0..n : i <= j => e[i] <= e[j]
    /\ \A i \in 1..n : e[i] = e[i - 1] + SizeOf(c[i - 1], c[i])
Filled(n, c, e) ==
    \A i \in 1..n : \A k \in 1..SizeOf(c[i - 1], c[i]) :
        e[i - 1] + k <= Written =>
            OctetAt(e[i - 1] + k) = RecordOf(c[i - 1], c[i], peerSeq + i - 1)[k]
\* Of a connection that has failed the last records may be missing or cut short.
Current(n, c, e) ==
    /\ Written <= e[n]
    /\ state = "CONNECTED" =>
          /\ e[n] = Written /\ seq = peerSeq + n
          /\ todo = SubSeq(Data, c[n] + 1, submitted)
Wire(n, c, e) == Cut(n, c) /\ EndsAt(n, c, e) /\ Filled(n, c, e) /\ Current(n, c, e)
OnTheWay == \E n \in Nat : \E c \in [0..n -> Nat], e \in [0..n -> Nat] : Wire(n, c, e)

\* The state between and in the calls.  A chunk that is not the last of its call was as
\* long as ChunkLimit allows, so that if the first was not refused none will be.
Calls ==
    /\ calling => state = "CONNECTED"
    /\ ~calling => todo = <<>> /\ record = <<>>
    /\ calling => todo = <<>> \/ todo = SubSeq(Data, begun + 1, submitted) \/ ChunkLimit <= MaxContent

Delivered == peerGot = SubSeq(Data, 1, Len(peerGot)) /\ Len(peerGot) <= submitted

IInv == TypeOK /\ PeerRefusesNothing /\ Calls /\ Delivered /\ OnTheWay

-----------------------------------------------------------------------------
(* Parts of sequences and the chunk of a step *)

LEMMA Part ==
    ASSUME NEW s \in Seq(Nat), NEW a \in 0..Len(s), NEW b \in a..Len(s)
    PROVE  /\ SubSeq(s, a + 1, b) \in Seq(Nat) /\ Len(SubSeq(s, a + 1, b)) = b - a
           /\ \A i \in 1..(b - a) : SubSeq(s, a + 1, b)[i] = s[a + i]
<1> DEFINE m == a + 1
<1>0. Len(s) \in Nat /\ a \in Nat /\ b \in Nat /\ a <= b
  BY LenProperties
<1>1. m \in 1..(Len(s) + 1) /\ b \in (m - 1)..Len(s)
  BY <1>0
<1>2. \A i \in m..b : s[i] \in Nat
  BY <1>0, ElementOfSeq
<1>3. /\ SubSeq(s, m, b) \in Seq(Nat)
      /\ Len(SubSeq(s, m, b)) = b - m + 1
      /\ \A i \in 1..(b - m + 1) : SubSeq(s, m, b)[i] = s[m + i - 1]
  <2> HIDE DEF m
  <2> QED
    BY <1>1, <1>2, <1>0, SubSeqProperties
<1>4. b - m + 1 = b - a /\ \A i \in 1..(b - a) : m + i - 1 = a + i
  BY <1>0
<1> QED
  BY <1>3, <1>4

LEMMA PartOfPart ==
    ASSUME NEW s \in Seq(Nat), NEW a \in 0..Len(s), NEW b \in a..Len(s),
           NEW c \in 0..(b - a), NEW d \in c..(b - a)
    PROVE  SubSeq(SubSeq(s, a + 1, b), c + 1, d) = SubSeq(s, a + c + 1, a + d)
<1> DEFINE t == SubSeq(s, a + 1, b)
           u == SubSeq(t, c + 1, d)
           v == SubSeq(s, (a + c) + 1, a + d)
<1>0. /\ Len(s) \in Nat /\ {a, b, c, d} \subseteq Nat /\ a + c \in 0..Len(s)
      /\ a + d \in (a + c)..Len(s) /\ (a + d) - (a + c) = d - c
  BY LenProperties
<1>1. t \in Seq(Nat) /\ Len(t) = b - a /\ \A i \in 1..(b - a) : t[i] = s[a + i]
  BY Part
<1> HIDE DEF t
<1>2. u \in Seq(Nat) /\ Len(u) = d - c /\ \A i \in 1..(d - c) : u[i] = t[c + i]
  BY <1>1, Part, SMTT(30)
<1>3. v \in Seq(Nat) /\ Len(v) = d - c /\ \A i \in 1..(d - c) : v[i] = s[(a + c) + i]
  <2> DEFINE x == a + c  y == a + d
  <2>1. x \in 0..Len(s) /\ y \in x..Len(s) /\ y - x = d - c
    BY <1>0
  <2> HIDE DEF x, y
  <2>2. /\ SubSeq(s, x + 1, y) \in Seq(Nat) /\ Len(SubSeq(s, x + 1, y)) = y - x
        /\ \A i \in 1..(y - x) : SubSeq(s, x + 1, y)[i] = s[x + i]
    BY <2>1, Part
  <2> QED
    BY <2>1, <2>2 DEF x, y
<1>4. ASSUME NEW i \in 1..(d - c) PROVE u[i] = v[i]
  <2>1. c + i \in 1..(b - a) /\ a + (c + i) = (a + c) + i
    BY <1>0
  <2> HIDE DEF u, v
  <2> QED
    BY <2>1, <1>1, <1>2, <1>3
<1>5. u = v
  <2> HIDE DEF u, v
  <2> QED
    BY <1>2, <1>3, <1>4, SeqEqual
<1> QED
  BY <1>5 DEF t

\* The beginning and the rest of a sequence.
LEMMA TakeDrop ==
    ASSUME NEW s \in Seq(Nat), NEW n \in 0..Len(s)
    PROVE  /\ Take(s, n) \in Seq(Nat) /\ Len(Take(s, n)) = n
           /\ \A i \in 1..n : Take(s, n)[i] = s[i]
           /\ Drop(s, n) \in Seq(Nat) /\ Len(Drop(s, n)) = Len(s) - n
           /\ \A i \in 1..(Len(s) - n) : Drop(s, n)[i] = s[n + i]
<1>0. Len(s) \in Nat /\ 0 \in 0..Len(s) /\ n \in 0..Len(s) /\ Len(s) \in n..Len(s)
  BY LenProperties
<1>1. /\ SubSeq(s, 0 + 1, n) \in Seq(Nat) /\ Len(SubSeq(s, 0 + 1, n)) = n - 0
      /\ \A i \in 1..(n - 0) : SubSeq(s, 0 + 1, n)[i] = s[0 + i]
  BY <1>0, Part
<1>2. /\ SubSeq(s, n + 1, Len(s)) \in Seq(Nat) /\ Len(SubSeq(s, n + 1, Len(s))) = Len(s) - n
      /\ \A i \in 1..(Len(s) - n) : SubSeq(s, n + 1, Len(s))[i] = s[n + i]
  BY <1>0, Part
<1>3. 0 + 1 = 1 /\ n - 0 = n /\ \A i \in 1..n : 0 + i = i
  BY <1>0
<1> QED
  BY <1>1, <1>2, <1>3 DEF Take, Drop

LEMMA DataType == Data \in Seq(Nat) /\ Len(Data) \in Nat
<1>1. Data \in Seq(0..255)
  BY SendAssumption
<1>2. 0..255 \subseteq Nat
  OBVIOUS
<1>3. Data \in Seq(Nat)
  BY <1>1, <1>2, SeqMonotonic, Zenon
<1> QED
  BY <1>3, LenProperties

LEMMA PaddingIs ==
    ASSUME padding \in Paddings
    PROVE  /\ ClampedPadding \in 0..MaxPadding
           /\ ChunkLimit \in Nat \ {0}
           /\ ChunkLimit = MaxFragment - TagSize - 1 - ClampedPadding
<1>1. padding \in Nat
  BY SendAssumption
<1>2. ClampedPadding \in 0..MaxPadding
  BY <1>1, FormatAssumption DEF ClampedPadding, Least
<1> QED
  BY <1>2, FormatAssumption DEF ChunkLimit

\* A chunk is a beginning of what is to be sent, and only its content can be too long.
LEMMA ChunkIs ==
    ASSUME padding \in Paddings, todo \in Seq(Nat), todo # <<>>
    PROVE  /\ Chunk = SubSeq(todo, 1, Len(Chunk))
           /\ Len(Chunk) \in 1..Len(todo) /\ Len(todo) \in Nat
           /\ Len(Chunk) = Len(todo) \/ Len(Chunk) = ChunkLimit
           /\ ProtectError(Len(Chunk), ClampedPadding) # "OK" =>
                 /\ ProtectError(Len(Chunk), ClampedPadding) = "BAD_RECORD"
                 /\ Len(Chunk) > MaxContent /\ ChunkLimit > MaxContent
<1> DEFINE m == Least(Len(todo), ChunkLimit)
<1>0. Len(todo) \in Nat /\ Len(todo) # 0
  BY LenProperties, EmptySeq
<1>1. /\ ClampedPadding \in 0..MaxPadding /\ ChunkLimit \in Nat \ {0}
      /\ ChunkLimit = MaxFragment - TagSize - 1 - ClampedPadding
  BY PaddingIs
<1>2. m \in 1..Len(todo) /\ (m = Len(todo) \/ m = ChunkLimit) /\ m <= ChunkLimit
  BY <1>0, <1>1 DEF Least
<1>3. Chunk = Take(todo, m)
  BY DEF Chunk
<1>4. m \in 0..Len(todo)
  BY <1>2
<1> HIDE DEF m
<1>5. Len(Chunk) = m
  BY <1>3, <1>4, TakeDrop
<1>6. Chunk = SubSeq(todo, 1, Len(Chunk))
  BY <1>3, <1>5 DEF Take
<1>7. FragmentLength(m, ClampedPadding) <= MaxFragment
  BY <1>1, <1>2, FormatAssumption DEF FragmentLength
<1>8. ASSUME ProtectError(m, ClampedPadding) # "OK"
      PROVE  /\ ProtectError(m, ClampedPadding) = "BAD_RECORD"
             /\ m > MaxContent /\ ChunkLimit > MaxContent
  <2>1. ~(ClampedPadding > MaxPadding)
    BY <1>1, FormatAssumption
  <2>2. m \in Nat /\ FragmentLength(m, ClampedPadding) \in Nat /\ MaxFragment \in Nat
    BY <1>0, <1>1, <1>2, FormatAssumption DEF FragmentLength
  <2>3. ~(FragmentLength(m, ClampedPadding) > MaxFragment)
    BY <2>2, <1>7
  <2>4. ProtectError(m, ClampedPadding) = "BAD_RECORD" /\ m > MaxContent
    BY <1>8, <2>1, <2>3, Zenon DEF ProtectError
  <2> QED
    BY <2>4, <2>2, <1>1, <1>2, FormatAssumption
<1> QED
  BY <1>0, <1>2, <1>5, <1>6, <1>8

-----------------------------------------------------------------------------
(* The invariant holds at first and in every step *)

LEMMA Sizes ==
    ASSUME padding \in Paddings, NEW a \in Nat, NEW b \in Nat, a <= b
    PROVE  SizeOf(a, b) \in Nat /\ SizeOf(a, b) > 3
<1>1. ClampedPadding \in Nat
  BY PaddingIs
<1> QED
  BY <1>1, FormatAssumption DEF SizeOf, FragmentLength

LEMMA InitHolds == Init => IInv
<1> SUFFICES ASSUME Init PROVE IInv
  OBVIOUS
<1>0. <<>> \in Seq(Nat) /\ Len(<<>>) = 0
  OBVIOUS
<1>1. TypeOK
  <2>1. submitted \in 0..Len(Data) /\ begun \in 0..submitted /\ seq \in Nat /\ peerSeq \in Nat
    BY DataType DEF Init
  <2>2. {todo, record, socket, peerGot} \subseteq Seq(Nat)
    BY <1>0 DEF Init
  <2> QED
    BY <2>1, <2>2 DEF Init, TypeOK
<1>2. PeerRefusesNothing /\ Calls
  BY DEF Init, PeerRefusesNothing, Calls
<1>3. SubSeq(Data, 1, 0) = <<>>
  <2>1. /\ SubSeq(Data, 0 + 1, 0) \in Seq(Nat) /\ Len(SubSeq(Data, 0 + 1, 0)) = 0 - 0
    BY DataType, Part
  <2> QED
    BY <2>1, EmptySeq
<1>4. Delivered
  BY <1>3 DEF Init, Delivered
<1>5. OnTheWay
  <2> DEFINE z == [i \in 0..0 |-> 0]
  <2>1. z \in [0..0 -> 0..0] /\ z \in [0..0 -> Nat] /\ z[0] = 0
    OBVIOUS
  <2>2. Cut(0, z)
    BY <2>1 DEF Cut, Init
  <2>3. EndsAt(0, z, z)
    BY <2>1 DEF EndsAt
  <2>4. Filled(0, z, z)
    BY DEF Filled
  <2>5. Current(0, z, z)
    BY <2>1, <1>3, <1>0 DEF Current, Init, Written
  <2> HIDE DEF z
  <2> QED
    BY <2>1, <2>2, <2>3, <2>4, <2>5 DEF OnTheWay, Wire
<1> QED
  BY <1>1, <1>2, <1>4, <1>5 DEF IInv

\* Steps that end a call with an error leave what the socket took as it is.
LEMMA FailHolds ==
    ASSUME IInv, NEW err \in {"BAD_RECORD", "CRYPTO", "IO"}, Fail(err),
           UNCHANGED <<padding, seq, submitted, begun, socket, peerVars>>
    PROVE  IInv'
<1> USE DEF IInv
<1>0. <<>> \in Seq(Nat) /\ Len(<<>>) = 0
  OBVIOUS
<1>1. TypeOK'
  BY <1>0 DEF TypeOK, Fail, peerVars
<1>2. PeerRefusesNothing' /\ Calls' /\ Delivered'
  BY DEF PeerRefusesNothing, Calls, Delivered, Fail, peerVars
<1>3. OnTheWay'
  <2>1. PICK n \in Nat : \E c \in [0..n -> Nat], e \in [0..n -> Nat] : Wire(n, c, e)
    BY DEF OnTheWay
  <2>2. PICK c \in [0..n -> Nat], e \in [0..n -> Nat] : Wire(n, c, e)
    BY <2>1
  <2>3. Len(socket) \in Nat /\ Len(record) \in Nat
    BY LenProperties DEF TypeOK
  <2>4. Written' = Len(socket) /\ Written' <= Written
    BY <2>3, <1>0 DEF Written, Fail
  <2>5. Cut(n, c)' /\ EndsAt(n, c, e)'
    BY <2>2 DEF Wire, Cut, EndsAt, ClampedPadding, SizeOf, ProtectError, peerVars
  <2>6. Filled(n, c, e)'
    <3> SUFFICES ASSUME NEW i \in 1..n, NEW k \in 1..SizeOf(c[i - 1], c[i])',
                        (e[i - 1] + k <= Written)'
                 PROVE  (OctetAt(e[i - 1] + k) = RecordOf(c[i - 1], c[i], peerSeq + i - 1)[k])'
      BY DEF Filled
    <3> DEFINE p == e[i - 1] + k
    <3>1. SizeOf(c[i - 1], c[i])' = SizeOf(c[i - 1], c[i])
      BY DEF SizeOf, ClampedPadding
    <3>2. RecordOf(c[i - 1], c[i], peerSeq + i - 1)' = RecordOf(c[i - 1], c[i], peerSeq + i - 1)
      BY DEF RecordOf, ClampedPadding, peerVars
    <3>3. c[i - 1] \in Nat /\ c[i] \in Nat /\ c[i - 1] <= c[i] /\ e[i - 1] \in Nat
      BY <2>2 DEF Wire, Cut, EndsAt
    <3>4. k \in Nat
      BY <3>1, <3>3, Sizes DEF TypeOK
    <3>5. p <= Len(socket) /\ p <= Written
      BY <2>3, <2>4, <3>3, <3>4, SMTT(30) DEF Written
    <3>6. OctetAt(p) = RecordOf(c[i - 1], c[i], peerSeq + i - 1)[k]
      BY <2>2, <3>1, <3>5 DEF Wire, Filled
    <3>7. OctetAt(p)' = OctetAt(p)
      BY <3>5 DEF OctetAt
    <3> QED
      BY <3>2, <3>6, <3>7
  <2>7. Current(n, c, e)'
    <3>1. Written <= e[n] /\ e[n] \in Nat
      BY <2>2 DEF Wire, Current
    <3>2. Written' <= e[n]
      BY <3>1, <2>4, <2>3 DEF Written
    <3> QED
      BY <3>2 DEF Current, Fail
  <2> QED
    BY <2>5, <2>6, <2>7 DEF OnTheWay, Wire
<1> QED
  BY <1>1, <1>2, <1>3

LEMMA SendHolds == ASSUME IInv, NEW m \in 0..(Len(Data) - submitted), Send(m) PROVE IInv'
<1> USE DEF IInv
<1>0. /\ Data \in Seq(Nat) /\ Len(Data) \in Nat /\ submitted \in 0..Len(Data) /\ m \in Nat
      /\ submitted + m \in submitted..Len(Data)
  BY DataType DEF TypeOK
<1>1. /\ todo' = SubSeq(Data, submitted + 1, submitted + m) /\ todo' \in Seq(Nat)
      /\ submitted' = submitted + m /\ begun' = submitted
      /\ calling' = TRUE /\ state = "CONNECTED" /\ todo = <<>> /\ record = <<>>
      /\ UNCHANGED <<state, result, padding, seq, record, socket, peerVars>>
  BY <1>0, Part DEF Send, Calls
<1>2. TypeOK'
  BY <1>0, <1>1 DEF TypeOK, peerVars
<1>3. PeerRefusesNothing' /\ Calls'
  BY <1>1 DEF PeerRefusesNothing, Calls, peerVars
<1>4. Delivered'
  <2>1. Len(peerGot) \in Nat
    BY LenProperties DEF TypeOK
  <2> QED
    BY <1>0, <1>1, <2>1 DEF Delivered, peerVars
<1>5. OnTheWay'
  <2>1. PICK n \in Nat : \E c \in [0..n -> Nat], e \in [0..n -> Nat] : Wire(n, c, e)
    BY DEF OnTheWay
  <2>2. PICK c \in [0..n -> Nat], e \in [0..n -> Nat] : Wire(n, c, e)
    BY <2>1
  <2>3. c[n] \in 0..submitted /\ c \in [0..n -> 0..submitted]
    BY <2>2 DEF Wire, Cut
  <2>4. c[n] = submitted
    <3>1. SubSeq(Data, c[n] + 1, submitted) = <<>>
      BY <2>2, <1>1 DEF Wire, Current
    <3>2. c[n] \in 0..Len(Data) /\ submitted \in c[n]..Len(Data)
      BY <2>3, <1>0
    <3>3. Len(SubSeq(Data, c[n] + 1, submitted)) = submitted - c[n]
      BY <3>2, <1>0, Part
    <3> QED
      <4>1. Len(<<>>) = 0
        OBVIOUS
      <4>2. submitted - c[n] = 0
        BY <3>1, <3>3, <4>1
      <4> QED
        BY <4>2, <2>3, <1>0
  <2>5. c \in [0..n -> 0..submitted']
    <3>1. 0..submitted \subseteq 0..submitted'
      BY <1>0, <1>1
    <3> QED
      BY <3>1, <2>3
  <2>6. Cut(n, c)'
    BY <2>2, <2>5, <1>1 DEF Wire, Cut, ClampedPadding, peerVars
  <2>7. EndsAt(n, c, e)' /\ Filled(n, c, e)'
    BY <2>2, <1>1 DEF Wire, EndsAt, Filled, SizeOf, ClampedPadding, Written, OctetAt, RecordOf,
                      peerVars
  <2>8. Current(n, c, e)'
    BY <2>2, <2>4, <1>1 DEF Wire, Current, Written, peerVars
  <2> QED
    BY <2>6, <2>7, <2>8 DEF OnTheWay, Wire
<1> QED
  BY <1>2, <1>3, <1>4, <1>5

\* A further record is behind those on the way.
LEMMA ProtectHolds == ASSUME IInv, ProtectChunk PROVE IInv'
<1> USE DEF IInv
<1> DEFINE d == Len(Chunk)
<1>0. /\ Data \in Seq(Nat) /\ Len(Data) \in Nat /\ submitted \in 0..Len(Data)
      /\ padding \in Paddings /\ todo \in Seq(Nat) /\ todo # <<>> /\ record = <<>>
      /\ calling = TRUE /\ state = "CONNECTED" /\ seq \in Nat
      /\ ProtectError(d, ClampedPadding) = "OK"
      /\ record' = Protected(ApplicationData, Chunk, ClampedPadding, seq)
      /\ seq' = seq + 1 /\ todo' = Drop(todo, d)
      /\ UNCHANGED <<state, result, padding, calling, submitted, begun, socket, peerVars>>
  BY DataType DEF TypeOK, ProtectChunk, AtChunk, Calls
<1>1. /\ Chunk = SubSeq(todo, 1, d) /\ d \in 1..Len(todo) /\ Len(todo) \in Nat
      /\ d = Len(todo) \/ d = ChunkLimit
  BY <1>0, ChunkIs
<1>2. ClampedPadding \in Nat /\ ApplicationData \in Nat /\ ClampedPadding' = ClampedPadding
  BY <1>0, PaddingIs DEF ApplicationData, ClampedPadding
<1>3. Chunk \in Seq(Nat)
  <2>1. SubSeq(todo, 0 + 1, d) \in Seq(Nat)
    BY <1>0, <1>1, Part
  <2> QED
    BY <1>1, <2>1
<1> HIDE DEF d
<1>4. Spelled(record', ApplicationData, Chunk, ClampedPadding, seq)
  BY <1>0, <1>2, <1>3, ProtectedIs
<1>5. todo' \in Seq(Nat) /\ Len(todo') = Len(todo) - d
  <2>1. d \in 0..Len(todo)
    BY <1>1
  <2> QED
    BY <2>1, <1>0, TakeDrop
<1>6. TypeOK'
  <2>1. record' \in Seq(Nat)
    BY <1>4 DEF Spelled
  <2> QED
    BY <1>0, <1>5, <2>1 DEF TypeOK, peerVars
<1>7. PeerRefusesNothing' /\ Delivered'
  BY <1>0 DEF PeerRefusesNothing, Delivered, peerVars
<1>8. Calls'
  <2>1. ChunkLimit' = ChunkLimit /\ ChunkLimit \in Nat
    BY <1>0, <1>2, PaddingIs DEF ChunkLimit
  <2>2. d <= MaxContent /\ MaxContent \in Nat
    BY <1>0, <1>1, FormatAssumption DEF ProtectError
  <2>3. todo' = <<>> \/ ChunkLimit <= MaxContent
    <3>1. CASE d = Len(todo)
      BY <3>1, <1>5, <1>1, EmptySeq
    <3>2. CASE d = ChunkLimit
      BY <3>2, <2>2
    <3> QED
      BY <3>1, <3>2, <1>1
  <2> QED
    BY <1>0, <2>1, <2>3 DEF Calls
<1>9. OnTheWay'
  <2>1. PICK n \in Nat : \E c \in [0..n -> Nat], e \in [0..n -> Nat] : Wire(n, c, e)
    BY DEF OnTheWay
  <2>2. PICK c \in [0..n -> Nat], e \in [0..n -> Nat] : Wire(n, c, e)
    BY <2>1
  <2>2a. c[n] \in Nat /\ c[n] + d \in Nat
    BY <1>1
  <2>2b. PICK a \in Nat : a = c[n]
    BY <2>2a
  <2>2c. PICK b \in Nat : b = a + d
    BY <2>2a, <2>2b
  <2>3. /\ c \in [0..n -> 0..submitted] /\ c[0] = Len(peerGot)
        /\ \A i, j \in 0..n : i <= j => c[i] <= c[j]
        /\ \A i \in 1..n : ProtectError(c[i] - c[i - 1], ClampedPadding) = "OK"
    BY <2>2 DEF Wire, Cut
  <2>4. /\ e[0] = 0
        /\ \A i, j \in 0..n : i <= j => e[i] <= e[j]
        /\ \A i \in 1..n : e[i] = e[i - 1] + SizeOf(c[i - 1], c[i])
    BY <2>2 DEF Wire, EndsAt
  <2>5. /\ e[n] = Written /\ seq = peerSeq + n
        /\ todo = SubSeq(Data, a + 1, submitted)
    BY <2>2, <2>2b, <1>0 DEF Wire, Current
  <2>6. a \in 0..submitted /\ submitted \in Nat
    BY <2>2b, <2>3, <1>0
  <2>7. Len(todo) = submitted - a
    <3>1. a \in 0..Len(Data) /\ submitted \in a..Len(Data)
      BY <2>6, <1>0
    <3> QED
      BY <3>1, <2>5, <1>0, Part
  <2>8. a \in Nat /\ b \in a..submitted /\ b - a = d /\ b \in Nat
    BY <2>2c, <2>6, <2>7, <1>1
  <2>9. Chunk = SubSeq(Data, a + 1, b) /\ todo' = SubSeq(Data, b + 1, submitted)
    <3>1. a \in 0..Len(Data) /\ submitted \in a..Len(Data)
      BY <2>6, <1>0
    <3>2. 0 \in 0..(submitted - a) /\ d \in 0..(submitted - a) /\ submitted - a \in d..(submitted - a)
      BY <2>6, <2>7, <1>1
    <3>3. SubSeq(todo, 0 + 1, d) = SubSeq(Data, a + 0 + 1, a + d)
      BY <3>1, <3>2, <2>5, <1>0, PartOfPart
    <3>4. SubSeq(todo, d + 1, submitted - a) = SubSeq(Data, a + d + 1, a + (submitted - a))
      BY <3>1, <3>2, <2>5, <1>0, PartOfPart
    <3>5. a + 0 + 1 = a + 1 /\ 0 + 1 = 1 /\ a + (submitted - a) = submitted /\ a + d = b
      BY <2>6, <2>2c
    <3>6. todo' = SubSeq(todo, d + 1, submitted - a)
      BY <1>0, <2>7 DEF Drop
    <3> QED
      BY <3>3, <3>4, <3>5, <3>6, <1>1
  <2>10. SizeOf(a, b) \in Nat /\ Len(record') = SizeOf(a, b)
    BY <1>4, <1>2, <2>8, <1>0, Sizes DEF Spelled, SizeOf, d
  <2>11. record' = RecordOf(a, b, seq)
    BY <1>0, <2>9 DEF RecordOf
  <2>12. Len(socket) \in Nat /\ Len(record) = 0
    BY <1>0, LenProperties DEF TypeOK
  <2>13. Written = Len(socket) /\ Written' = Len(socket) + SizeOf(a, b) /\ e[n] = Len(socket)
    BY <2>12, <2>10, <2>5, <1>0 DEF Written
  <2>14. PICK c2 \in [0..(n + 1) -> Nat] :
               /\ c2 \in [0..(n + 1) -> 0..submitted]
               /\ \A i \in 0..n : c2[i] = c[i]
               /\ c2[n + 1] = b
    <3> DEFINE f == [i \in 0..(n + 1) |-> IF i = n + 1 THEN b ELSE c[i]]
    <3>1. ASSUME NEW i \in 0..(n + 1) PROVE (IF i = n + 1 THEN b ELSE c[i]) \in 0..submitted
      BY <2>3, <2>8, <2>6
    <3>2. ASSUME NEW i \in 0..(n + 1) PROVE (IF i = n + 1 THEN b ELSE c[i]) \in Nat
      BY <3>1, <2>6
    <3>3. /\ f \in [0..(n + 1) -> 0..submitted] /\ f \in [0..(n + 1) -> Nat]
          /\ f[n + 1] = b /\ \A i \in 0..n : f[i] = c[i]
      BY <3>1, <3>2
    <3> HIDE DEF f
    <3> QED
      BY <3>3
  <2>15. PICK e2 \in [0..(n + 1) -> Nat] :
               /\ \A i \in 0..n : e2[i] = e[i]
               /\ e2[n + 1] = e[n] + SizeOf(a, b)
    <3> DEFINE f == [i \in 0..(n + 1) |-> IF i = n + 1 THEN e[n] + SizeOf(a, b) ELSE e[i]]
    <3>1. ASSUME NEW i \in 0..(n + 1)
          PROVE (IF i = n + 1 THEN e[n] + SizeOf(a, b) ELSE e[i]) \in Nat
      BY <2>10, <2>13, <2>12, SMTT(30)
    <3>2. /\ f \in [0..(n + 1) -> Nat] /\ f[n + 1] = e[n] + SizeOf(a, b)
          /\ \A i \in 0..n : f[i] = e[i]
      BY <3>1
    <3> HIDE DEF f
    <3> QED
      BY <3>2
  <2>16. a = c[n]
    BY <2>2b
  <2>17. Cut(n + 1, c2)'
    <3>1. c2[0] = Len(peerGot)
      BY <2>14, <2>3
    <3>2. \A i, j \in 0..(n + 1) : i <= j => c2[i] <= c2[j]
      <4> SUFFICES ASSUME NEW i \in 0..(n + 1), NEW j \in 0..(n + 1), i <= j PROVE c2[i] <= c2[j]
        OBVIOUS
      <4>1. CASE j \in 0..n
        <5>1. i \in 0..n
          BY <4>1
        <5> QED
          BY <5>1, <4>1, <2>14, <2>3
      <4>2. CASE j = n + 1 /\ i = n + 1
        BY <4>2, <2>14, <2>8
      <4>3. CASE j = n + 1 /\ i \in 0..n
        <5>1. c[i] <= c[n] /\ c[i] \in 0..submitted
          BY <4>3, <2>3
        <5> QED
          BY <5>1, <4>3, <2>14, <2>16, <2>8
      <4> QED
        BY <4>1, <4>2, <4>3
    <3>3. ASSUME NEW i \in 1..(n + 1) PROVE ProtectError(c2[i] - c2[i - 1], ClampedPadding) = "OK"
      <4>1. CASE i \in 1..n
        BY <4>1, <2>14, <2>3
      <4>2. CASE i = n + 1
        BY <4>2, <2>14, <2>16, <2>8, <1>0
      <4> QED
        BY <4>1, <4>2
    <3> QED
      BY <3>1, <3>2, <3>3, <2>14, <1>2, <1>0 DEF Cut, peerVars, ProtectError
  <2>18. ASSUME NEW i \in 1..(n + 1)
         PROVE  /\ SizeOf(c2[i - 1], c2[i])' = SizeOf(c2[i - 1], c2[i])
                /\ e2[i] = e2[i - 1] + SizeOf(c2[i - 1], c2[i])
    <3>1. SizeOf(c2[i - 1], c2[i])' = SizeOf(c2[i - 1], c2[i])
      BY <1>2 DEF SizeOf
    <3>2. CASE i \in 1..n
      <4>1. i \in 0..n /\ i - 1 \in 0..n
        BY <3>2
      <4> QED
        BY <4>1, <3>1, <3>2, <2>4, <2>14, <2>15
    <3>3. CASE i = n + 1
      <4>1. i - 1 = n /\ n \in 0..n
        BY <3>3
      <4> QED
        BY <4>1, <3>3, <3>1, <2>14, <2>15, <2>16
    <3> QED
      BY <3>2, <3>3
  <2>19. EndsAt(n + 1, c2, e2)'
    <3>1. e2[0] = 0
      BY <2>15, <2>4
    <3>2. \A i, j \in 0..(n + 1) : i <= j => e2[i] <= e2[j]
      <4> SUFFICES ASSUME NEW i \in 0..(n + 1), NEW j \in 0..(n + 1), i <= j PROVE e2[i] <= e2[j]
        OBVIOUS
      <4>1. CASE j \in 0..n
        <5>1. i \in 0..n
          BY <4>1
        <5> QED
          BY <5>1, <4>1, <2>15, <2>4
      <4>2. CASE j = n + 1 /\ i = n + 1
        BY <4>2, <2>15
      <4>3. CASE j = n + 1 /\ i \in 0..n
        <5>1. e[i] <= e[n] /\ e[i] \in Nat /\ e[n] \in Nat
          BY <4>3, <2>4, <2>2
        <5> QED
          BY <5>1, <4>3, <2>15, <2>10, SMTT(30)
      <4> QED
        BY <4>1, <4>2, <4>3
    <3> QED
      BY <3>1, <3>2, <2>18, <2>15 DEF EndsAt
  <2>20. Filled(n + 1, c2, e2)'
    <3> SUFFICES ASSUME NEW i \in 1..(n + 1), NEW k \in 1..SizeOf(c2[i - 1], c2[i])'
                 PROVE  OctetAt(e2[i - 1] + k)'
                           = RecordOf(c2[i - 1], c2[i], peerSeq + i - 1)'[k]
      BY DEF Filled
    <3>0. k \in 1..SizeOf(c2[i - 1], c2[i])
      BY <2>18
    <3>1. RecordOf(c2[i - 1], c2[i], peerSeq + i - 1)' = RecordOf(c2[i - 1], c2[i], peerSeq + i - 1)
      BY <1>0, <1>2 DEF RecordOf, peerVars
    <3>2. CASE i \in 1..n
      <4> DEFINE p == e[i - 1] + k
      <4>1. i \in 0..n /\ i - 1 \in 0..n
        BY <3>2
      <4>2. /\ e2[i - 1] = e[i - 1] /\ c2[i - 1] = c[i - 1] /\ c2[i] = c[i]
            /\ e[i - 1] \in Nat /\ c[i - 1] \in Nat /\ c[i] \in Nat /\ c[i - 1] <= c[i]
        BY <4>1, <2>14, <2>15, <2>2, <2>3
      <4>3. SizeOf(c[i - 1], c[i]) \in Nat
        BY <4>2, <1>0, Sizes
      <4>4. p <= e[i] /\ e[i] <= e[n] /\ e[i] \in Nat
        <5> DEFINE z == SizeOf(c[i - 1], c[i])
        <5>1. z \in Nat /\ k \in 1..z /\ e[i] = e[i - 1] + z
          BY <4>3, <3>0, <3>2, <4>2, <2>4
        <5>2. e[i] \in Nat /\ e[i] <= e[n]
          <6>1. n \in 0..n /\ i <= n
            BY <3>2
          <6> QED
            BY <6>1, <4>1, <2>4
        <5> HIDE DEF z
        <5> QED
          BY <5>1, <5>2, <4>2
      <4>5. p \in Nat /\ p <= Len(socket) /\ p <= Written
        <5>1. k \in Nat /\ e[n] = Len(socket) /\ Written = Len(socket)
          BY <3>0, <4>2, <4>3, <2>13
        <5>2. \A x, y \in Nat : x + y \in Nat
          OBVIOUS
        <5>3. p \in Nat
          BY <5>1, <5>2, <4>2, Zenon
        <5>4. e[i] <= Len(socket) /\ Len(socket) \in Nat
          BY <5>1, <4>4, <2>12
        <5> HIDE DEF p
        <5>5. p <= e[i] /\ e[i] \in Nat
          BY <4>4
        <5>6. \A x, y, z \in Nat : x <= y /\ y <= z => x <= z
          OBVIOUS
        <5> QED
          BY <5>1, <5>3, <5>4, <5>5, <5>6, Zenon
      <4>6. OctetAt(p) = RecordOf(c[i - 1], c[i], peerSeq + i - 1)[k]
        BY <4>5, <4>2, <3>0, <3>2, <2>2 DEF Wire, Filled
      <4>7. OctetAt(p)' = OctetAt(p)
        BY <4>5, <1>0 DEF OctetAt
      <4> QED
        BY <4>6, <4>7, <4>2, <3>1
    <3>3. CASE i = n + 1
      <4>1. i - 1 = n /\ n \in 0..n /\ peerSeq + i - 1 = seq
        BY <3>3, <2>5 DEF TypeOK
      <4>2. e2[i - 1] = Len(socket) /\ c2[i - 1] = a /\ c2[i] = b
        BY <4>1, <3>3, <2>13, <2>14, <2>15, <2>16
      <4>3. k \in Nat /\ k > 0
        BY <3>0, <4>2, <2>10
      <4>4. ~(Len(socket) + k <= Len(socket)) /\ (Len(socket) + k) - Len(socket) = k
        BY <4>3, <2>12
      <4>5. OctetAt(e2[i - 1] + k)' = record'[k]
        BY <4>4, <4>2, <1>0 DEF OctetAt
      <4> QED
        BY <4>5, <4>1, <4>2, <3>1, <2>11
    <3> QED
      BY <3>2, <3>3
  <2>21. Current(n + 1, c2, e2)'
    <3>1. e2[n + 1] = Written' /\ Written' \in Nat
      BY <2>13, <2>15, <2>12, <2>10
    <3>2. seq' = peerSeq + (n + 1)
      BY <1>0, <2>5 DEF TypeOK
    <3> QED
      BY <3>1, <3>2, <2>9, <2>14, <1>0 DEF Current, peerVars
  <2> QED
    <3>1. Wire(n + 1, c2, e2)'
      BY <2>17, <2>19, <2>20, <2>21 DEF Wire
    <3>2. n + 1 \in Nat
      OBVIOUS
    <3> QED
      BY <3>1, <3>2, <2>14, <2>15 DEF OnTheWay
<1> QED
  BY <1>6, <1>7, <1>8, <1>9

\* The socket takes octets; what is on the way stays the same.
LEMMA SocketHolds == ASSUME IInv, NEW m \in 1..Len(record), SocketTakes(m) PROVE IInv'
<1> USE DEF IInv
<1>0. /\ socket \in Seq(Nat) /\ record \in Seq(Nat) /\ Len(socket) \in Nat /\ Len(record) \in Nat
      /\ record # <<>> /\ socket' = socket \o Take(record, m) /\ record' = Drop(record, m)
      /\ m \in 0..Len(record) /\ m \in Nat
      /\ UNCHANGED <<state, result, padding, seq, calling, todo, submitted, begun, peerVars>>
  BY LenProperties DEF TypeOK, SocketTakes
<1>1. /\ Take(record, m) \in Seq(Nat) /\ Len(Take(record, m)) = m
      /\ \A i \in 1..m : Take(record, m)[i] = record[i]
      /\ record' \in Seq(Nat) /\ Len(record') = Len(record) - m
      /\ \A i \in 1..(Len(record) - m) : record'[i] = record[m + i]
  BY <1>0, TakeDrop
<1>2. /\ socket' \in Seq(Nat) /\ Len(socket') = Len(socket) + m
      /\ \A i \in 1..Len(socket) : socket'[i] = socket[i]
      /\ \A i \in 1..m : socket'[Len(socket) + i] = record[i]
  <2>1. /\ socket \o Take(record, m) \in Seq(Nat)
        /\ Len(socket \o Take(record, m)) = Len(socket) + Len(Take(record, m))
        /\ \A i \in 1..Len(socket) : (socket \o Take(record, m))[i] = socket[i]
        /\ \A i \in 1..Len(Take(record, m)) :
              (socket \o Take(record, m))[Len(socket) + i] = Take(record, m)[i]
    BY <1>0, <1>1, Joined
  <2> QED
    BY <2>1, <1>0, <1>1
<1>3. TypeOK'
  BY <1>0, <1>1, <1>2 DEF TypeOK, peerVars
<1>4. PeerRefusesNothing' /\ Delivered'
  BY <1>0 DEF PeerRefusesNothing, Delivered, peerVars
<1>5. Calls'
  <2>1. ChunkLimit' = ChunkLimit
    BY <1>0 DEF ChunkLimit, ClampedPadding
  <2>2. calling = TRUE
    BY <1>0 DEF Calls, TypeOK
  <2> QED
    BY <1>0, <2>1, <2>2 DEF Calls
<1>6. Written' = Written
  BY <1>0, <1>1, <1>2 DEF Written
<1>7. ASSUME NEW p \in Nat, p > 0, p <= Written PROVE OctetAt(p)' = OctetAt(p)
  <2>1. CASE p <= Len(socket)
    <3>1. p \in 1..Len(socket) /\ p <= Len(socket')
      BY <2>1, <1>7, <1>0, <1>2
    <3> QED
      BY <3>1, <2>1, <1>2 DEF OctetAt
  <2>2. CASE ~(p <= Len(socket)) /\ p <= Len(socket')
    <3> DEFINE i == p - Len(socket)
    <3>1. i \in 1..m /\ p = Len(socket) + i
      BY <2>2, <1>0, <1>2
    <3>2. socket'[Len(socket) + i] = record[i]
      BY <3>1, <1>2
    <3> QED
      BY <3>1, <3>2, <2>2 DEF OctetAt
  <2>3. CASE ~(p <= Len(socket'))
    <3> DEFINE i == p - Len(socket')
    <3>1. i \in 1..(Len(record) - m) /\ m + i = p - Len(socket) /\ ~(p <= Len(socket))
      BY <2>3, <1>7, <1>0, <1>2 DEF Written
    <3>2. record'[i] = record[m + i]
      BY <3>1, <1>1
    <3> QED
      BY <3>1, <3>2, <2>3 DEF OctetAt
  <2> QED
    BY <2>1, <2>2, <2>3
<1>8. OnTheWay'
  <2>1. PICK n \in Nat : \E c \in [0..n -> Nat], e \in [0..n -> Nat] : Wire(n, c, e)
    BY DEF OnTheWay
  <2>2. PICK c \in [0..n -> Nat], e \in [0..n -> Nat] : Wire(n, c, e)
    BY <2>1
  <2>3. ClampedPadding' = ClampedPadding
    BY <1>0 DEF ClampedPadding
  <2>4. Cut(n, c)' /\ EndsAt(n, c, e)'
    BY <2>2, <2>3, <1>0 DEF Wire, Cut, EndsAt, SizeOf, peerVars
  <2>5. Filled(n, c, e)'
    <3> SUFFICES ASSUME NEW i \in 1..n, NEW k \in 1..SizeOf(c[i - 1], c[i])',
                        (e[i - 1] + k <= Written)'
                 PROVE  (OctetAt(e[i - 1] + k) = RecordOf(c[i - 1], c[i], peerSeq + i - 1)[k])'
      BY DEF Filled
    <3>1. SizeOf(c[i - 1], c[i])' = SizeOf(c[i - 1], c[i])
      BY <2>3 DEF SizeOf
    <3>2. RecordOf(c[i - 1], c[i], peerSeq + i - 1)' = RecordOf(c[i - 1], c[i], peerSeq + i - 1)
      BY <2>3, <1>0 DEF RecordOf, peerVars
    <3>3. c[i - 1] \in Nat /\ c[i] \in Nat /\ c[i - 1] <= c[i] /\ e[i - 1] \in Nat
      BY <2>2 DEF Wire, Cut
    <3>4. k \in Nat /\ k > 0
      BY <3>1, <3>3, Sizes DEF TypeOK
    <3>5. e[i - 1] + k \in Nat /\ e[i - 1] + k > 0 /\ e[i - 1] + k <= Written
      BY <3>3, <3>4, <1>6
    <3>6. OctetAt(e[i - 1] + k) = RecordOf(c[i - 1], c[i], peerSeq + i - 1)[k]
      BY <2>2, <3>1, <3>5 DEF Wire, Filled
    <3>7. OctetAt(e[i - 1] + k)' = OctetAt(e[i - 1] + k)
      BY <3>5, <1>7
    <3> QED
      BY <3>2, <3>6, <3>7
  <2>6. Current(n, c, e)'
    BY <2>2, <1>6, <1>0 DEF Wire, Current, peerVars
  <2> QED
    BY <2>4, <2>5, <2>6 DEF OnTheWay, Wire
<1> QED
  BY <1>3, <1>4, <1>5, <1>8

\* Steps of the call that neither write nor change what it has to send.
LEMMA QuietHolds ==
    ASSUME IInv, TypeOK', Calls',
           UNCHANGED <<state, padding, seq, todo, record, submitted, begun, socket, peerVars>>
    PROVE  IInv'
<1> USE DEF IInv
<1>1. PeerRefusesNothing' /\ Delivered'
  BY DEF PeerRefusesNothing, Delivered, peerVars
<1>2. OnTheWay'
  <2>1. PICK n \in Nat : \E c \in [0..n -> Nat], e \in [0..n -> Nat] : Wire(n, c, e)
    BY DEF OnTheWay
  <2>2. PICK c \in [0..n -> Nat], e \in [0..n -> Nat] : Wire(n, c, e)
    BY <2>1
  <2>3. Cut(n, c)' /\ EndsAt(n, c, e)'
    BY <2>2 DEF Wire, Cut, EndsAt, SizeOf, ClampedPadding, peerVars
  <2>4. Filled(n, c, e)'
    BY <2>2 DEF Wire, Filled, SizeOf, ClampedPadding, Written, OctetAt, RecordOf, peerVars
  <2>5. Current(n, c, e)'
    BY <2>2 DEF Wire, Current, Written, peerVars
  <2> QED
    BY <2>3, <2>4, <2>5 DEF OnTheWay, Wire
<1> QED
  BY <1>1, <1>2

LEMMA CallEndsHold == ASSUME IInv, SendRefused \/ SendDone PROVE IInv'
<1> USE DEF IInv
<1>1. ChunkLimit' = ChunkLimit
  <2>1. padding' = padding
    BY DEF SendRefused, SendDone
  <2> QED
    BY <2>1 DEF ChunkLimit, ClampedPadding
<1>2. TypeOK'
  BY DEF TypeOK, SendRefused, SendDone, peerVars
<1>3. Calls'
  <2>1. CASE SendRefused
    BY <2>1, <1>1 DEF Calls, SendRefused
  <2>2. CASE SendDone
    BY <2>2, <1>1 DEF Calls, SendDone
  <2> QED
    BY <2>1, <2>2
<1> QED
  BY <1>2, <1>3, QuietHolds DEF SendRefused, SendDone

\* The peer reads the first record on the way, which is one it accepts.
LEMMA PeerHolds == ASSUME IInv, PeerReads PROVE IInv'
<1> USE DEF IInv
<1>0. /\ socket \in Seq(Nat) /\ record \in Seq(Nat) /\ Len(socket) \in Nat /\ Len(record) \in Nat
      /\ Data \in Seq(Nat) /\ Len(Data) \in Nat /\ submitted \in 0..Len(Data)
      /\ peerSeq \in Nat /\ seq \in Nat /\ padding \in Paddings
      /\ peerGot \in Seq(Nat) /\ Len(peerGot) \in Nat
      /\ Len(socket) >= 2 /\ Len(socket) >= 2 + LengthOf(socket)
      /\ UNCHANGED clientVars
  BY DataType, LenProperties DEF TypeOK, PeerReads
<1>1. PICK n \in Nat : \E c \in [0..n -> Nat], e \in [0..n -> Nat] : Wire(n, c, e)
  BY DEF OnTheWay
<1>2. PICK c \in [0..n -> Nat], e \in [0..n -> Nat] : Wire(n, c, e)
  BY <1>1
<1>3. /\ c \in [0..n -> 0..submitted] /\ c[0] = Len(peerGot)
      /\ \A i, j \in 0..n : i <= j => c[i] <= c[j]
      /\ \A i \in 1..n : ProtectError(c[i] - c[i - 1], ClampedPadding) = "OK"
  BY <1>2 DEF Wire, Cut
<1>4. /\ e[0] = 0
      /\ \A i, j \in 0..n : i <= j => e[i] <= e[j]
      /\ \A i \in 1..n : e[i] = e[i - 1] + SizeOf(c[i - 1], c[i])
  BY <1>2 DEF Wire, EndsAt
<1>5. /\ Written <= e[n]
      /\ state = "CONNECTED" =>
          /\ e[n] = Written /\ seq = peerSeq + n
          /\ todo = SubSeq(Data, c[n] + 1, submitted)
  BY <1>2 DEF Wire, Current
<1>6. Written = Len(socket) + Len(record) /\ Written \in Nat
  BY <1>0 DEF Written
<1>7. n > 0
  BY <1>0, <1>4, <1>5, <1>6
<1> DEFINE a  == c[0]
           b  == c[1]
           z  == SizeOf(a, b)
           q  == RecordOf(a, b, peerSeq)
           content == SubSeq(Data, a + 1, b)
<1>8. /\ a \in Nat /\ b \in Nat /\ a <= b /\ b <= submitted /\ b <= Len(Data)
      /\ ProtectError(b - a, ClampedPadding) = "OK"
      /\ z \in Nat /\ z > 3 /\ e[1] = z
  <2>1. 0 \in 0..n /\ 1 \in 0..n /\ 1 \in 1..n /\ 1 - 1 = 0
    BY <1>7
  <2>2. a \in 0..submitted /\ b \in 0..submitted /\ a <= b
    BY <2>1, <1>3
  <2>3. a \in Nat /\ b \in Nat /\ b <= submitted /\ b <= Len(Data)
    BY <2>2, <1>0
  <2>4. z \in Nat /\ z > 3
    BY <2>2, <2>3, <1>0, Sizes
  <2>5. ProtectError(c[1] - c[0], ClampedPadding) = "OK"
    BY <2>1, <1>3
  <2>6. e[1] = e[0] + SizeOf(c[0], c[1])
    BY <2>1, <1>4
  <2> QED
    BY <2>2, <2>3, <2>4, <2>5, <2>6, <1>4
<1>9. \A k \in 1..z : k <= Written => OctetAt(k) = q[k]
  <2>1. 1 \in 1..n /\ 1 - 1 = 0 /\ peerSeq + 1 - 1 = peerSeq
    BY <1>7, <1>0
  <2>2. \A k \in 1..z : e[0] + k <= Written => OctetAt(e[0] + k) = RecordOf(c[0], c[1], peerSeq + 1 - 1)[k]
    BY <1>2, <2>1 DEF Wire, Filled
  <2>3. \A k \in 1..z : e[0] + k = k
    BY <1>4, <1>8
  <2> QED
    BY <2>1, <2>2, <2>3
<1>10. content \in Seq(Nat) /\ Len(content) = b - a /\ b - a \in Nat
  <2>1. a \in 0..Len(Data) /\ b \in a..Len(Data)
    BY <1>8, <1>0, SMTT(20)
  <2>2. content \in Seq(Nat) /\ Len(content) = b - a
    BY <2>1, <1>0, Part
  <2>3. b - a \in Nat
    <3> HIDE DEF a, b
    <3> QED
      BY <1>8
  <2> QED
    BY <2>2, <2>3
<1>11. ClampedPadding \in Nat /\ ApplicationData \in Nat /\ ApplicationData \in ContentTypes
       /\ b - a <= MaxContent /\ FragmentLength(b - a, ClampedPadding) <= MaxFragment
       /\ FragmentLength(b - a, ClampedPadding) \in Nat
  <2>1. ClampedPadding \in Nat
    BY <1>0, PaddingIs
  <2>2. FragmentLength(b - a, ClampedPadding) \in Nat
    <3>1. \A x, y \in Nat : FragmentLength(x, y) \in Nat
      BY FormatAssumption DEF FragmentLength
    <3> QED
      BY <2>1, <1>10, <3>1
  <2>3. ~(b - a > MaxContent) /\ ~(FragmentLength(b - a, ClampedPadding) > MaxFragment)
    BY <1>8 DEF ProtectError
  <2>4. ApplicationData \in Nat /\ ApplicationData \in ContentTypes
    BY DEF ApplicationData, ContentTypes
  <2>5. b - a <= MaxContent
    BY <2>3, <1>10, FormatAssumption
  <2>6. FragmentLength(b - a, ClampedPadding) <= MaxFragment
    BY <2>2, <2>3, FormatAssumption
  <2> QED
    BY <2>1, <2>2, <2>4, <2>5, <2>6
<1>12. Spelled(q, ApplicationData, content, ClampedPadding, peerSeq)
  BY <1>0, <1>10, <1>11, ProtectedIs DEF RecordOf
<1>13. UnprotectError(q, peerSeq) = "OK" /\ ContentOf(PlainOf(q)) = content
  <2>1. q = Protected(ApplicationData, content, ClampedPadding, peerSeq)
    BY DEF RecordOf
  <2>2. FragmentLength(Len(content), ClampedPadding) <= MaxFragment
    BY <1>10, <1>11
  <2>3. content \in Seq(Nat)
    BY <1>10
  <2> HIDE DEF q, content
  <2> QED
    BY <2>1, <2>2, <2>3, <1>0, <1>11, RoundTrip, SMTT(30)
<1>14. q \in Seq(Nat) /\ Len(q) = z /\ q[1] = ApplicationData /\ LengthOf(q) = z - 2
  BY <1>12, <1>10, <1>11 DEF Spelled, SizeOf, LengthOf
<1> HIDE DEF z, q, content, a, b
<1>15. LengthOf(socket) = z - 2 /\ 2 + LengthOf(socket) = z /\ z <= Len(socket)
  <2>1. 2 \in 1..z /\ 2 <= Written /\ 2 <= Len(socket)
    BY <1>8, <1>0, <1>6
  <2>2. OctetAt(2) = q[2] /\ OctetAt(2) = socket[2]
    BY <2>1, <1>9 DEF OctetAt
  <2>3. LengthOf(socket) = z - 2
    BY <2>2, <1>14 DEF LengthOf
  <2>4. 2 + (z - 2) = z
    BY <1>8
  <2>5. z <= Len(socket)
    BY <2>3, <2>4, <1>0, <1>8
  <2> QED
    BY <2>3, <2>4, <2>5
<1> DEFINE r == Take(socket, 2 + LengthOf(socket))
<1>16. r = q
  <2>1. z \in 0..Len(socket)
    BY <1>15, <1>8, <1>0
  <2>2. r \in Seq(Nat) /\ Len(r) = z /\ \A i \in 1..z : r[i] = socket[i]
    BY <2>1, <1>0, <1>15, TakeDrop
  <2>3. ASSUME NEW i \in 1..z PROVE socket[i] = q[i]
    <3>1. i <= Len(socket) /\ i <= Written
      <4>1. i \in Nat /\ i <= z /\ z <= Len(socket) /\ z \in Nat /\ Len(socket) \in Nat
            /\ Len(record) \in Nat
        BY <1>15, <1>8, <1>0
      <4> QED
        BY <4>1, <1>6
    <3> QED
      BY <3>1, <1>9 DEF OctetAt
  <2> HIDE DEF r
  <2>4. \A i \in 1..Len(r) : r[i] = q[i]
    BY <2>2, <2>3
  <2> QED
    BY <2>2, <2>4, <1>14, SeqEqual
<1> HIDE DEF r
<1>17. PeerAccepts(r)
  BY <1>16, <1>13, <1>14, <1>11, <1>10, <1>12 DEF PeerAccepts, Spelled, LengthOf
<1>18. /\ socket' = Drop(socket, z) /\ peerGot' = peerGot \o content
       /\ peerSeq' = peerSeq + 1 /\ peerOk' = peerOk
  BY <1>13, <1>14, <1>16, <1>17 DEF PeerReads, r
<1>19. /\ socket' \in Seq(Nat) /\ Len(socket') = Len(socket) - z
       /\ \A i \in 1..(Len(socket) - z) : socket'[i] = socket[z + i]
  <2>1. z \in 0..Len(socket)
    BY <1>15, <1>8, <1>0
  <2> QED
    BY <2>1, <1>0, <1>18, TakeDrop
<1>20. /\ peerGot' \in Seq(Nat) /\ Len(peerGot') = b
       /\ peerGot' = SubSeq(Data, 1, b)
  <2>0. a = Len(peerGot)
    BY <1>3 DEF a
  <2>1. /\ peerGot' \in Seq(Nat) /\ Len(peerGot') = a + (b - a)
        /\ \A i \in 1..a : peerGot'[i] = peerGot[i]
        /\ \A i \in 1..(b - a) : peerGot'[a + i] = content[i]
    <3>1. /\ peerGot \o content \in Seq(Nat)
          /\ Len(peerGot \o content) = Len(peerGot) + Len(content)
          /\ \A i \in 1..Len(peerGot) : (peerGot \o content)[i] = peerGot[i]
          /\ \A i \in 1..Len(content) : (peerGot \o content)[Len(peerGot) + i] = content[i]
      BY <1>0, <1>10, Joined
    <3> QED
      BY <3>1, <2>0, <1>10, <1>18
  <2>2. 0 + 1 = 1 /\ a - 0 = a /\ b - 0 = b /\ a + (b - a) = b
        /\ \A i \in Nat : 0 + i = i
    BY <1>8
  <2>3. 0 \in 0..Len(Data) /\ a \in 0..Len(Data) /\ b \in 0..Len(Data) /\ b \in a..Len(Data)
    BY <1>8, <1>0
  <2>4. \A i \in 1..a : SubSeq(Data, 1, a)[i] = Data[i]
    <3>1. \A i \in 1..(a - 0) : SubSeq(Data, 0 + 1, a)[i] = Data[0 + i]
      BY <1>0, <2>3, Part
    <3>2. \A i \in 1..a : i \in Nat
      OBVIOUS
    <3> QED
      BY <3>1, <3>2, <2>2
  <2>5. /\ SubSeq(Data, 1, b) \in Seq(Nat) /\ Len(SubSeq(Data, 1, b)) = b
        /\ \A i \in 1..b : SubSeq(Data, 1, b)[i] = Data[i]
    <3>1. /\ SubSeq(Data, 0 + 1, b) \in Seq(Nat) /\ Len(SubSeq(Data, 0 + 1, b)) = b - 0
          /\ \A i \in 1..(b - 0) : SubSeq(Data, 0 + 1, b)[i] = Data[0 + i]
      BY <1>0, <2>3, Part
    <3> QED
      BY <3>1, <2>2
  <2>6. \A i \in 1..(b - a) : content[i] = Data[a + i]
    BY <1>0, <2>3, Part DEF content
  <2>7. peerGot = SubSeq(Data, 1, a)
    BY <2>0 DEF Delivered
  <2>8. ASSUME NEW i \in 1..b PROVE peerGot'[i] = SubSeq(Data, 1, b)[i]
    <3>1. CASE i <= a
      <4>1. i \in 1..a
        BY <3>1, <1>8
      <4> QED
        BY <4>1, <2>1, <2>4, <2>5, <2>7
    <3>2. CASE ~(i <= a)
      <4>1. i - a \in 1..(b - a) /\ a + (i - a) = i
        BY <3>2, <1>8
      <4> QED
        BY <4>1, <2>1, <2>5, <2>6
    <3> QED
      BY <3>1, <3>2
  <2> QED
    BY <2>1, <2>2, <2>5, <2>8, SeqEqual
<1>21. TypeOK'
  BY <1>0, <1>18, <1>19, <1>20 DEF TypeOK, clientVars
<1>22. PeerRefusesNothing' /\ Delivered'
  <2>1. submitted' = submitted
    BY <1>0 DEF clientVars
  <2> QED
    BY <2>1, <1>18, <1>20, <1>8 DEF PeerRefusesNothing, Delivered
<1>23. Calls'
  <2>1. ChunkLimit' = ChunkLimit
    BY <1>0 DEF ChunkLimit, ClampedPadding, clientVars
  <2> QED
    BY <2>1, <1>0 DEF Calls, clientVars
<1>24. OnTheWay'
  <2> DEFINE m  == n - 1
             c2 == [i \in 0..m |-> c[i + 1]]
             e2 == [i \in 0..m |-> e[i + 1] - e[1]]
  <2>1. m \in Nat /\ \A i \in 0..m : i + 1 \in 0..n /\ i + 1 \in 1..n /\ (i + 1) - 1 = i
    BY <1>7
  <2>2. \A i \in 0..m : e[1] <= e[i + 1] /\ e[i + 1] \in Nat /\ e[1] \in Nat
    <3>1. 1 \in 0..n
      BY <1>7
    <3>2. \A i \in 0..m : 1 <= i + 1
      BY <2>1
    <3> QED
      BY <3>1, <3>2, <2>1, <1>4
  <2>3. /\ c2 \in [0..m -> Nat] /\ c2 \in [0..m -> 0..submitted]
        /\ \A i \in 0..m : c2[i] = c[i + 1]
    BY <2>1, <1>3
  <2>4. /\ e2 \in [0..m -> Nat]
        /\ \A i \in 0..m : e2[i] = e[i + 1] - e[1]
    BY <2>2
  <2>5. submitted' = submitted /\ padding' = padding /\ record' = record /\ state' = state
        /\ seq' = seq /\ todo' = todo /\ ClampedPadding' = ClampedPadding
    BY <1>0 DEF clientVars, ClampedPadding
  <2>6. m + 1 = n /\ 0 \in 0..m /\ m \in 0..m
    BY <2>1
  <2> HIDE DEF c2, e2, m
  <2>7. Cut(m, c2)'
    <3>1. c2[0] = Len(peerGot')
      <4>1. 0 + 1 = 1
        OBVIOUS
      <4> QED
        BY <4>1, <2>3, <2>6, <1>20 DEF b
    <3>2. ASSUME NEW i \in 0..m, NEW j \in 0..m, i <= j PROVE c2[i] <= c2[j]
      <4>1. i + 1 <= j + 1
        BY <3>2, <2>1
      <4> QED
        BY <4>1, <2>1, <2>3, <1>3
    <3>3. ASSUME NEW i \in 1..m PROVE ProtectError(c2[i] - c2[i - 1], ClampedPadding) = "OK"
      <4>1. i \in 0..m /\ i - 1 \in 0..m /\ (i - 1) + 1 = i /\ i + 1 \in 1..n /\ (i + 1) - 1 = i
        BY <2>1
      <4>2. c2[i] = c[i + 1] /\ c2[i - 1] = c[i]
        BY <4>1, <2>3
      <4>3. ProtectError(c[i + 1] - c[(i + 1) - 1], ClampedPadding) = "OK"
        BY <4>1, <1>3
      <4> QED
        BY <4>1, <4>2, <4>3
    <3> QED
      BY <3>1, <3>2, <3>3, <2>3, <2>5 DEF Cut, ProtectError
  <2>8. ASSUME NEW i \in 1..m
        PROVE  /\ i \in 0..m /\ i - 1 \in 0..m /\ i \in 1..n /\ i + 1 \in 1..n
               /\ c2[i] = c[i + 1] /\ c2[i - 1] = c[i]
               /\ e2[i] = e[i + 1] - e[1] /\ e2[i - 1] = e[i] - e[1]
               /\ e[i] \in Nat /\ e[1] \in Nat /\ e[1] <= e[i] /\ c[i] \in Nat /\ c[i + 1] \in Nat
               /\ c[i] <= c[i + 1]
               /\ e[i + 1] = e[i] + SizeOf(c[i], c[i + 1])
    <3>1. i \in 0..m /\ i - 1 \in 0..m /\ (i - 1) + 1 = i /\ i + 1 \in 1..n /\ (i + 1) - 1 = i
          /\ i \in 0..n /\ i + 1 \in 0..n /\ 1 \in 0..n /\ 1 <= i /\ i <= i + 1 /\ i \in 1..n
      BY <2>1, <2>6
    <3>2. c2[i] = c[i + 1] /\ c2[i - 1] = c[i]
      BY <3>1, <2>3
    <3>3. e2[i] = e[i + 1] - e[1] /\ e2[i - 1] = e[i] - e[1]
      BY <3>1, <2>4
    <3>4. e[1] <= e[i] /\ c[i] <= c[i + 1]
      BY <3>1, <1>3, <1>4
    <3>5. e[i + 1] = e[(i + 1) - 1] + SizeOf(c[(i + 1) - 1], c[i + 1])
      BY <3>1, <1>4
    <3> QED
      BY <3>1, <3>2, <3>3, <3>4, <3>5
  <2>9. EndsAt(m, c2, e2)'
    <3>1. e2[0] = 0
      <4>1. 0 + 1 = 1
        OBVIOUS
      <4> QED
        BY <4>1, <2>2, <2>4, <2>6
    <3>2. ASSUME NEW i \in 0..m, NEW j \in 0..m, i <= j PROVE e2[i] <= e2[j]
      <4>1. i + 1 <= j + 1
        BY <3>2, <2>1
      <4>2. e[i + 1] <= e[j + 1]
        BY <4>1, <2>1, <1>4
      <4> QED
        BY <4>2, <2>2, <2>4, SMTT(30)
    <3>3. ASSUME NEW i \in 1..m PROVE e2[i] = e2[i - 1] + SizeOf(c2[i - 1], c2[i])
      <4> DEFINE y == SizeOf(c[i], c[i + 1])
      <4>1. y \in Nat
        BY <2>8, <1>0, Sizes
      <4>2. e[i + 1] = e[i] + y /\ e2[i] = e[i + 1] - e[1] /\ e2[i - 1] = e[i] - e[1]
            /\ e[i] \in Nat /\ e[1] \in Nat /\ SizeOf(c2[i - 1], c2[i]) = y
        BY <2>8
      <4> HIDE DEF y
      <4> QED
        BY <4>1, <4>2
    <3> QED
      BY <3>1, <3>2, <3>3, <2>4, <2>5 DEF EndsAt, SizeOf
  <2>10. Written' = Written - z /\ Written' \in Nat
    BY <1>19, <1>0, <1>8, <1>15, <2>5 DEF Written
  <2>11. ASSUME NEW p \in Nat, p > 0, p <= Written' PROVE OctetAt(p)' = OctetAt(z + p)
    <3>1. CASE p <= Len(socket')
      <4>1. p \in 1..(Len(socket) - z) /\ z + p <= Len(socket)
        BY <3>1, <2>11, <1>19, <1>15, <1>8, <1>0
      <4> QED
        BY <4>1, <3>1, <1>19 DEF OctetAt
    <3>2. CASE ~(p <= Len(socket'))
      <4>1. ~(z + p <= Len(socket)) /\ p - Len(socket') = (z + p) - Len(socket)
        BY <3>2, <1>19, <1>15, <1>8, <1>0
      <4> QED
        BY <4>1, <3>2, <2>5 DEF OctetAt
    <3> QED
      BY <3>1, <3>2
  <2>12. Filled(m, c2, e2)'
    <3> SUFFICES ASSUME NEW i \in 1..m, NEW k \in 1..SizeOf(c2[i - 1], c2[i])',
                        (e2[i - 1] + k <= Written)'
                 PROVE  OctetAt(e2[i - 1] + k)'
                           = RecordOf(c2[i - 1], c2[i], peerSeq + i - 1)'[k]
      BY DEF Filled
    <3> DEFINE p == e2[i - 1] + k
    <3>1. SizeOf(c2[i - 1], c2[i])' = SizeOf(c[i], c[i + 1]) /\ SizeOf(c[i], c[i + 1]) \in Nat
      BY <2>5, <2>8, <1>0, Sizes DEF SizeOf
    <3>2. k \in 1..SizeOf(c[i], c[i + 1]) /\ k \in Nat /\ k > 0
      BY <3>1
    <3>3. p \in Nat /\ p > 0 /\ p <= Written' /\ z + p = e[i] + k /\ e[i] + k <= Written
      <4>1. e2[i - 1] = e[i] - z /\ e[i] \in Nat /\ z \in Nat /\ z <= e[i]
        BY <2>8, <1>8
      <4>2. p <= Written' /\ Written' = Written - z /\ Written \in Nat
        BY <2>10, <1>6
      <4>3. p = (e[i] - z) + k
        BY <4>1
      <4>4. \A x, y, w, v \in Nat : y <= x /\ v > 0 /\ (x - y) + v <= w - y =>
                /\ (x - y) + v \in Nat /\ (x - y) + v > 0
                /\ y + ((x - y) + v) = x + v /\ x + v <= w
        OBVIOUS
      <4> HIDE DEF p
      <4> QED
        <5>1. (e[i] - z) + k <= Written - z
          BY <4>2, <4>3
        <5>2. /\ (e[i] - z) + k \in Nat /\ (e[i] - z) + k > 0
              /\ z + ((e[i] - z) + k) = e[i] + k /\ e[i] + k <= Written
          BY <5>1, <4>1, <4>2, <4>4, <3>2, Zenon
        <5> QED
          BY <5>2, <4>2, <4>3, Zenon
    <3>4. OctetAt(p)' = OctetAt(e[i] + k)
      BY <3>3, <2>11
    <3>5. /\ i + 1 \in 1..n /\ (i + 1) - 1 = i
          /\ peerSeq + (i + 1) - 1 = peerSeq + i /\ (peerSeq + 1) + i - 1 = peerSeq + i
      BY <2>8, <1>0
    <3>6. OctetAt(e[i] + k) = RecordOf(c[i], c[i + 1], peerSeq + i)[k]
      <4>1. \A y \in 1..SizeOf(c[(i + 1) - 1], c[i + 1]) :
                e[(i + 1) - 1] + y <= Written =>
                    OctetAt(e[(i + 1) - 1] + y)
                      = RecordOf(c[(i + 1) - 1], c[i + 1], peerSeq + (i + 1) - 1)[y]
        BY <3>5, <1>2 DEF Wire, Filled
      <4> QED
        BY <4>1, <3>2, <3>3, <3>5
    <3>7. RecordOf(c2[i - 1], c2[i], peerSeq + i - 1)' = RecordOf(c[i], c[i + 1], peerSeq + i)
      BY <2>5, <2>8, <3>5, <1>18 DEF RecordOf
    <3> QED
      BY <3>4, <3>6, <3>7
  <2>13. Current(m, c2, e2)'
    <3>1. e2[m] = e[n] - e[1] /\ c2[m] = c[n] /\ e[n] \in Nat
      BY <2>3, <2>4, <2>6
    <3>2. Written' <= e2[m]
      BY <3>1, <2>10, <1>5, <1>6, <1>8
    <3>3. ASSUME state = "CONNECTED"
          PROVE  /\ e2[m] = Written' /\ seq' = peerSeq' + m
                 /\ todo' = SubSeq(Data, c2[m] + 1, submitted')
      BY <3>1, <3>3, <2>10, <1>5, <1>6, <1>8, <2>5, <2>6, <2>1, <1>18, <1>0
    <3> QED
      BY <3>2, <3>3, <2>5 DEF Current
  <2> QED
    <3>1. Wire(m, c2, e2)'
      BY <2>7, <2>9, <2>12, <2>13 DEF Wire
    <3> QED
      BY <3>1, <2>1, <2>3, <2>4 DEF OnTheWay
<1> QED
  BY <1>21, <1>22, <1>23, <1>24

-----------------------------------------------------------------------------
(* The theorems *)

LEMMA Inductive == Spec => []IInv
<1>1. Init => IInv
  BY InitHolds
<1>2. IInv /\ [Next]_vars => IInv'
  <2> SUFFICES ASSUME IInv, [Next]_vars PROVE IInv'
    OBVIOUS
  <2>1. CASE SendRefused \/ SendDone
    BY <2>1, CallEndsHold
  <2>2. ASSUME NEW m \in 0..(Len(Data) - submitted), Send(m) PROVE IInv'
    BY <2>2, SendHolds
  <2>3. CASE ProtectChunk
    BY <2>3, ProtectHolds
  <2>4. CASE ChunkRefused
    <3>1. ProtectError(Len(Chunk), ClampedPadding) = "BAD_RECORD"
      BY <2>4, ChunkIs DEF ChunkRefused, AtChunk, IInv, TypeOK
    <3>2. Fail("BAD_RECORD")
      BY <2>4, <3>1 DEF ChunkRefused
    <3> QED
      BY <2>4, <3>2, FailHolds DEF ChunkRefused
  <2>5. CASE NoMemory
    BY <2>5, FailHolds DEF NoMemory
  <2>6. CASE SocketFails
    BY <2>6, FailHolds DEF SocketFails
  <2>7. ASSUME NEW m \in 1..Len(record), SocketTakes(m) PROVE IInv'
    BY <2>7, SocketHolds
  <2>8. CASE PeerReads
    BY <2>8, PeerHolds
  <2>9. CASE UNCHANGED vars
    <3>1. UNCHANGED clientVars /\ UNCHANGED socket /\ UNCHANGED peerVars
      BY <2>9 DEF vars
    <3>2. TypeOK'
      BY <3>1 DEF TypeOK, clientVars, peerVars, IInv
    <3>3. Calls'
      BY <3>1 DEF Calls, ChunkLimit, ClampedPadding, clientVars, IInv
    <3> QED
      BY <3>1, <3>2, <3>3, QuietHolds DEF clientVars
  <2> QED
    BY <2>1, <2>2, <2>3, <2>4, <2>5, <2>6, <2>7, <2>8, <2>9 DEF Next, Works
<1> QED
  BY <1>1, <1>2, PTL DEF Spec

\* The state of send(), of the socket and of the peer.
THEOREM TypeCorrect == Spec => []TypeOK
<1>1. IInv => TypeOK
  BY DEF IInv
<1> QED
  BY <1>1, Inductive, PTL

\* No record that send() writes is one a peer holding to RFC 8446 refuses, whatever the
\* data, the padding and the parts the socket takes, also when the connection fails in the
\* middle of a record.
THEOREM PeerAcceptsAll == Spec => []PeerRefusesNothing
<1>1. IInv => PeerRefusesNothing
  BY DEF IInv
<1> QED
  BY <1>1, Inductive, PTL

\* What the peer takes out of the records is the data in order, each octet once.
THEOREM ReadsInOrder == Spec => []ReadInOrder
<1>1. IInv => ReadInOrder
  BY DEF IInv, Delivered, ReadInOrder, Take
<1> QED
  BY <1>1, Inductive, PTL

\* send() fails for its data only when the data is longer than the content of a record and
\* less padding than Slack is configured, and then before any of it was written.
THEOREM OnlyLongSendsAreRefused == Spec => OnlyLongSendsFail
<1> DEFINE Refused ==
        state = "CONNECTED" /\ state' = "FAILED" /\ result' \notin {"IO", "CRYPTO"} =>
            /\ result' = "BAD_RECORD"
            /\ Len(todo) > MaxContent /\ ClampedPadding < Slack
            /\ todo = SubSeq(Data, begun + 1, submitted)
<1>1. IInv /\ [Next]_vars => [Refused]_vars
  <2> SUFFICES ASSUME IInv, Next, state = "CONNECTED", state' = "FAILED",
                      result' \notin {"IO", "CRYPTO"}
               PROVE  /\ result' = "BAD_RECORD"
                      /\ Len(todo) > MaxContent /\ ClampedPadding < Slack
                      /\ todo = SubSeq(Data, begun + 1, submitted)
    OBVIOUS
  <2>1. ChunkRefused
    BY DEF Next, Works, SendRefused, Send, ProtectChunk, NoMemory, SocketFails, SocketTakes,
           SendDone, PeerReads, Fail, clientVars
  <2>2. /\ padding \in Paddings /\ todo \in Seq(Nat) /\ todo # <<>> /\ calling = TRUE
        /\ ProtectError(Len(Chunk), ClampedPadding) # "OK"
        /\ result' = ProtectError(Len(Chunk), ClampedPadding)
    BY <2>1 DEF ChunkRefused, AtChunk, Fail, IInv, TypeOK
  <2>3. /\ ProtectError(Len(Chunk), ClampedPadding) = "BAD_RECORD"
        /\ Len(Chunk) > MaxContent /\ ChunkLimit > MaxContent
        /\ Len(Chunk) \in 1..Len(todo) /\ Len(todo) \in Nat
    BY <2>2, ChunkIs
  <2>4. /\ ClampedPadding \in Nat /\ ChunkLimit \in Nat
        /\ ChunkLimit = MaxFragment - TagSize - 1 - ClampedPadding
    BY <2>2, PaddingIs
  <2>5. ClampedPadding < Slack
    BY <2>3, <2>4, FormatAssumption DEF Slack
  <2>6. Len(todo) > MaxContent
    BY <2>3, FormatAssumption
  <2>7. ~(ChunkLimit <= MaxContent)
    BY <2>3, <2>4, FormatAssumption
  <2>8. todo = SubSeq(Data, begun + 1, submitted)
    BY <2>2, <2>7 DEF IInv, Calls
  <2> QED
    BY <2>2, <2>3, <2>5, <2>6, <2>8
<1> QED
  BY <1>1, Inductive, PTL DEF Spec, OnlyLongSendsFail

=============================================================================
