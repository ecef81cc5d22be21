-------------------------- MODULE RecordReceiveProofs --------------------------
(***************************************************************************)
(* Theorems about RecordReceive, for every limit, data and cut of it into  *)
(* records.  The octets on the way, read and not yet read, are whole       *)
(* records of the peer one behind the other; what the client takes of them *)
(* is therefore a record the peer wrote.                                   *)
(***************************************************************************)
EXTENDS RecordReceive, SequenceTheorems, TLAPS

USE DEF HeaderSize

-----------------------------------------------------------------------------
(* Sequences *)

LEMMA SumsAre ==
    /\ \A x, y \in Nat : x + y \in Nat /\ (y <= x => x - y \in Nat)
    /\ \A x, y, z \in Nat : x <= y => x <= y + z
  OBVIOUS

LEMMA Joined ==
    ASSUME NEW a \in Seq(Nat), NEW b \in Seq(Nat)
    PROVE  /\ a \o b \in Seq(Nat) /\ Len(a \o b) = Len(a) + Len(b)
           /\ \A i \in 1..Len(a) : (a \o b)[i] = a[i]
           /\ \A i \in 1..Len(b) : (a \o b)[Len(a) + i] = b[i]
<1>1. Len(a) \in Nat /\ Len(b) \in Nat
  BY LenProperties
<1>2. /\ a \o b \in Seq(Nat) /\ Len(a \o b) = Len(a) + Len(b)
      /\ \A i \in 1..(Len(a) + Len(b)) :
            (a \o b)[i] = IF i <= Len(a) THEN a[i] ELSE b[i - Len(a)]
  BY ConcatProperties
<1>3. \A i \in 1..Len(a) : i \in 1..(Len(a) + Len(b)) /\ i <= Len(a)
  BY <1>1
<1>4. \A i \in 1..Len(b) : /\ Len(a) + i \in 1..(Len(a) + Len(b)) /\ ~(Len(a) + i <= Len(a))
                          /\ (Len(a) + i) - Len(a) = i
  BY <1>1
<1> QED BY <1>2, <1>3, <1>4

\* The elements of s behind the first a up to the bth.
Between(s, a, b) == SubSeq(s, a + 1, b)

LEMMA BetweenIs ==
    ASSUME NEW s \in Seq(Nat), NEW a \in 0..Len(s), NEW b \in a..Len(s)
    PROVE  /\ Between(s, a, b) \in Seq(Nat) /\ Len(Between(s, a, b)) = b - a
           /\ \A i \in 1..(b - a) : Between(s, a, b)[i] = s[a + i]
<1> DEFINE m == a + 1
<1>0. Len(s) \in Nat /\ a \in Nat /\ b \in Nat /\ a <= b
  BY LenProperties
<1>1. m \in 1..(Len(s) + 1) /\ b \in (m - 1)..Len(s)
  BY <1>0
<1>2. \A i \in m..b : s[i] \in Nat
  BY <1>0, ElementOfSeq
<1>3. /\ SubSeq(s, m, b) \in Seq(Nat) /\ Len(SubSeq(s, m, b)) = b - m + 1
      /\ \A i \in 1..(b - m + 1) : SubSeq(s, m, b)[i] = s[m + i - 1]
  <2> HIDE DEF m
  <2> QED BY <1>1, <1>2, <1>0, SubSeqProperties
<1>4. b - m + 1 = b - a /\ \A i \in 1..(b - a) : m + i - 1 = a + i
  BY <1>0
<1> QED BY <1>3, <1>4 DEF Between

\* A sequence that has the elements is the part.
LEMMA BetweenBy ==
    ASSUME NEW s \in Seq(Nat), NEW a \in 0..Len(s), NEW b \in a..Len(s), NEW t \in Seq(Nat),
           Len(t) = b - a, \A i \in 1..(b - a) : t[i] = s[a + i]
    PROVE  t = Between(s, a, b)
<1>1. /\ Between(s, a, b) \in Seq(Nat) /\ Len(Between(s, a, b)) = b - a
      /\ \A i \in 1..(b - a) : Between(s, a, b)[i] = s[a + i]
  BY BetweenIs
<1> QED BY <1>1, SeqEqual

\* Parts of a part and of a sequence that was appended to.
LEMMA BetweenOfRest ==
    ASSUME NEW s \in Seq(Nat), NEW m \in 0..Len(s),
           NEW a \in 0..(Len(s) - m), NEW b \in a..(Len(s) - m)
    PROVE  Between(Drop(s, m), a, b) = Between(s, m + a, m + b)
<1> DEFINE t == Drop(s, m)
           u == Between(t, a, b)
<1>0. Len(s) \in Nat /\ {m, a, b} \subseteq Nat /\ Len(s) \in m..Len(s)
  BY LenProperties
<1>1. t \in Seq(Nat) /\ Len(t) = Len(s) - m /\ \A i \in 1..(Len(s) - m) : t[i] = s[m + i]
  BY <1>0, BetweenIs DEF Drop, Between
<1> HIDE DEF t
<1>2. u \in Seq(Nat) /\ Len(u) = b - a /\ \A i \in 1..(b - a) : u[i] = t[a + i]
  <2>1. a \in 0..Len(t) /\ b \in a..Len(t)
    BY <1>1
  <2> QED BY ONLY <1>1, <2>1, BetweenIs
<1> HIDE DEF u
<1> DEFINE x == m + a  y == m + b
<1>3. x \in 0..Len(s) /\ y \in x..Len(s) /\ y - x = b - a
  BY <1>0
<1>4. ASSUME NEW i \in 1..(y - x) PROVE u[i] = s[x + i]
  <2>1. a + i \in 1..(Len(s) - m) /\ m + (a + i) = x + i
    BY <1>0
  <2> HIDE DEF x, y
  <2> QED BY <1>1, <1>2, <1>3, <2>1
<1> HIDE DEF x, y
<1>5. u = Between(s, x, y)
  BY <1>2, <1>3, <1>4, BetweenBy
<1> QED BY <1>5 DEF x, y, u, t

LEMMA BetweenOfJoined ==
    ASSUME NEW s \in Seq(Nat), NEW r \in Seq(Nat)
    PROVE  /\ \A a \in 0..Len(s) : \A b \in a..Len(s) : Between(s \o r, a, b) = Between(s, a, b)
           /\ Between(s \o r, Len(s), Len(s) + Len(r)) = r
           /\ Drop(s \o r, Len(s)) = r
<1> DEFINE w == s \o r
<1>0. Len(s) \in Nat /\ Len(r) \in Nat
  BY LenProperties
<1>1. /\ w \in Seq(Nat) /\ Len(w) = Len(s) + Len(r)
      /\ \A i \in 1..Len(s) : w[i] = s[i]
      /\ \A i \in 1..Len(r) : w[Len(s) + i] = r[i]
  BY Joined
<1> HIDE DEF w
<1>2. ASSUME NEW a \in 0..Len(s), NEW b \in a..Len(s) PROVE Between(w, a, b) = Between(s, a, b)
  <2>1. a \in 0..Len(w) /\ b \in a..Len(w) /\ a \in Nat /\ b \in Nat
    BY <1>0, <1>1
  <2>2. /\ Between(s, a, b) \in Seq(Nat) /\ Len(Between(s, a, b)) = b - a
        /\ \A i \in 1..(b - a) : Between(s, a, b)[i] = s[a + i]
    BY BetweenIs
  <2>3. \A i \in 1..(b - a) : a + i \in 1..Len(s)
    BY <2>1, <1>0
  <2>4. \A i \in 1..(b - a) : Between(s, a, b)[i] = w[a + i]
    BY <2>2, <2>3, <1>1
  <2> QED BY <1>1, <2>1, <2>2, <2>4, BetweenBy
<1>3. Between(w, Len(s), Len(s) + Len(r)) = r
  <2> DEFINE x == Len(s)  y == Len(s) + Len(r)
  <2>1. x \in 0..Len(w) /\ y \in x..Len(w) /\ Len(r) = y - x /\ \A i \in 1..(y - x) : r[i] = w[x + i]
    BY <1>0, <1>1
  <2> HIDE DEF x, y
  <2>2. r = Between(w, x, y)
    BY <1>1, <2>1, BetweenBy
  <2> QED BY <2>2 DEF x, y
<1>4. Drop(w, Len(s)) = r
  BY <1>1, <1>3 DEF Drop, Between
<1> QED BY <1>2, <1>3, <1>4 DEF w

LEMMA TakeDrop ==
    ASSUME NEW s \in Seq(Nat), NEW n \in 0..Len(s)
    PROVE  /\ Take(s, n) \in Seq(Nat) /\ Len(Take(s, n)) = n /\ Take(s, n) = Between(s, 0, n)
           /\ Drop(s, n) \in Seq(Nat) /\ Len(Drop(s, n)) = Len(s) - n
           /\ Drop(s, n) = Between(s, n, Len(s))
           /\ Take(s, n) \o Drop(s, n) = s
<1> DEFINE t == Take(s, n)  d == Drop(s, n)
<1>0. Len(s) \in Nat /\ 0 \in 0..Len(s) /\ n \in Nat /\ n <= Len(s) /\ Len(s) \in n..Len(s)
  BY LenProperties
<1>1. t = Between(s, 0, n) /\ d = Between(s, n, Len(s))
  BY DEF Take, Drop, Between
<1>2. /\ t \in Seq(Nat) /\ Len(t) = n /\ \A i \in 1..n : t[i] = s[i]
  <2>1. /\ t \in Seq(Nat) /\ Len(t) = n - 0 /\ \A i \in 1..(n - 0) : t[i] = s[0 + i]
    BY <1>0, <1>1, BetweenIs
  <2> HIDE DEF t
  <2> QED BY <2>1, <1>0
<1>3. /\ d \in Seq(Nat) /\ Len(d) = Len(s) - n /\ \A i \in 1..(Len(s) - n) : d[i] = s[n + i]
  BY <1>0, <1>1, BetweenIs
<1> HIDE DEF t, d
<1>4. /\ t \o d \in Seq(Nat) /\ Len(t \o d) = Len(t) + Len(d)
      /\ \A i \in 1..Len(t) : (t \o d)[i] = t[i]
      /\ \A i \in 1..Len(d) : (t \o d)[Len(t) + i] = d[i]
  BY <1>2, <1>3, Joined
<1>5. ASSUME NEW i \in 1..Len(s) PROVE (t \o d)[i] = s[i]
  <2>1. CASE i <= n
    BY <2>1, <1>0, <1>2, <1>4
  <2>2. CASE ~(i <= n)
    <3> DEFINE k == i - n
    <3>1. k \in 1..(Len(s) - n) /\ i = n + k
      BY <2>2, <1>0
    <3> HIDE DEF k
    <3>2. (t \o d)[n + k] = d[k] /\ d[k] = s[n + k]
      BY <3>1, <1>2, <1>3, <1>4
    <3> QED BY <3>1, <3>2
  <2> QED BY <2>1, <2>2
<1>6. Len(t \o d) = Len(s)
  BY <1>0, <1>2, <1>3, <1>4
<1>7. t \o d = s
  BY <1>4, <1>5, <1>6, SeqEqual
<1> QED BY <1>1, <1>2, <1>3, <1>7 DEF t, d

LEMMA ConcatAssociates ==
    ASSUME NEW a \in Seq(Nat), NEW b \in Seq(Nat), NEW c \in Seq(Nat)
    PROVE  (a \o b) \o c = a \o (b \o c)
<1> DEFINE ab == a \o b
           bc == b \o c
           l == ab \o c
           r == a \o bc
<1>0. Len(a) \in Nat /\ Len(b) \in Nat /\ Len(c) \in Nat
  BY LenProperties
<1>1. /\ ab \in Seq(Nat) /\ Len(ab) = Len(a) + Len(b)
      /\ \A i \in 1..Len(a) : ab[i] = a[i]
      /\ \A i \in 1..Len(b) : ab[Len(a) + i] = b[i]
  BY Joined
<1>2. /\ bc \in Seq(Nat) /\ Len(bc) = Len(b) + Len(c)
      /\ \A i \in 1..Len(b) : bc[i] = b[i]
      /\ \A i \in 1..Len(c) : bc[Len(b) + i] = c[i]
  BY Joined
<1> HIDE DEF ab, bc
<1>3. /\ l \in Seq(Nat) /\ Len(l) = Len(ab) + Len(c)
      /\ \A i \in 1..Len(ab) : l[i] = ab[i]
      /\ \A i \in 1..Len(c) : l[Len(ab) + i] = c[i]
  BY <1>1, Joined
<1>4. /\ r \in Seq(Nat) /\ Len(r) = Len(a) + Len(bc)
      /\ \A i \in 1..Len(a) : r[i] = a[i]
      /\ \A i \in 1..Len(bc) : r[Len(a) + i] = bc[i]
  BY <1>2, Joined
<1> HIDE DEF l, r
<1>5. Len(l) = Len(r)
  BY <1>0, <1>1, <1>2, <1>3, <1>4
<1>6. ASSUME NEW i \in 1..Len(l) PROVE l[i] = r[i]
  <2>0. i \in Int /\ 1 <= i /\ i <= Len(a) + Len(b) + Len(c)
    BY <1>0, <1>1, <1>3
  <2>1. CASE i <= Len(a)
    <3>1. i \in 1..Len(a) /\ i \in 1..Len(ab)
      BY <2>0, <2>1, <1>0, <1>1
    <3> QED BY <3>1, <1>1, <1>3, <1>4
  <2>2. CASE i > Len(a) /\ i <= Len(a) + Len(b)
    <3> DEFINE k == i - Len(a)
    <3>1. k \in 1..Len(b) /\ k \in 1..Len(bc) /\ i \in 1..Len(ab) /\ Len(a) + k = i
      BY <2>0, <2>2, <1>0, <1>1, <1>2
    <3> HIDE DEF k
    <3>2. l[Len(a) + k] = b[k]
      BY <3>1, <1>1, <1>3
    <3>3. r[Len(a) + k] = b[k]
      BY <3>1, <1>2, <1>4
    <3> QED BY <3>1, <3>2, <3>3
  <2>3. CASE i > Len(a) + Len(b)
    <3> DEFINE k == i - (Len(a) + Len(b))
               j == Len(b) + k
    <3>1. /\ k \in 1..Len(c) /\ j \in 1..Len(bc)
          /\ Len(ab) + k = i /\ Len(a) + j = i /\ j = Len(b) + k
      BY <2>0, <2>3, <1>0, <1>1, <1>2
    <3> HIDE DEF k, j
    <3>2. l[Len(ab) + k] = c[k]
      BY <3>1, <1>3
    <3>3. r[Len(a) + j] = bc[Len(b) + k] /\ bc[Len(b) + k] = c[k]
      BY <3>1, <1>2, <1>4
    <3> QED BY <3>1, <3>2, <3>3
  <2> QED BY <2>0, <2>1, <2>2, <2>3, <1>0
<1>7. l = r
  BY <1>3, <1>4, <1>5, <1>6, SeqEqual
<1> QED BY <1>7 DEF l, r, ab, bc

-----------------------------------------------------------------------------
(* Records *)

LEMMA DataType == Data \in Seq(Nat) /\ Len(Data) \in Nat
<1>1. Data \in Seq(0..255)
  BY ReceiveAssumption
<1>2. 0..255 \subseteq Nat
  OBVIOUS
<1>3. Data \in Seq(Nat)
  BY <1>1, <1>2, SeqMonotonic, Zenon
<1> QED BY <1>3, LenProperties

\* A protected record, well formed or not, gives back what is in it, and its tag is of one
\* sequence number.
LEMMA FragmentIs ==
    ASSUME NEW plain \in Seq(Nat), NEW tag \in Nat
    PROVE  /\ Fragment(plain, tag) \in Seq(Nat)
           /\ Len(Fragment(plain, tag)) = 2 + Len(plain) + TagSize
           /\ Fragment(plain, tag)[1] = ApplicationData
           /\ LengthOf(Fragment(plain, tag)) = Len(plain) + TagSize
           /\ PlainOf(Fragment(plain, tag)) = plain
           /\ \A s \in Nat : Verifies(Fragment(plain, tag), s) <=> tag = s
<1> DEFINE n == Len(plain)
           h == <<ApplicationData, n + TagSize>>
           t == [i \in 1..TagSize |-> tag]
           a == h \o plain
           r == Fragment(plain, tag)
<1>0. n \in Nat /\ TagSize \in Nat /\ TagSize > 0
  BY FormatAssumption, LenProperties
<1>1. h \in Seq(Nat) /\ Len(h) = 2 /\ h[1] = ApplicationData /\ h[2] = n + TagSize
  BY <1>0 DEF ApplicationData
<1>2. t \in Seq(Nat) /\ Len(t) = TagSize /\ \A i \in 1..TagSize : t[i] = tag
  BY <1>0
<1> HIDE DEF h, t
<1>3. r = a \o t
  BY DEF Fragment, h, t
<1>4. /\ a \in Seq(Nat) /\ Len(a) = 2 + n
      /\ \A i \in 1..2 : a[i] = h[i]
      /\ Between(a, 2, 2 + n) = plain
  <2>1. /\ a \in Seq(Nat) /\ Len(a) = Len(h) + Len(plain)
        /\ \A i \in 1..Len(h) : a[i] = h[i]
    BY <1>1, Joined
  <2>2. Between(a, Len(h), Len(h) + Len(plain)) = plain
    BY <1>1, BetweenOfJoined
  <2> HIDE DEF a
  <2> QED BY <2>1, <2>2, <1>1
<1> HIDE DEF a
<1>5. /\ r \in Seq(Nat) /\ Len(r) = 2 + n + TagSize
      /\ \A i \in 1..(2 + n) : r[i] = a[i]
      /\ \A i \in 1..TagSize : r[2 + n + i] = tag
  <2>1. /\ r \in Seq(Nat) /\ Len(r) = Len(a) + Len(t)
        /\ \A i \in 1..Len(a) : r[i] = a[i]
        /\ \A i \in 1..Len(t) : r[Len(a) + i] = t[i]
    <3> HIDE DEF r
    <3> QED BY <1>2, <1>3, <1>4, Joined
  <2> HIDE DEF r
  <2> QED BY <2>1, <1>2, <1>4, <1>0
<1>6. Between(r, 2, 2 + n) = plain
  <2>1. 2 \in 0..Len(a) /\ 2 + n \in 2..Len(a)
    BY <1>4, <1>0
  <2>2. Between(r, 2, 2 + n) = Between(a, 2, 2 + n)
    BY <2>1, <1>2, <1>3, <1>4, BetweenOfJoined
  <2> QED BY <2>2, <1>4
<1> HIDE DEF r
<1>7. r[1] = ApplicationData /\ r[2] = n + TagSize
  BY <1>0, <1>1, <1>4, <1>5
<1>8. PlainOf(r) = plain
  <2>1. PlainOf(r) = Between(r, 2, 2 + (n + TagSize) - TagSize)
    BY <1>7 DEF PlainOf, LengthOf, Between
  <2>2. 2 + (n + TagSize) - TagSize = 2 + n
    BY <1>0
  <2> QED BY <2>1, <2>2, <1>6
<1>9. ASSUME NEW s \in Nat PROVE Verifies(r, s) <=> tag = s
  <2>1. Verifies(r, s) <=> \A i \in (n + 1)..(n + TagSize) : r[2 + i] = s
    <3>1. LengthOf(r) = n + TagSize /\ LengthOf(r) - TagSize + 1 = n + 1
      BY <1>0, <1>7 DEF LengthOf
    <3> QED BY <3>1 DEF Verifies
  <2>2. \A i \in (n + 1)..(n + TagSize) : r[2 + i] = tag
    <3> SUFFICES ASSUME NEW i \in (n + 1)..(n + TagSize) PROVE r[2 + i] = tag
      OBVIOUS
    <3> DEFINE k == i - n
    <3>1. k \in 1..TagSize /\ 2 + i = 2 + n + k
      BY <1>0
    <3> QED BY <3>1, <1>5
  <2>3. n + 1 \in (n + 1)..(n + TagSize)
    BY <1>0
  <2> QED BY <2>1, <2>2, <2>3
<1> QED BY <1>5, <1>7, <1>8, <1>9 DEF r, LengthOf

LEMMA Scan ==
    ASSUME NEW plain \in Seq(Nat), NEW n \in Nat, n < Len(plain), plain[n + 1] # 0,
           \A i \in (n + 2)..Len(plain) : plain[i] = 0
    PROVE  TypeIndex(plain) = n + 1
<1>0. Len(plain) \in Nat
  BY LenProperties
<1>1. n + 1 \in NonZeros(plain)
  BY <1>0 DEF NonZeros
<1>2. ASSUME NEW j \in NonZeros(plain) PROVE j <= n + 1 /\ j \in Nat
  BY <1>2, <1>0 DEF NonZeros
<1> DEFINE Last(i) == \A j \in NonZeros(plain) : j <= i
<1>3. TypeIndex(plain) = CHOOSE i \in NonZeros(plain) : Last(i)
  BY <1>1 DEF TypeIndex
<1>4. Last(n + 1) /\ \A i \in NonZeros(plain) : Last(i) => i = n + 1
  BY <1>1, <1>2
<1> HIDE DEF Last
<1> QED BY <1>1, <1>3, <1>4

\* Behind the content the scan over the padding finds the type, whatever both are.
LEMMA InnerIs ==
    ASSUME NEW type \in Nat \ {0}, NEW content \in Seq(Nat), NEW pad \in Nat
    PROVE  /\ Inner(type, content, pad) \in Seq(Nat)
           /\ Len(Inner(type, content, pad)) = Len(content) + 1 + pad
           /\ TypeIndex(Inner(type, content, pad)) = Len(content) + 1
           /\ TypeOf(Inner(type, content, pad)) = type
           /\ ContentOf(Inner(type, content, pad)) = content
<1> DEFINE n == Len(content)
           o == <<type>>
           z == Zeros(pad)
           a == content \o o
           p == Inner(type, content, pad)
<1>0. n \in Nat
  BY LenProperties
<1>1. o \in Seq(Nat) /\ Len(o) = 1 /\ o[1] = type
  OBVIOUS
<1>2. z \in Seq(Nat) /\ Len(z) = pad /\ \A i \in 1..pad : z[i] = 0
  BY DEF Zeros
<1> HIDE DEF o, z
<1>3. a \in Seq(Nat) /\ Len(a) = n + 1 /\ a[n + 1] = type /\ Between(a, 0, n) = content
  <2>1. /\ a \in Seq(Nat) /\ Len(a) = Len(content) + Len(o)
        /\ \A i \in 1..Len(content) : a[i] = content[i]
        /\ \A i \in 1..Len(o) : a[Len(content) + i] = o[i]
    BY <1>1, Joined
  <2> HIDE DEF a
  <2>2. 0 \in 0..Len(a) /\ n \in 0..Len(a) /\ n - 0 = n /\ \A i \in 1..n : content[i] = a[0 + i]
    BY <2>1, <1>0, <1>1
  <2>3. content = Between(a, 0, n)
    <3> PICK x \in 0..Len(a) : x = 0
      BY <2>2
    <3> PICK y \in x..Len(a) : y = n
      BY <2>2
    <3>1. Len(content) = y - x /\ \A i \in 1..(y - x) : content[i] = a[x + i]
      BY <2>2
    <3>2. content = Between(a, x, y)
      BY <2>1, <3>1, BetweenBy
    <3> QED BY <3>2
  <2> QED BY <2>1, <2>3, <1>0, <1>1
<1> HIDE DEF a
<1>4. p = a \o z
  BY DEF Inner, a, o, z
<1> HIDE DEF p
<1>5. /\ p \in Seq(Nat) /\ Len(p) = n + 1 + pad
      /\ p[n + 1] = type /\ \A i \in (n + 2)..Len(p) : p[i] = 0
  <2>1. /\ p \in Seq(Nat) /\ Len(p) = Len(a) + Len(z)
        /\ \A i \in 1..Len(a) : p[i] = a[i]
        /\ \A i \in 1..Len(z) : p[Len(a) + i] = z[i]
    BY <1>2, <1>3, <1>4, Joined
  <2>2. p[n + 1] = type
    BY <2>1, <1>0, <1>3
  <2>3. ASSUME NEW i \in (n + 2)..Len(p) PROVE p[i] = 0
    <3> DEFINE k == i - (n + 1)
    <3>1. k \in 1..pad /\ i = Len(a) + k
      BY <2>1, <1>0, <1>2, <1>3
    <3> QED BY <3>1, <2>1, <1>2
  <2> QED BY <2>1, <2>2, <2>3, <1>2, <1>3
<1>6. TypeIndex(p) = n + 1
  <2>1. n < Len(p) /\ p[n + 1] # 0
    BY <1>0, <1>5
  <2> QED BY <2>1, <1>0, <1>5, Scan
<1>7. ContentOf(p) = content
  <2>1. ContentOf(p) = Between(p, 0, n)
    BY <1>0, <1>6 DEF ContentOf, Between
  <2>2. 0 \in 0..Len(a) /\ n \in 0..Len(a)
    BY <1>0, <1>3
  <2>3. Between(p, 0, n) = Between(a, 0, n)
    BY <2>2, <1>2, <1>3, <1>4, BetweenOfJoined
  <2> QED BY <2>1, <2>3, <1>3
<1> QED BY <1>5, <1>6, <1>7 DEF p, TypeOf

\* What the peer protects is a fragment, which the client that has the same sequence number
\* accepts and finds the content in.
LEMMA ProtectedIs ==
    ASSUME NEW content \in Seq(Nat), NEW pad \in Nat, NEW s \in Nat,
           FragmentLength(Len(content), pad) <= MaxFragment
    PROVE  LET r == Protected(ApplicationData, content, pad, s) IN
           /\ r \in Seq(Nat) /\ Len(r) = 2 + LengthOf(r) /\ LengthOf(r) \in Nat
           /\ r[1] = ApplicationData /\ LengthOf(r) <= MaxFragment
           /\ UnprotectError(r, s) = "OK" /\ ContentOf(PlainOf(r)) = content
<1> DEFINE p == Inner(ApplicationData, content, pad)
           r == Protected(ApplicationData, content, pad, s)
<1>0. Len(content) \in Nat /\ TagSize \in Nat /\ TagSize > 0 /\ MaxFragment \in Nat
  BY FormatAssumption, LenProperties
<1>1. ApplicationData \in Nat \ {0} /\ ApplicationData \in ContentTypes
  BY DEF ApplicationData, ContentTypes
<1>2. /\ p \in Seq(Nat) /\ Len(p) = Len(content) + 1 + pad
      /\ TypeIndex(p) = Len(content) + 1 /\ TypeOf(p) = ApplicationData /\ ContentOf(p) = content
  BY <1>1, InnerIs
<1>3. FragmentLength(Len(content), pad) = Len(p) + TagSize
  BY <1>2 DEF FragmentLength
<1>4. r = Fragment(p, s)
  BY <1>3 DEF Protected, Fragment
<1> HIDE DEF p, r
<1>5. /\ r \in Seq(Nat) /\ Len(r) = 2 + Len(p) + TagSize /\ r[1] = ApplicationData
      /\ LengthOf(r) = Len(p) + TagSize /\ PlainOf(r) = p /\ Verifies(r, s)
  BY <1>2, <1>4, FragmentIs
<1>6. UnprotectError(r, s) = "OK"
  <2>0. LengthOf(r) - TagSize = Len(content) + 1 + pad /\ LengthOf(r) <= MaxFragment
    BY <1>0, <1>2, <1>3, <1>5
  <2>1. ~(LengthOf(r) < TagSize + 1) /\ ~(LengthOf(r) - TagSize > PlainCapacity)
    <3>1. LengthOf(r) \in Nat
      BY <1>0, <1>2, <1>5
    <3>2. ~(LengthOf(r) < TagSize + 1)
      BY <1>0, <2>0, <3>1
    <3>3. ~(LengthOf(r) - TagSize > PlainCapacity)
      BY <1>0, <2>0, <3>1 DEF PlainCapacity
    <3> QED BY <3>2, <3>3
  <2>2. TypeIndex(PlainOf(r)) # 0
    BY <1>0, <1>2, <1>5
  <2> QED BY <2>1, <2>2, <1>1, <1>2, <1>5 DEF UnprotectError
<1>7. Len(r) = 2 + LengthOf(r) /\ LengthOf(r) \in Nat /\ LengthOf(r) <= MaxFragment
  BY <1>0, <1>2, <1>3, <1>5
<1> QED BY <1>2, <1>5, <1>6, <1>7 DEF r

\* What is a record by its length: as long as its header says, or a header that says too much.
Frame(r) ==
    /\ r \in Seq(Nat) /\ Len(r) \in Nat /\ Len(r) >= 2 /\ LengthOf(r) \in Nat
    /\ Len(r) = 2 + LengthOf(r) \/ (Len(r) = 2 /\ LengthOf(r) > MaxFragment)

LEMMA FragmentFrame ==
    ASSUME NEW plain \in Seq(Nat), NEW tag \in Nat PROVE Frame(Fragment(plain, tag))
<1>1. Len(plain) \in Nat /\ TagSize \in Nat
  BY FormatAssumption, LenProperties
<1>2. /\ Fragment(plain, tag) \in Seq(Nat)
      /\ Len(Fragment(plain, tag)) = 2 + Len(plain) + TagSize
      /\ LengthOf(Fragment(plain, tag)) = Len(plain) + TagSize
  BY FragmentIs
<1> QED BY <1>1, <1>2 DEF Frame

\* Whatever a malformed record is wrong in, the client refuses it, by its header or when it
\* is unprotected.
LEMMA MalformedIs ==
    ASSUME peerSeq \in Nat, NEW r \in MalformedRecords
    PROVE  /\ Frame(r) /\ r[1] # ChangeCipherSpec
           /\ r[1] = ApplicationData /\ LengthOf(r) <= MaxFragment
                 => UnprotectError(r, peerSeq) # "OK"
<1>0. /\ TagSize \in Nat /\ TagSize > 0 /\ MaxFragment \in Nat /\ MaxContent \in Nat
      /\ ApplicationData = 23 /\ ChangeCipherSpec = 20
  BY FormatAssumption DEF ApplicationData, ChangeCipherSpec
<1>1. \A k \in Nat : /\ Zeros(k) \in Seq(Nat) /\ Len(Zeros(k)) = k
                    /\ \A i \in 1..k : Zeros(k)[i] = 0
  BY DEF Zeros
<1>2. CASE r = <<ApplicationData, MaxFragment + 1>>
  <2>1. r \in Seq(Nat) /\ Len(r) = 2 /\ r[1] = 23 /\ LengthOf(r) = MaxFragment + 1
    BY <1>0, <1>2 DEF LengthOf
  <2> QED BY <2>1, <1>0 DEF Frame
<1>3. CASE r = <<ApplicationData, TagSize - 1>> \o Zeros(TagSize - 1)
  <2> DEFINE h == <<ApplicationData, TagSize - 1>>
             z == Zeros(TagSize - 1)
  <2>1. h \in Seq(Nat) /\ Len(h) = 2 /\ h[1] = 23 /\ h[2] = TagSize - 1
    BY <1>0
  <2>2. z \in Seq(Nat) /\ Len(z) = TagSize - 1
    BY <1>0, <1>1
  <2>3. r = h \o z
    BY <1>3
  <2> HIDE DEF h, z
  <2>4. r \in Seq(Nat) /\ Len(r) = 2 + (TagSize - 1) /\ r[1] = 23 /\ r[2] = TagSize - 1
    <3>1. r \in Seq(Nat) /\ Len(r) = Len(h) + Len(z) /\ \A i \in 1..Len(h) : r[i] = h[i]
      BY <2>1, <2>2, <2>3, Joined
    <3> QED BY <3>1, <2>1, <2>2
  <2>5. UnprotectError(r, peerSeq) # "OK"
    BY <2>4, <1>0 DEF UnprotectError, LengthOf
  <2> QED BY <2>4, <2>5, <1>0 DEF Frame, LengthOf
<1>4. CASE r = <<22, 1, 1>>
  <2>1. r \in Seq(Nat) /\ Len(r) = 3 /\ r[1] = 22 /\ LengthOf(r) = 1
    BY <1>4 DEF LengthOf
  <2> QED BY <2>1, <1>0 DEF Frame
<1>5. ASSUME NEW plain \in Seq(Nat), NEW tag \in Nat, r = Fragment(plain, tag),
             \/ tag # peerSeq \/ TypeIndex(plain) = 0 \/ TypeOf(plain) \notin ContentTypes
      PROVE  Frame(r) /\ r[1] # ChangeCipherSpec /\ UnprotectError(r, peerSeq) # "OK"
  <2>1. r[1] = 23 /\ PlainOf(r) = plain /\ (Verifies(r, peerSeq) <=> tag = peerSeq)
    BY <1>0, <1>5, FragmentIs
  <2>2. UnprotectError(r, peerSeq) # "OK"
    BY <2>1, <1>5 DEF UnprotectError
  <2> QED BY <2>1, <2>2, <1>0, <1>5, FragmentFrame
<1>6. CASE r = Fragment(Zeros(MaxContent), peerSeq)
  <2>1. TypeIndex(Zeros(MaxContent)) = 0
    BY <1>0, <1>1 DEF TypeIndex, NonZeros
  <2> QED BY <2>1, <1>0, <1>1, <1>5, <1>6
<1>7. CASE r = Fragment(<<1, 19>>, peerSeq)
  <2> DEFINE p == <<1, 19>>
  <2>1. /\ p \in Seq(Nat) /\ Len(p) = 2 /\ p[2] = 19 /\ 1 < Len(p)
        /\ \A i \in 3..Len(p) : p[i] = 0
    OBVIOUS
  <2> HIDE DEF p
  <2>2. TypeIndex(p) = 2
    <3>1. ASSUME NEW n \in Nat, n < Len(p), p[n + 1] # 0, \A i \in (n + 2)..Len(p) : p[i] = 0
          PROVE  TypeIndex(p) = n + 1
      BY <2>1, <3>1, Scan, Zenon
    <3>2. 1 \in Nat /\ 1 < Len(p) /\ p[1 + 1] # 0 /\ \A i \in (1 + 2)..Len(p) : p[i] = 0
      BY <2>1
    <3> QED BY <3>1, <3>2
  <2>3. TypeOf(p) \notin ContentTypes
    BY <2>1, <2>2 DEF TypeOf, ContentTypes
  <2>4. r = Fragment(p, peerSeq)
    BY <1>7 DEF p
  <2> QED BY <2>1, <2>3, <2>4, <1>5
<1>8. CASE r = Fragment(<<1, ApplicationData>>, peerSeq + 1)
  <2>1. <<1, ApplicationData>> \in Seq(Nat) /\ peerSeq + 1 \in Nat /\ peerSeq + 1 # peerSeq
    BY <1>0
  <2> QED BY <2>1, <1>5, <1>8
<1> QED BY <1>2, <1>3, <1>4, <1>6, <1>7, <1>8 DEF MalformedRecords

-----------------------------------------------------------------------------
(* What is on the way *)

\* The octets the client has read of a record and those it has not read.
Way == record \o socket

\* A record with the octets of Data behind the first a up to the bth, or with none, that a
\* client at sequence number s accepts and is at t afterwards; and one that it refuses.
Good(r, a, b, s, t) ==
    \/ /\ t = s + 1 /\ a <= b
       /\ \E pad \in 0..MaxPadding :
             /\ FragmentLength(b - a, pad) <= MaxFragment
             /\ r = Protected(ApplicationData, Between(Data, a, b), pad, s)
    \/ r = <<ChangeCipherSpec, 1, 1>> /\ b = a /\ t = s
Bad(r, a, b, s, t) == ~peerOk /\ r \in MalformedRecords /\ b = a /\ t = s

\* n records are on the way: e are their ends, c the places in Data and q the sequence
\* numbers they lead to.  Only the last can be malformed.
Places(n, e, c, q) ==
    /\ e \in [0..n -> Nat] /\ c \in [0..n -> 0..Len(Data)] /\ q \in [0..n -> Nat]
    /\ e[0] = 0 /\ \A i, j \in 0..n : i <= j => e[i] <= e[j]
Reaches(n, e, c, q) ==
    /\ e[n] = Len(Way) /\ c[n] = peerSent /\ q[n] = peerSeq
    /\ c[0] = Len(got) + Len(pending) /\ q[0] = seq
Record(e, i) == Between(Way, e[i - 1], e[i])
Records(n, e, c, q) ==
    /\ \A i \in 1..n : \/ Good(Record(e, i), c[i - 1], c[i], q[i - 1], q[i])
                       \/ i = n /\ Bad(Record(e, i), c[i - 1], c[i], q[i - 1], q[i])
    /\ ~peerOk => n # 0 /\ Bad(Record(e, n), c[n - 1], c[n], q[n - 1], q[n])

\* A peer that has kept to the limit has kept to it in each of them.
Kept(n, c) == peerKept => \A i \in 1..n : c[i] - c[i - 1] <= MaxContent

WayIs(n, e, c, q) ==
    Places(n, e, c, q) /\ Reaches(n, e, c, q) /\ Records(n, e, c, q) /\ Kept(n, c)

\* Of a connection that has failed, or behind an overrun, nothing is said: nothing more is read.
Arrived == state = "CONNECTED" =>
              \E n \in Nat : \E e, q \in [0..n -> Nat] : \E c \in [0..n -> 0..Len(Data)] :
                  WayIs(n, e, c, q)

LEMMA GoodIs ==
    ASSUME NEW r, NEW a \in 0..Len(Data), NEW b \in 0..Len(Data), NEW s \in Nat, NEW t \in Nat,
           Good(r, a, b, s, t)
    PROVE  /\ Frame(r) /\ LengthOf(r) <= MaxFragment
           /\ r[1] \in {ChangeCipherSpec, ApplicationData}
           /\ r[1] = ChangeCipherSpec => b = a /\ t = s
           /\ r[1] = ApplicationData =>
                 /\ UnprotectError(r, s) = "OK" /\ t = s + 1
                 /\ ContentOf(PlainOf(r)) = Between(Data, a, b)
                 /\ a <= b
<1>z. ChangeCipherSpec # ApplicationData
  BY DEF ChangeCipherSpec, ApplicationData
<1>0. /\ Data \in Seq(Nat) /\ Len(Data) \in Nat /\ MaxFragment \in Nat /\ MaxPadding \in Nat
      /\ TagSize \in Nat /\ 1 <= MaxFragment
  BY DataType, FormatAssumption
<1>1. CASE r = <<ChangeCipherSpec, 1, 1>> /\ b = a /\ t = s
  <2>1. /\ r \in Seq(Nat) /\ Len(r) = 3 /\ r[1] = ChangeCipherSpec /\ LengthOf(r) = 1
    BY <1>1 DEF LengthOf, ChangeCipherSpec
  <2>2. Frame(r) /\ LengthOf(r) <= MaxFragment
    BY <2>1, <1>0 DEF Frame
  <2> QED BY <2>1, <2>2, <1>z, <1>1
<1>2. ASSUME t = s + 1, a <= b, NEW pad \in 0..MaxPadding,
             FragmentLength(b - a, pad) <= MaxFragment,
             r = Protected(ApplicationData, Between(Data, a, b), pad, s)
      PROVE  /\ Frame(r) /\ LengthOf(r) <= MaxFragment
             /\ r[1] = ApplicationData /\ UnprotectError(r, s) = "OK"
             /\ ContentOf(PlainOf(r)) = Between(Data, a, b)
  <2> DEFINE content == Between(Data, a, b)
  <2>1. content \in Seq(Nat) /\ Len(content) = b - a
    BY <1>0, <1>2, BetweenIs
  <2> HIDE DEF content
  <2>2. pad \in Nat /\ FragmentLength(Len(content), pad) <= MaxFragment
    BY <1>0, <1>2, <2>1
  <2>3. r = Protected(ApplicationData, content, pad, s)
    BY <1>2 DEF content
  <2>4. /\ r \in Seq(Nat) /\ Len(r) = 2 + LengthOf(r) /\ LengthOf(r) \in Nat
        /\ r[1] = ApplicationData /\ LengthOf(r) <= MaxFragment
        /\ UnprotectError(r, s) = "OK" /\ ContentOf(PlainOf(r)) = content
    BY <2>1, <2>2, <2>3, ProtectedIs
  <2> QED BY <2>4, <1>0 DEF Frame, content
<1> QED BY <1>z, <1>1, <1>2 DEF Good

\* A read stops at the end of the record whose header it has.
Framed ==
    /\ calling => state = "CONNECTED"
    /\ ~calling => record = <<>>
    /\ Len(record) <= 2 \/ (HeaderFits /\ Len(record) <= 2 + LengthOf(record))

\* What the client has read is the beginning of the first record on the way.
LEMMA First ==
    ASSUME TypeOK, HasHeader, NEW n \in Nat, NEW e, NEW c, NEW q, WayIs(n, e, c, q)
    PROVE  /\ n >= 1 /\ e[1] \in 0..Len(Way)
           /\ Frame(Record(e, 1)) /\ Record(e, 1) = Between(Way, 0, e[1])
           /\ record[1] = Record(e, 1)[1] /\ LengthOf(record) = LengthOf(Record(e, 1))
           /\ \/ Good(Record(e, 1), c[0], c[1], q[0], q[1])
              \/ n = 1 /\ Bad(Record(e, 1), c[0], c[1], q[0], q[1])
           /\ Whole => record = Record(e, 1) /\ e[1] = Len(record)
<1> DEFINE r == Record(e, 1)
<1>0. /\ record \in Seq(Nat) /\ socket \in Seq(Nat) /\ peerSeq \in Nat
      /\ Len(record) \in Nat /\ Len(socket) \in Nat /\ Len(record) >= 2
  BY LenProperties DEF TypeOK, HasHeader
<1>1. /\ Way \in Seq(Nat) /\ Len(Way) = Len(record) + Len(socket)
      /\ \A i \in 1..Len(record) : Way[i] = record[i]
  BY <1>0, Joined DEF Way
<1>2. n >= 1 /\ n \in 0..n /\ 1 \in 0..n /\ 0 \in 0..n
  BY <1>0, <1>1 DEF WayIs, Places, Reaches
<1>3. e[0] = 0 /\ e[1] \in Nat /\ e[1] <= Len(Way)
  BY <1>2 DEF WayIs, Places, Reaches
<1>4. r = Between(Way, 0, e[1])
  BY <1>3 DEF Record
<1>5. r \in Seq(Nat) /\ Len(r) = e[1] /\ \A i \in 1..e[1] : r[i] = Way[i]
  <2>1. 0 \in 0..Len(Way) /\ e[1] \in 0..Len(Way) /\ e[1] - 0 = e[1]
    BY <1>0, <1>1, <1>3
  <2>2. /\ Between(Way, 0, e[1]) \in Seq(Nat) /\ Len(Between(Way, 0, e[1])) = e[1] - 0
        /\ \A i \in 1..(e[1] - 0) : Between(Way, 0, e[1])[i] = Way[0 + i]
    BY <1>1, <2>1, BetweenIs
  <2>3. \A i \in 1..e[1] : 0 + i = i
    BY <1>3
  <2> HIDE DEF r
  <2> QED BY <1>4, <2>1, <2>2, <2>3
<1> HIDE DEF r
<1>6. \/ Good(r, c[0], c[1], q[0], q[1])
      \/ n = 1 /\ Bad(r, c[0], c[1], q[0], q[1])
  <2>1. 1 \in 1..n /\ 1 - 1 = 0
    BY <1>2
  <2> QED BY <2>1 DEF WayIs, Records, r
<1>7. Frame(r)
  <2>1. c[0] \in 0..Len(Data) /\ c[1] \in 0..Len(Data) /\ q[0] \in Nat /\ q[1] \in Nat
    BY <1>2 DEF WayIs, Places
  <2> QED BY <1>0, <1>6, <2>1, GoodIs, MalformedIs DEF Bad
<1>8. record[1] = r[1] /\ LengthOf(record) = LengthOf(r)
  <2>1. e[1] >= 2
    BY <1>5, <1>7 DEF Frame
  <2>2. ASSUME NEW i \in 1..2 PROVE record[i] = r[i]
    <3>1. i \in 1..Len(record) /\ i \in 1..e[1]
      BY <2>1, <1>0, <1>3
    <3> QED BY <3>1, <1>1, <1>5
  <2> QED BY <2>2 DEF LengthOf
<1>9. ASSUME Whole PROVE record = r /\ e[1] = Len(record)
  <2>1. LengthOf(record) \in Nat /\ LengthOf(record) <= MaxFragment /\ MaxFragment \in Nat
    BY <1>7, <1>8, <1>9, FormatAssumption DEF Whole, HeaderFits, Frame
  <2>2. Len(record) = 2 + LengthOf(record)
    BY <2>1, <1>0, <1>9 DEF Whole, Wanted
  <2>3. Len(r) = Len(record)
    BY <2>1, <2>2, <1>7, <1>8 DEF Frame
  <2>4. record = r
    BY <2>3, <1>0, <1>1, <1>5, SeqEqual
  <2> QED BY <2>3, <2>4, <1>5
<1> QED BY <1>2, <1>3, <1>4, <1>6, <1>7, <1>8, <1>9 DEF r

-----------------------------------------------------------------------------
(* What a step does to what is on the way *)

\* A step that moves octets from the socket, or none.
LEMMA SameWay ==
    ASSUME Arrived, Way' = Way, UNCHANGED <<peerVars, seq>>,
           (Len(got) + Len(pending))' = Len(got) + Len(pending),
           state' = "CONNECTED" => state = "CONNECTED"
    PROVE  Arrived'
<1>1. ASSUME NEW n \in Nat, NEW e, NEW c, NEW q, WayIs(n, e, c, q) PROVE WayIs(n, e, c, q)'
  <2>0. /\ peerSent' = peerSent /\ peerSeq' = peerSeq /\ peerOk' = peerOk /\ seq' = seq
        /\ peerKept' = peerKept
    BY DEF peerVars
  <2>1. Places(n, e, c, q)'
    BY <1>1 DEF WayIs, Places
  <2>2. Reaches(n, e, c, q)'
    BY <1>1, <2>0 DEF WayIs, Reaches
  <2>3. \A r, a, b, s, t : /\ Good(r, a, b, s, t)' <=> Good(r, a, b, s, t)
                           /\ Bad(r, a, b, s, t)' <=> Bad(r, a, b, s, t)
    BY <2>0 DEF Good, Bad, MalformedRecords
  <2>4. \A i \in 1..n : Record(e, i)' = Record(e, i)
    BY DEF Record
  <2>5. n # 0 => n \in 1..n
    BY <1>1
  <2>6. Records(n, e, c, q)'
    BY <1>1, <2>0, <2>3, <2>4, <2>5 DEF WayIs, Records
  <2>7. Kept(n, c)'
    BY <1>1, <2>0 DEF WayIs, Kept
  <2> QED BY <2>1, <2>2, <2>6, <2>7 DEF WayIs
<1> QED BY <1>1 DEF Arrived

\* The peer writes a record.
LEMMA Extended ==
    ASSUME TypeOK, TypeOK', Arrived, peerOk, NEW r \in Seq(Nat),
           socket' = socket \o r, UNCHANGED <<state, record, seq, got, pending>>,
           \/ peerOk' /\ Good(r, peerSent, peerSent', peerSeq, peerSeq')
           \/ ~peerOk' /\ r \in MalformedRecords /\ UNCHANGED <<peerSent, peerSeq>>,
           peerKept' => peerKept /\ peerSent' - peerSent <= MaxContent
    PROVE  Arrived'
<1> SUFFICES ASSUME state = "CONNECTED"
             PROVE  \E n \in Nat : \E e, q \in [0..n -> Nat] : \E c \in [0..n -> 0..Len(Data)] :
                       WayIs(n, e, c, q)'
  BY DEF Arrived
<1>1. PICK n \in Nat : \E e, q \in [0..n -> Nat] : \E c \in [0..n -> 0..Len(Data)] :
                          WayIs(n, e, c, q)
  BY DEF Arrived
<1>2. PICK e \in [0..n -> Nat], q \in [0..n -> Nat], c \in [0..n -> 0..Len(Data)] :
              WayIs(n, e, c, q)
  BY <1>1
<1> DEFINE m == n + 1
<1>3. /\ record \in Seq(Nat) /\ socket \in Seq(Nat) /\ peerSeq' \in Nat
      /\ peerSent' \in 0..Len(Data) /\ Len(r) \in Nat
  BY LenProperties DEF TypeOK
<1>4. Way \in Seq(Nat) /\ Len(Way) \in Nat
  BY <1>3, Joined, LenProperties DEF Way
<1>5. Way' = Way \o r /\ Len(Way') = Len(Way) + Len(r)
  <2>1. Way' = record \o (socket \o r)
    BY DEF Way
  <2>2. (record \o socket) \o r = record \o (socket \o r)
    BY <1>3, ConcatAssociates
  <2>3. Way' = Way \o r
    BY <2>1, <2>2 DEF Way
  <2>4. Len(Way \o r) = Len(Way) + Len(r)
    BY <1>4, Joined
  <2> QED BY <2>3, <2>4
<1>6. /\ e[0] = 0 /\ e[n] = Len(Way) /\ c[n] = peerSent /\ q[n] = peerSeq
      /\ c[0] = Len(got) + Len(pending) /\ q[0] = seq
      /\ \A i, j \in 0..n : i <= j => e[i] <= e[j]
  BY <1>2 DEF WayIs, Places, Reaches
<1>7. \A i \in 1..n : Good(Record(e, i), c[i - 1], c[i], q[i - 1], q[i])
  BY <1>2 DEF WayIs, Records, Bad
<1>8. m \in Nat /\ \A i \in 0..n : i \in 0..m /\ i # m
  OBVIOUS
<1>9. PICK e1 \in [0..m -> Nat], q1 \in [0..m -> Nat], c1 \in [0..m -> 0..Len(Data)] :
        /\ \A i \in 0..n : e1[i] = e[i] /\ c1[i] = c[i] /\ q1[i] = q[i]
        /\ e1[m] = e[n] + Len(r) /\ c1[m] = peerSent' /\ q1[m] = peerSeq'
  <2> DEFINE ee == [i \in 0..m |-> IF i = m THEN e[n] + Len(r) ELSE e[i]]
             qq == [i \in 0..m |-> IF i = m THEN peerSeq' ELSE q[i]]
             cc == [i \in 0..m |-> IF i = m THEN peerSent' ELSE c[i]]
  <2>1. \A i \in 0..m : i = m \/ i \in 0..n
    OBVIOUS
  <2>2. m \in 0..m /\ n \in 0..n
    OBVIOUS
  <2> HIDE DEF m
  <2>3. ee \in [0..m -> Nat] /\ qq \in [0..m -> Nat] /\ cc \in [0..m -> 0..Len(Data)]
    <3>1. ASSUME NEW i \in 0..m PROVE (IF i = m THEN e[n] + Len(r) ELSE e[i]) \in Nat
      <4>1. e[n] + Len(r) \in Nat
        <5>1. e[n] \in Nat
          BY <2>2
        <5> QED BY <5>1, <1>3, SumsAre
      <4> QED BY <2>1, <4>1
    <3>2. ASSUME NEW i \in 0..m PROVE (IF i = m THEN peerSeq' ELSE q[i]) \in Nat
      BY <1>3, <2>1
    <3>3. ASSUME NEW i \in 0..m PROVE (IF i = m THEN peerSent' ELSE c[i]) \in 0..Len(Data)
      BY <1>3, <2>1
    <3>4. ee \in [0..m -> Nat]
      BY <3>1
    <3>5. qq \in [0..m -> Nat]
      BY <3>2
    <3>6. cc \in [0..m -> 0..Len(Data)]
      BY <3>3
    <3> QED BY <3>4, <3>5, <3>6
  <2>4. \A i \in 0..n : ee[i] = e[i] /\ cc[i] = c[i] /\ qq[i] = q[i]
    BY <1>8
  <2>5. ee[m] = e[n] + Len(r) /\ cc[m] = peerSent' /\ qq[m] = peerSeq'
    BY <2>2
  <2> HIDE DEF ee, qq, cc
  <2> QED BY <2>3, <2>4, <2>5
<1> HIDE DEF m
<1>10. Places(m, e1, c1, q1)
  <2>1. ASSUME NEW i \in 0..m, NEW j \in 0..m, i <= j PROVE e1[i] <= e1[j]
    <3>1. CASE j \in 0..n
      <4>1. i \in 0..n
        BY <3>1, <2>1
      <4> QED BY <4>1, <3>1, <2>1, <1>6, <1>9
    <3>2. CASE j = m /\ i \in 0..n
      <4>1. e[i] <= e[n] /\ e[i] \in Nat /\ e[n] \in Nat
        <5>1. n \in 0..n /\ i <= n
          BY <3>2
        <5> QED BY <5>1, <3>2, <1>6
      <4>2. e1[i] = e[i] /\ e1[j] = e[n] + Len(r) /\ Len(r) \in Nat
        BY <3>2, <1>3, <1>9
      <4> QED BY <4>1, <4>2, SumsAre
    <3>3. CASE i = m /\ j = m
      BY <3>3, <1>9
    <3> QED BY <3>1, <3>2, <3>3, <2>1 DEF m
  <2>2. e1[0] = 0
    BY <1>6, <1>9
  <2> QED BY <2>1, <2>2, <1>9 DEF Places
<1>11. Reaches(m, e1, c1, q1)'
  <2>1. e1[m] = Len(Way')
    BY <1>5, <1>6, <1>9
  <2>2. c1[0] = Len(got) + Len(pending) /\ q1[0] = seq
    BY <1>6, <1>9
  <2> QED BY ONLY <2>1, <2>2, <1>9, UNCHANGED <<seq, got, pending>> DEF Reaches
<1>12. ASSUME NEW i \in 1..n PROVE Record(e1, i)' = Record(e, i) /\ i - 1 \in 0..n /\ i \in 0..n
  <2>1. i - 1 \in 0..n /\ i \in 0..n /\ n \in 0..n
    OBVIOUS
  <2>2. e[i - 1] \in 0..Len(Way) /\ e[i] \in e[i - 1]..Len(Way)
    BY <2>1, <1>4, <1>6
  <2>3. Between(Way \o r, e[i - 1], e[i]) = Between(Way, e[i - 1], e[i])
    BY <2>2, <1>4, BetweenOfJoined
  <2> QED BY <2>1, <2>3, <1>5, <1>9 DEF Record
<1>13. Record(e1, m)' = r /\ m - 1 = n /\ n \in 0..n
  <2>1. m - 1 = n /\ n \in 0..n
    BY DEF m
  <2>2. Record(e1, m)' = Between(Way \o r, Len(Way), Len(Way) + Len(r))
    BY <2>1, <1>5, <1>6, <1>9 DEF Record
  <2> QED BY <2>1, <2>2, <1>4, BetweenOfJoined
<1>14. /\ c1[m - 1] = peerSent /\ c1[m] = peerSent' /\ q1[m - 1] = peerSeq /\ q1[m] = peerSeq'
  BY <1>6, <1>9, <1>13
<1>15. \/ peerOk' /\ Good(Record(e1, m)', c1[m - 1], c1[m], q1[m - 1], q1[m])
       \/ ~peerOk' /\ Bad(Record(e1, m), c1[m - 1], c1[m], q1[m - 1], q1[m])'
  <2>1. CASE peerOk' /\ Good(r, peerSent, peerSent', peerSeq, peerSeq')
    BY <2>1, <1>13, <1>14
  <2>2. CASE ~peerOk' /\ r \in MalformedRecords /\ UNCHANGED <<peerSent, peerSeq>>
    <3>1. MalformedRecords' = MalformedRecords
      BY <2>2 DEF MalformedRecords
    <3> QED BY <2>2, <3>1, <1>13, <1>14 DEF Bad
  <2> QED BY <2>1, <2>2
<1>16. Records(m, e1, c1, q1)'
  <2>1. \A i \in 1..n : Good(Record(e1, i)', c1[i - 1], c1[i], q1[i - 1], q1[i])
    BY <1>7, <1>9, <1>12
  <2>2. \A i \in 1..m : i \in 1..n \/ i = m
    BY DEF m
  <2>3. m # 0
    BY DEF m
  <2> QED BY <2>1, <2>2, <2>3, <1>15 DEF Records, Good
<1>17. Kept(m, c1)'
  <2> SUFFICES ASSUME peerKept', NEW i \in 1..m PROVE c1[i] - c1[i - 1] <= MaxContent
    BY DEF Kept
  <2>1. CASE i \in 1..n
    <3>1. c1[i] = c[i] /\ c1[i - 1] = c[i - 1]
      BY <2>1, <1>9, <1>12
    <3>2. c[i] - c[i - 1] <= MaxContent
      BY <2>1, <1>2 DEF WayIs, Kept
    <3> QED BY <3>1, <3>2
  <2>2. CASE i = m
    BY <2>2, <1>14
  <2> QED BY <2>1, <2>2 DEF m
<1> QED BY <1>8, <1>9, <1>10, <1>11, <1>16, <1>17 DEF WayIs, Places

\* A record that is accepted is not one that is refused.
LEMMA NotBoth ==
    ASSUME peerSeq \in Nat, NEW r, NEW a \in 0..Len(Data), NEW b \in 0..Len(Data),
           NEW t \in Nat, Good(r, a, b, peerSeq, t)
    PROVE  r \notin MalformedRecords
BY GoodIs, MalformedIs

\* The client takes the first record from the way.
LEMMA Shortened ==
    ASSUME TypeOK, NEW n \in Nat, NEW e \in [0..n -> Nat], NEW q \in [0..n -> Nat],
           NEW c \in [0..n -> 0..Len(Data)], WayIs(n, e, c, q),
           n >= 1, e[1] = Len(record), record' = <<>>, UNCHANGED <<socket, peerVars>>,
           Good(Record(e, 1), c[0], c[1], q[0], q[1]),
           c[1] = (Len(got) + Len(pending))', q[1] = seq'
    PROVE  Arrived'
<1> DEFINE m  == n - 1
           e1 == [i \in 0..m |-> e[i + 1] - e[1]]
           c1 == [i \in 0..m |-> c[i + 1]]
           q1 == [i \in 0..m |-> q[i + 1]]
<1>0. /\ record \in Seq(Nat) /\ socket \in Seq(Nat) /\ peerSeq \in Nat
      /\ peerSent' = peerSent /\ peerSeq' = peerSeq /\ peerOk' = peerOk /\ peerKept' = peerKept
  BY DEF TypeOK, peerVars
<1>1. Way \in Seq(Nat) /\ Len(Way) \in Nat /\ Len(record) \in Nat /\ Len(record) <= Len(Way)
  BY <1>0, Joined, LenProperties DEF Way
<1>2. Way' = Drop(Way, e[1]) /\ Len(Way') = Len(Way) - e[1] /\ e[1] \in 0..Len(Way)
  <2>1. Way' = socket
    BY <1>0 DEF Way
  <2>2. Drop(Way, e[1]) = socket
    BY <1>0, BetweenOfJoined DEF Way
  <2>3. e[1] \in 0..Len(Way)
    BY <1>1
  <2>4. Len(Drop(Way, e[1])) = Len(Way) - e[1]
    BY <1>1, <2>3, TakeDrop
  <2> QED BY <2>1, <2>2, <2>3, <2>4
<1>3. /\ e[0] = 0 /\ e[n] = Len(Way) /\ c[n] = peerSent /\ q[n] = peerSeq
      /\ \A i, j \in 0..n : i <= j => e[i] <= e[j]
  BY DEF WayIs, Places, Reaches
<1>4. m \in Nat /\ m + 1 = n /\ \A i \in 0..m : i + 1 \in 0..n /\ i + 1 \in 1..n /\ 1 <= i + 1
  OBVIOUS
<1>5. 1 \in 0..n /\ 0 \in 0..m /\ m \in 0..m
  OBVIOUS
<1> HIDE DEF m
<1>6. \A i \in 0..m : e[i + 1] \in Nat /\ e[1] \in Nat /\ e[1] <= e[i + 1]
  BY <1>3, <1>4, <1>5
<1>7. /\ e1 \in [0..m -> Nat] /\ c1 \in [0..m -> 0..Len(Data)] /\ q1 \in [0..m -> Nat]
      /\ \A i \in 0..m : e1[i] = e[i + 1] - e[1] /\ c1[i] = c[i + 1] /\ q1[i] = q[i + 1]
  <2>1. ASSUME NEW i \in 0..m PROVE e[i + 1] - e[1] \in Nat
    <3>1. PICK x \in Nat, y \in Nat : x = e[i + 1] /\ y = e[1] /\ y <= x
      BY <1>6
    <3> QED BY <3>1, SumsAre
  <2>2. \A i \in 0..m : c[i + 1] \in 0..Len(Data) /\ q[i + 1] \in Nat
    BY <1>4
  <2>3. e1 \in [0..m -> Nat]
    BY <2>1
  <2>4. c1 \in [0..m -> 0..Len(Data)] /\ q1 \in [0..m -> Nat]
    BY <2>2
  <2>5. \A i \in 0..m : e1[i] = e[i + 1] - e[1] /\ c1[i] = c[i + 1] /\ q1[i] = q[i + 1]
    OBVIOUS
  <2> QED BY <2>3, <2>4, <2>5
<1> HIDE DEF e1, c1, q1
<1>8. Places(m, e1, c1, q1)
  <2>1. ASSUME NEW i \in 0..m, NEW j \in 0..m, i <= j PROVE e1[i] <= e1[j]
    <3>1. i + 1 \in 0..n /\ j + 1 \in 0..n /\ i + 1 <= j + 1
      BY <2>1, <1>4
    <3>2. e[i + 1] <= e[j + 1]
      BY <3>1, <1>3
    <3>3. e1[i] = e[i + 1] - e[1] /\ e1[j] = e[j + 1] - e[1]
      BY <1>7
    <3>4. e[i + 1] \in Nat /\ e[j + 1] \in Nat /\ e[1] \in Nat
      BY <1>6
    <3>5. \A x, y, z \in Nat : x <= y => x - z <= y - z
      OBVIOUS
    <3> QED BY <3>2, <3>3, <3>4, <3>5, Zenon
  <2>2. e1[0] = 0
    BY <1>5, <1>6, <1>7
  <2> QED BY <2>1, <2>2, <1>7 DEF Places
<1>9. Reaches(m, e1, c1, q1)'
  <2>1. e1[m] = Len(Way')
    BY <1>2, <1>3, <1>4, <1>5, <1>7
  <2>2. c1[m] = peerSent' /\ q1[m] = peerSeq'
    BY <1>0, <1>3, <1>4, <1>5, <1>7
  <2>3. c1[0] = c[1] /\ q1[0] = q[1]
    <3>1. c1[0] = c[0 + 1] /\ q1[0] = q[0 + 1]
      BY <1>5, <1>7
    <3> QED BY <3>1
  <2> QED BY <2>1, <2>2, <2>3 DEF Reaches
<1>10. ASSUME NEW i \in 1..m
       PROVE  /\ i + 1 \in 1..n /\ (i + 1 = n <=> i = m)
              /\ Record(e1, i)' = Record(e, i + 1)
              /\ c1[i - 1] = c[(i + 1) - 1] /\ c1[i] = c[i + 1]
              /\ q1[i - 1] = q[(i + 1) - 1] /\ q1[i] = q[i + 1]
  <2>1. /\ i - 1 \in 0..m /\ i \in 0..m /\ i \in 0..n /\ (i + 1) - 1 = i /\ (i - 1) + 1 = i
        /\ i + 1 \in 1..n /\ (i + 1 = n <=> i = m)
    BY <1>4
  <2>2. e1[i - 1] = e[i] - e[1] /\ e1[i] = e[i + 1] - e[1]
    BY <2>1, <1>7
  <2>3. /\ e[i] \in Nat /\ e[i + 1] \in Nat /\ e[1] \in Nat
        /\ e[1] <= e[i] /\ e[i] <= e[i + 1] /\ e[i + 1] <= Len(Way)
    <3>1. e[1] <= e[i]
      BY <2>1, <1>3, <1>5
    <3>2. i + 1 \in 0..n /\ i <= i + 1 /\ i + 1 <= n /\ n \in 0..n
      BY <2>1
    <3> QED BY <3>1, <3>2, <2>1, <1>3, <1>5
  <2> DEFINE x == e1[i - 1]  y == e1[i]
  <2>x. x = e[i] - e[1] /\ y = e[i + 1] - e[1]
    BY <2>2
  <2> HIDE DEF x, y
  <2>4. /\ x \in 0..(Len(Way) - e[1]) /\ y \in x..(Len(Way) - e[1])
        /\ e[1] + x = e[i] /\ e[1] + y = e[i + 1]
    <3>1. PICK l \in Nat, u \in Nat, v \in Nat, w \in Nat :
                l = Len(Way) /\ u = e[i] /\ v = e[i + 1] /\ w = e[1]
      BY <2>3, <1>1
    <3>2. w <= u /\ u <= v /\ v <= l /\ x = u - w /\ y = v - w
      BY <3>1, <2>3, <2>x
    <3>3. x \in 0..(l - w) /\ y \in x..(l - w) /\ w + x = u /\ w + y = v
      BY ONLY <3>2, l \in Nat, u \in Nat, v \in Nat, w \in Nat
    <3> QED BY <3>1, <3>3
  <2>5. Between(Drop(Way, e[1]), x, y) = Between(Way, e[1] + x, e[1] + y)
    BY <2>4, <1>1, <1>2, BetweenOfRest
  <2>6. Record(e1, i)' = Record(e, i + 1)
    BY <2>1, <2>4, <2>5, <1>2 DEF Record, x, y
  <2> QED BY <2>1, <2>6, <1>7
<1>11. \A r, a, b, s, t : Bad(r, a, b, s, t)' <=> Bad(r, a, b, s, t)
  BY <1>0 DEF Bad, MalformedRecords
<1>12. ~peerOk => m # 0 /\ Bad(Record(e, n), c[n - 1], c[n], q[n - 1], q[n])
  <2> SUFFICES ASSUME ~peerOk PROVE m # 0 /\ Bad(Record(e, n), c[n - 1], c[n], q[n - 1], q[n])
    OBVIOUS
  <2>1. Bad(Record(e, n), c[n - 1], c[n], q[n - 1], q[n])
    BY DEF WayIs, Records
  <2>2. ASSUME n = 1 PROVE FALSE
    <3>1. Record(e, 1) \in MalformedRecords /\ q[0] = peerSeq
      BY <2>1, <2>2, <1>3 DEF Bad
    <3>2. c[0] \in 0..Len(Data) /\ c[1] \in 0..Len(Data) /\ q[1] \in Nat
      BY <1>5
    <3> QED BY <3>1, <3>2, <1>0, NotBoth
  <2> QED BY <2>1, <2>2, <1>4
<1>13. Records(m, e1, c1, q1)'
  <2>1. ASSUME NEW i \in 1..m
        PROVE  \/ Good(Record(e1, i)', c1[i - 1], c1[i], q1[i - 1], q1[i])
               \/ i = m /\ Bad(Record(e1, i), c1[i - 1], c1[i], q1[i - 1], q1[i])'
    <3> DEFINE j == i + 1
    <3>1. \/ Good(Record(e, j), c[j - 1], c[j], q[j - 1], q[j])
          \/ j = n /\ Bad(Record(e, j), c[j - 1], c[j], q[j - 1], q[j])
      <4>1. j \in 1..n
        BY <1>10
      <4> HIDE DEF j
      <4> QED BY <4>1 DEF WayIs, Records
    <3>2. CASE Good(Record(e, j), c[j - 1], c[j], q[j - 1], q[j])
      BY <3>2, <1>10
    <3>3. CASE j = n /\ Bad(Record(e, j), c[j - 1], c[j], q[j - 1], q[j])
      BY <3>3, <1>0, <1>10 DEF Bad, MalformedRecords
    <3> QED BY <3>1, <3>2, <3>3
  <2>2. ASSUME ~peerOk PROVE m # 0 /\ Bad(Record(e1, m), c1[m - 1], c1[m], q1[m - 1], q1[m])'
    <3>1. m \in 1..m
      BY <2>2, <1>4, <1>12
    <3>2. m + 1 = n /\ m # 0
      BY <2>2, <1>4, <1>12
    <3>3. Bad(Record(e, m + 1), c[(m + 1) - 1], c[m + 1], q[(m + 1) - 1], q[m + 1])
      BY <2>2, <3>2, <1>12
    <3> QED BY <3>1, <3>2, <3>3, <1>0, <1>10 DEF Bad, MalformedRecords
  <2> QED BY <2>1, <2>2, <1>0 DEF Records, Good
<1>14. Kept(m, c1)'
  <2> SUFFICES ASSUME peerKept, NEW i \in 1..m PROVE c1[i] - c1[i - 1] <= MaxContent
    BY <1>0 DEF Kept
  <2> DEFINE j == i + 1
  <2>1. j \in 1..n /\ c1[i - 1] = c[j - 1] /\ c1[i] = c[j]
    BY <1>10
  <2> HIDE DEF j
  <2>2. c[j] - c[j - 1] <= MaxContent
    BY <2>1 DEF WayIs, Kept
  <2> QED BY <2>1, <2>2
<1> QED BY <1>4, <1>7, <1>8, <1>9, <1>13, <1>14 DEF Arrived, WayIs, Places

-----------------------------------------------------------------------------
(* The invariant *)

\* Why a connection has failed, as long as the peer did nothing wrong.
Blameless == peerOk /\ state = "FAILED" => result \in {"CLOSED", "IO"}

PendingOK ==
    /\ calling => pending = <<>>
    /\ state # "OVERRUN" => Len(pending) <= PendingCapacity
    /\ peerKept => state # "OVERRUN"

IInv == TypeOK /\ Framed /\ Arrived /\ DeliveredInOrder /\ PendingOK /\ Blameless

LEMMA Sizes ==
    /\ MaxFragment \in Nat /\ MaxContent \in Nat /\ TagSize \in Nat /\ PeerContent \in Nat
    /\ \A size \in OutSizes \cup {0} : size \in Nat
  BY FormatAssumption, ReceiveAssumption

\* What is handed out and what is kept are together what there was.
LEMMA DeliverIs ==
    ASSUME NEW plain \in Seq(Nat), NEW size \in Nat, got \in Seq(Nat), Deliver(plain, size)
    PROVE  /\ got' \in Seq(Nat) /\ pending' \in Seq(Nat)
           /\ got' \o pending' = got \o plain
           /\ Len(got') + Len(pending') = Len(got) + Len(plain)
           /\ Len(pending') = Len(plain) - Least(Len(plain), size)
           /\ Len(pending') <= Len(plain)
<1> DEFINE n == Least(Len(plain), size)
           t == Take(plain, n)  d == Drop(plain, n)
<1>0. n \in 0..Len(plain) /\ Len(plain) \in Nat /\ Len(got) \in Nat
  BY LenProperties DEF Least
<1>1. got' = got \o t /\ pending' = d
  BY DEF Deliver
<1>a. n = Least(Len(plain), size)
  OBVIOUS
<1> HIDE DEF n
<1>2. /\ t \in Seq(Nat) /\ Len(t) = n /\ d \in Seq(Nat) /\ Len(d) = Len(plain) - n
      /\ t \o d = plain
  BY <1>0, TakeDrop
<1> HIDE DEF t, d
<1>3. got \o t \in Seq(Nat) /\ Len(got \o t) = Len(got) + n
  BY <1>2, Joined
<1>4. (got \o t) \o d = got \o plain
  BY <1>2, ConcatAssociates
<1> QED BY <1>0, <1>1, <1>a, <1>2, <1>3, <1>4

\* A record that is not taken apart: only the state, the record and the socket change.
LEMMA FailKeeps ==
    ASSUME IInv, calling, NEW e \in {"CLOSED", "IO", "BAD_RECORD", "VERIFY"}, Fail(e),
           UNCHANGED <<seq, out, pending, got, socket, peerVars>>,
           peerOk => e \in {"CLOSED", "IO"}
    PROVE  IInv'
<1>1. TypeOK'
  BY EmptySeq DEF IInv, TypeOK, Fail, peerVars, Results
<1>2. Framed' /\ Arrived'
  BY DEF Framed, Arrived, Fail
<1>3. DeliveredInOrder' /\ PendingOK' /\ Blameless'
  BY DEF IInv, Framed, DeliveredInOrder, PendingOK, Blameless, Fail, peerVars
<1> QED BY <1>1, <1>2, <1>3 DEF IInv

LEMMA PeerStep ==
    ASSUME IInv, peerOk, NEW r \in Seq(Nat), socket' = socket \o r, UNCHANGED clientVars,
           peerSent' \in 0..Len(Data), peerSeq' \in Nat, peerOk' \in BOOLEAN,
           peerKept' \in BOOLEAN, peerKept' => peerKept /\ peerSent' - peerSent <= MaxContent,
           \/ peerOk' /\ Good(r, peerSent, peerSent', peerSeq, peerSeq')
           \/ ~peerOk' /\ r \in MalformedRecords /\ UNCHANGED <<peerSent, peerSeq>>
    PROVE  IInv'
<1>0. /\ UNCHANGED <<state, result, seq, calling, out, record, pending, got>>
      /\ socket \o r \in Seq(Nat)
  BY Joined DEF clientVars, IInv, TypeOK
<1>1. TypeOK'
  BY <1>0 DEF IInv, TypeOK
<1>2. Framed'
  BY <1>0 DEF IInv, Framed, HeaderFits, LengthOf
<1>3. Arrived'
  BY <1>0, <1>1, Extended DEF IInv
<1>4. DeliveredInOrder' /\ PendingOK' /\ Blameless'
  BY <1>0 DEF IInv, DeliveredInOrder, PendingOK, Blameless
<1> QED BY <1>1, <1>2, <1>3, <1>4 DEF IInv

LEMMA WriteStep ==
    ASSUME IInv, NEW n \in 0..PeerContent, NEW padding \in 0..MaxPadding, PeerWrites(n, padding)
    PROVE  IInv'
<1> DEFINE a == peerSent  b == peerSent + n
           content == Between(Data, a, b)
           r == Protected(ApplicationData, content, padding, peerSeq)
<1>0. /\ Data \in Seq(Nat) /\ Len(Data) \in Nat /\ MaxPadding \in Nat
      /\ a \in 0..Len(Data) /\ peerSeq \in Nat /\ n \in Nat
  BY DataType, Sizes, FormatAssumption DEF IInv, TypeOK
<1>1. /\ peerOk /\ n <= PeerContent /\ b <= Len(Data) /\ FragmentLength(n, padding) <= MaxFragment
      /\ socket' = socket \o r /\ peerSent' = b /\ peerSeq' = peerSeq + 1 /\ peerOk' = peerOk
      /\ peerKept' = (peerKept /\ n <= MaxContent)
      /\ UNCHANGED clientVars
  BY DEF PeerWrites, PeerMayWrite, Between
<1>2. b \in a..Len(Data) /\ b \in 0..Len(Data) /\ b - a = n /\ a <= b
  BY <1>0, <1>1
<1>3. content \in Seq(Nat) /\ Len(content) = n
  BY <1>0, <1>2, BetweenIs
<1>4. r \in Seq(Nat)
  <2>1. padding \in Nat /\ FragmentLength(Len(content), padding) <= MaxFragment
    BY <1>0, <1>1, <1>3
  <2> HIDE DEF content
  <2> QED BY <2>1, <1>0, <1>3, ProtectedIs
<1>5. Good(r, peerSent, peerSent', peerSeq, peerSeq')
  BY <1>1, <1>2 DEF Good
<1> HIDE DEF r
<1>6. peerSent' \in 0..Len(Data) /\ peerSeq' \in Nat /\ peerOk' \in BOOLEAN /\ peerOk'
  BY <1>0, <1>1, <1>2
<1>7. peerKept' \in BOOLEAN /\ (peerKept' => peerKept /\ peerSent' - peerSent <= MaxContent)
  BY <1>1, <1>2 DEF IInv, TypeOK
<1> QED BY <1>1, <1>4, <1>5, <1>6, <1>7, PeerStep

LEMMA CipherSpecStep == ASSUME IInv, PeerChangesCipherSpec PROVE IInv'
<1> DEFINE r == <<ChangeCipherSpec, 1, 1>>
<1>1. r \in Seq(Nat)
  BY DEF ChangeCipherSpec
<1>2. /\ peerOk /\ peerOk' = peerOk /\ socket' = socket \o r /\ UNCHANGED clientVars
      /\ peerSent' = peerSent /\ peerSeq' = peerSeq /\ peerKept' = peerKept
  BY DEF PeerChangesCipherSpec, PeerMayWrite, peerVars
<1>3. Good(r, peerSent, peerSent', peerSeq, peerSeq')
  BY <1>2 DEF Good
<1> HIDE DEF r
<1>4. peerSent' \in 0..Len(Data) /\ peerSeq' \in Nat /\ peerOk' \in BOOLEAN /\ peerOk'
  BY <1>2 DEF IInv, TypeOK
<1>5. peerKept' \in BOOLEAN /\ peerSent' - peerSent <= MaxContent
  BY <1>2, Sizes, DataType DEF IInv, TypeOK
<1> QED BY <1>1, <1>2, <1>3, <1>4, <1>5, PeerStep

LEMMA WrongStep == ASSUME IInv, NEW r \in MalformedRecords, PeerGoesWrong(r) PROVE IInv'
<1>1. /\ peerOk /\ ~peerOk' /\ socket' = socket \o r /\ UNCHANGED clientVars
      /\ UNCHANGED <<peerSent, peerSeq, peerKept>> /\ peerOk' \in BOOLEAN
  BY DEF PeerGoesWrong, PeerMayWrite
<1>2. peerSeq \in Nat /\ peerSent' \in 0..Len(Data) /\ peerSeq' \in Nat
  BY <1>1 DEF IInv, TypeOK
<1>3. r \in Seq(Nat)
  BY <1>2, MalformedIs DEF Frame
<1>4. peerKept' \in BOOLEAN /\ peerSent' - peerSent <= MaxContent
  BY <1>1, Sizes, DataType DEF IInv, TypeOK
<1> QED BY <1>1, <1>2, <1>3, <1>4, PeerStep

LEMMA RefusedStep == ASSUME IInv, RecvRefused \/ RecvUndefined PROVE IInv'
<1>1. /\ UNCHANGED <<state, seq, calling, out, record, pending, got, socket, peerVars>>
      /\ result' \in Results /\ (state = "FAILED" => result' = "CLOSED")
  BY DEF RecvRefused, RecvUndefined, Results
<1>2. TypeOK' /\ Framed' /\ DeliveredInOrder' /\ PendingOK' /\ Blameless'
  BY <1>1 DEF IInv, TypeOK, Framed, HeaderFits, LengthOf, DeliveredInOrder, PendingOK, Blameless,
     peerVars
<1>3. Arrived'
  BY <1>1, SameWay DEF IInv, Way
<1> QED BY <1>2, <1>3 DEF IInv

LEMMA PendingStep == ASSUME IInv, NEW size \in OutSizes, RecvPending(size) PROVE IInv'
<1>1. /\ UNCHANGED <<state, seq, calling, out, record, socket, peerVars>> /\ result' = "OK"
      /\ ~calling /\ state = "CONNECTED" /\ Deliver(pending, size)
  BY DEF RecvPending
<1>2. got \in Seq(Nat) /\ pending \in Seq(Nat) /\ size \in Nat
  BY Sizes DEF IInv, TypeOK
<1>3. /\ got' \in Seq(Nat) /\ pending' \in Seq(Nat) /\ got' \o pending' = got \o pending
      /\ Len(got') + Len(pending') = Len(got) + Len(pending) /\ Len(pending') <= Len(pending)
  BY <1>1, <1>2, DeliverIs
<1>4. TypeOK' /\ Framed'
  BY <1>1, <1>3 DEF IInv, TypeOK, Framed, HeaderFits, LengthOf, peerVars, Results
<1>5. DeliveredInOrder' /\ Blameless'
  BY <1>1, <1>3 DEF IInv, DeliveredInOrder, Blameless
<1>6. PendingOK'
  <2>1. Len(pending') \in Nat /\ Len(pending) \in Nat /\ PendingCapacity \in Nat
    BY <1>2, <1>3, Sizes, LenProperties DEF PendingCapacity
  <2> QED BY <2>1, <1>1, <1>3 DEF IInv, PendingOK, peerVars
<1>7. Arrived'
  BY <1>1, <1>3, SameWay DEF IInv, Way
<1> QED BY <1>4, <1>5, <1>6, <1>7 DEF IInv

LEMMA StartStep == ASSUME IInv, NEW size \in OutSizes, RecvStart(size) PROVE IInv'
<1>1. /\ UNCHANGED <<state, result, seq, pending, got, socket, peerVars>>
      /\ ~calling /\ state = "CONNECTED" /\ pending = <<>>
      /\ calling' = TRUE /\ out' = size /\ record' = <<>> /\ record = <<>>
  BY DEF RecvStart, IInv, Framed
<1>2. TypeOK' /\ Framed' /\ DeliveredInOrder' /\ PendingOK' /\ Blameless'
  BY <1>1, EmptySeq
     DEF IInv, TypeOK, Framed, DeliveredInOrder, PendingOK, Blameless, peerVars
<1>3. Arrived'
  BY <1>1, SameWay DEF IInv, Way
<1> QED BY <1>2, <1>3 DEF IInv

LEMMA ReadStep == ASSUME IInv, NEW n \in 1..Len(socket), ReadSome(n) PROVE IInv'
<1> DEFINE t == Take(socket, n)
<1>1. /\ UNCHANGED <<state, result, seq, calling, out, pending, got, peerVars>>
      /\ AtRead /\ n <= Wanted
      /\ record' = record \o t /\ socket' = Drop(socket, n)
  BY DEF ReadSome
<1>2. /\ record \in Seq(Nat) /\ socket \in Seq(Nat) /\ Len(record) \in Nat
      /\ Len(socket) \in Nat /\ n \in 0..Len(socket)
  BY LenProperties DEF IInv, TypeOK
<1>3. /\ t \in Seq(Nat) /\ Len(t) = n /\ Drop(socket, n) \in Seq(Nat)
      /\ t \o Drop(socket, n) = socket
  BY <1>2, TakeDrop
<1> HIDE DEF t
<1>4. /\ record' \in Seq(Nat) /\ Len(record') = Len(record) + n
      /\ \A i \in 1..Len(record) : record'[i] = record[i]
  BY <1>1, <1>2, <1>3, Joined
<1>5. Way' = Way
  <2>1. (record \o t) \o Drop(socket, n) = record \o (t \o Drop(socket, n))
    BY <1>2, <1>3, ConcatAssociates
  <2> QED BY <2>1, <1>1, <1>3 DEF Way
<1>6. TypeOK'
  BY <1>1, <1>3, <1>4 DEF IInv, TypeOK, peerVars
<1>7. Framed'
  <2>1. CASE ~HasHeader
    <3>1. Len(record') <= 2
      BY <2>1, <1>1, <1>2, <1>4 DEF Wanted, HasHeader
    <3> QED BY <3>1, <1>1 DEF IInv, Framed, AtRead
  <2>2. CASE HasHeader
    <3>1. LengthOf(record) \in Nat /\ LengthOf(record') = LengthOf(record)
      <4>1. 2 \in 1..Len(record)
        BY <2>2, <1>2 DEF HasHeader
      <4> QED BY <4>1, <1>2, <1>4, ElementOfSeq DEF LengthOf
    <3>2. Len(record') <= 2 + LengthOf(record')
      BY <2>2, <3>1, <1>1, <1>2, <1>4 DEF Wanted
    <3>3. HeaderFits'
      BY <2>2, <3>1, <1>1 DEF AtRead, HeaderFits
    <3> QED BY <3>2, <3>3, <1>1 DEF IInv, Framed, AtRead
  <2> QED BY <2>1, <2>2
<1>8. DeliveredInOrder' /\ PendingOK' /\ Blameless'
  BY <1>1 DEF IInv, DeliveredInOrder, PendingOK, Blameless, peerVars
<1>9. Arrived'
  BY <1>1, <1>5, SameWay DEF IInv
<1> QED BY <1>6, <1>7, <1>8, <1>9 DEF IInv

\* Nothing of a peer that did no wrong is refused.
LEMMA HonestIsAccepted ==
    ASSUME IInv, calling, HasHeader, peerOk
    PROVE  /\ HeaderFits
           /\ Whole => record[1] \in {ChangeCipherSpec, ApplicationData}
           /\ AtData => UnprotectError(record, seq) = "OK"
<1>0. state = "CONNECTED" /\ TypeOK
  BY DEF IInv, Framed
<1>1. PICK n \in Nat : \E e, q \in [0..n -> Nat] : \E c \in [0..n -> 0..Len(Data)] :
                          WayIs(n, e, c, q)
  BY <1>0 DEF IInv, Arrived
<1>2. PICK e \in [0..n -> Nat], q \in [0..n -> Nat], c \in [0..n -> 0..Len(Data)] :
              WayIs(n, e, c, q)
  BY <1>1
<1> DEFINE r == Record(e, 1)
<1>3. /\ n >= 1 /\ record[1] = r[1] /\ LengthOf(record) = LengthOf(r)
      /\ Good(r, c[0], c[1], q[0], q[1])
      /\ Whole => record = r
  BY <1>0, <1>2, First DEF Bad
<1>4. c[0] \in 0..Len(Data) /\ c[1] \in 0..Len(Data) /\ q[0] = seq /\ seq \in Nat /\ q[1] \in Nat
  BY <1>0, <1>2, <1>3 DEF WayIs, Reaches, TypeOK
<1> HIDE DEF r
<1>5. /\ LengthOf(r) <= MaxFragment /\ LengthOf(r) \in Nat
      /\ \/ r[1] = ChangeCipherSpec
         \/ r[1] = ApplicationData /\ UnprotectError(r, seq) = "OK"
  <2> PICK a \in 0..Len(Data), b \in 0..Len(Data), u \in Nat, t \in Nat :
        a = c[0] /\ b = c[1] /\ u = q[0] /\ t = q[1]
    BY <1>4
  <2>1. Good(r, a, b, u, t)
    BY <1>3
  <2>2. /\ Frame(r) /\ LengthOf(r) <= MaxFragment
        /\ r[1] \in {ChangeCipherSpec, ApplicationData}
        /\ r[1] = ApplicationData => UnprotectError(r, u) = "OK"
    BY <2>1, GoodIs
  <2>3. LengthOf(r) \in Nat
    BY <2>2 DEF Frame
  <2> QED BY <2>2, <2>3, <1>4
<1>6. HeaderFits
  BY <1>3, <1>5, Sizes DEF HeaderFits, RecordCapacity
<1> QED BY <1>3, <1>5, <1>6 DEF AtData, ChangeCipherSpec, ApplicationData

LEMMA FailureStep ==
    ASSUME IInv,
           \/ \E e \in {"CLOSED", "IO"} : ReadFails(e)
           \/ BadHeader \/ PlaintextRefused \/ DataRefused
    PROVE  IInv'
<1>1. ASSUME NEW e \in {"CLOSED", "IO"}, ReadFails(e) PROVE IInv'
  BY <1>1, FailKeeps DEF ReadFails, AtRead
<1>2. CASE BadHeader
  <2>1. ~peerOk
    BY <1>2, HonestIsAccepted DEF BadHeader
  <2> QED BY <1>2, <2>1, FailKeeps DEF BadHeader
<1>3. CASE PlaintextRefused
  <2>1. ~peerOk
    BY <1>3, HonestIsAccepted DEF PlaintextRefused, Whole
  <2> QED BY <1>3, <2>1, FailKeeps DEF PlaintextRefused
<1>4. CASE DataRefused
  <2>1. ~peerOk
    BY <1>4, HonestIsAccepted DEF DataRefused, AtData, Whole
  <2>2. UnprotectError(record, seq) \in {"BAD_RECORD", "VERIFY"}
    <3>1. LengthOf(record) <= MaxFragment
      BY <1>4 DEF DataRefused, AtData, Whole, HeaderFits
    <3>2. LengthOf(record) \in Nat
      <4>1. record \in Seq(Nat) /\ Len(record) \in Nat /\ Len(record) >= 2
        BY <1>4, LenProperties DEF IInv, TypeOK, DataRefused, AtData, Whole, HasHeader
      <4>2. 2 \in 1..Len(record)
        BY <4>1
      <4> QED BY <4>1, <4>2, ElementOfSeq DEF LengthOf
    <3>3. ~(LengthOf(record) - TagSize > PlainCapacity)
      BY <3>1, <3>2, Sizes DEF PlainCapacity
    <3> QED BY <1>4, <3>3 DEF DataRefused, UnprotectError
  <2> QED BY <1>4, <2>1, <2>2, FailKeeps DEF DataRefused, AtData
<1> QED BY <1>1, <1>2, <1>3, <1>4

\* The record the client has is the first on the way, and it accepts it.
StartsWith(n, e, c, q) ==
    /\ WayIs(n, e, c, q) /\ n >= 1 /\ e[1] = Len(record) /\ record = Record(e, 1)
    /\ Good(Record(e, 1), c[0], c[1], q[0], q[1])
    /\ c[0] = Len(got) + Len(pending) /\ q[0] = seq

\* A whole record that the client does not refuse is one the peer wrote, the first on the way.
LEMMA Accepted ==
    ASSUME IInv, calling, Whole,
           \/ record[1] = ChangeCipherSpec
           \/ record[1] = ApplicationData /\ UnprotectError(record, seq) = "OK"
    PROVE  \E n \in Nat : \E e, q \in [0..n -> Nat] : \E c \in [0..n -> 0..Len(Data)] :
              StartsWith(n, e, c, q)
<1>0. state = "CONNECTED" /\ TypeOK /\ peerSeq \in Nat
  BY DEF IInv, Framed, TypeOK
<1>1. PICK n \in Nat : \E e, q \in [0..n -> Nat] : \E c \in [0..n -> 0..Len(Data)] :
                          WayIs(n, e, c, q)
  BY <1>0 DEF IInv, Arrived
<1>2. PICK e \in [0..n -> Nat], q \in [0..n -> Nat], c \in [0..n -> 0..Len(Data)] :
              WayIs(n, e, c, q)
  BY <1>1
<1> DEFINE r == Record(e, 1)
<1>3. /\ n >= 1 /\ record = r /\ e[1] = Len(record)
      /\ Good(r, c[0], c[1], q[0], q[1]) \/ (n = 1 /\ Bad(r, c[0], c[1], q[0], q[1]))
  BY <1>0, <1>2, First DEF Whole
<1> HIDE DEF r
<1>4. c[0] = Len(got) + Len(pending) /\ q[0] = seq /\ q[n] = peerSeq
  BY <1>2 DEF WayIs, Reaches
<1>5. ~(n = 1 /\ Bad(r, c[0], c[1], q[0], q[1]))
  <2> SUFFICES ASSUME n = 1, Bad(r, c[0], c[1], q[0], q[1]) PROVE FALSE
    OBVIOUS
  <2>1. r \in MalformedRecords /\ seq = peerSeq
    BY <1>4 DEF Bad
  <2>2. r[1] # ChangeCipherSpec
        /\ (r[1] = ApplicationData /\ LengthOf(r) <= MaxFragment
              => UnprotectError(r, peerSeq) # "OK")
    BY <1>0, <2>1, MalformedIs
  <2>3. LengthOf(r) <= MaxFragment
    BY <1>3 DEF Whole, HeaderFits
  <2> QED BY <1>3, <2>1, <2>2, <2>3
<1> QED BY <1>2, <1>3, <1>4, <1>5 DEF r, StartsWith

LEMMA SkipStep == ASSUME IInv, SkipRecord PROVE IInv'
<1>1. /\ UNCHANGED <<state, result, seq, calling, out, pending, got, socket, peerVars>>
      /\ calling /\ Whole /\ record[1] = ChangeCipherSpec /\ record' = <<>>
  BY DEF SkipRecord
<1>a. PICK n \in Nat : \E e, q \in [0..n -> Nat] : \E c \in [0..n -> 0..Len(Data)] :
                          StartsWith(n, e, c, q)
  BY <1>1, Accepted
<1>b. PICK e \in [0..n -> Nat], q \in [0..n -> Nat], c \in [0..n -> 0..Len(Data)] :
              StartsWith(n, e, c, q)
  BY <1>a
<1>2. /\ WayIs(n, e, c, q) /\ n >= 1 /\ e[1] = Len(record) /\ record = Record(e, 1)
      /\ Good(Record(e, 1), c[0], c[1], q[0], q[1])
      /\ c[0] = Len(got) + Len(pending) /\ q[0] = seq
  BY <1>b DEF StartsWith
<1>3. c[0] \in 0..Len(Data) /\ c[1] \in 0..Len(Data) /\ q[0] \in Nat /\ q[1] \in Nat
  BY <1>2
<1>4. c[1] = c[0] /\ q[1] = q[0]
  <2>1. PICK x \in 0..Len(Data), y \in 0..Len(Data), u \in Nat, v \in Nat :
               x = c[0] /\ y = c[1] /\ u = q[0] /\ v = q[1]
    BY <1>3
  <2>2. Good(record, x, y, u, v)
    BY <1>2, <2>1
  <2>3. record[1] = ChangeCipherSpec => y = x /\ v = u
    BY <2>2, GoodIs
  <2> QED BY <2>1, <2>3, <1>1
<1>5. c[1] = (Len(got) + Len(pending))' /\ q[1] = seq'
  BY <1>1, <1>2, <1>4
<1>6. Arrived'
  BY <1>1, <1>2, <1>5, Shortened DEF IInv
<1>7. TypeOK' /\ Framed' /\ DeliveredInOrder' /\ PendingOK' /\ Blameless'
  BY <1>1, EmptySeq DEF IInv, TypeOK, Framed, DeliveredInOrder, PendingOK, Blameless, peerVars
<1> QED BY <1>6, <1>7 DEF IInv

LEMMA ReceivedStep == ASSUME IInv, DataReceived \/ DataOverruns PROVE IInv'
<1> DEFINE content == ContentOf(PlainOf(record))
<1>1. /\ UNCHANGED <<out, socket, peerVars>>
      /\ state' \in {"CONNECTED", "OVERRUN"} /\ (state' = "CONNECTED" <=> RestFits)
      /\ calling /\ Whole /\ record[1] = ApplicationData /\ UnprotectError(record, seq) = "OK"
      /\ Deliver(content, out) /\ seq' = seq + 1
      /\ calling' = FALSE /\ result' = "OK" /\ record' = <<>>
  BY DEF DataReceived, DataOverruns, Receives, Content, AtData, IInv, Framed
<1>a. PICK n \in Nat : \E e, q \in [0..n -> Nat] : \E c \in [0..n -> 0..Len(Data)] :
                          StartsWith(n, e, c, q)
  BY <1>1, Accepted
<1>b. PICK e \in [0..n -> Nat], q \in [0..n -> Nat], c \in [0..n -> 0..Len(Data)] :
              StartsWith(n, e, c, q)
  BY <1>a
<1>2. /\ WayIs(n, e, c, q) /\ n >= 1 /\ e[1] = Len(record) /\ record = Record(e, 1)
      /\ Good(Record(e, 1), c[0], c[1], q[0], q[1])
      /\ c[0] = Len(got) + Len(pending) /\ q[0] = seq
  BY <1>b DEF StartsWith
<1>3. c[0] \in 0..Len(Data) /\ c[1] \in 0..Len(Data) /\ q[0] \in Nat /\ q[1] \in Nat
  BY <1>2
<1> DEFINE a == c[0]  b == c[1]
<1>4. /\ content = Between(Data, a, b) /\ q[1] = q[0] + 1 /\ a <= b
  <2>1. PICK x \in 0..Len(Data), y \in 0..Len(Data), u \in Nat, v \in Nat :
               x = c[0] /\ y = c[1] /\ u = q[0] /\ v = q[1]
    BY <1>3
  <2>2. Good(record, x, y, u, v)
    BY <1>2, <2>1
  <2>3. record[1] = ApplicationData =>
           /\ v = u + 1 /\ ContentOf(PlainOf(record)) = Between(Data, x, y)
           /\ x <= y
    BY <2>2, GoodIs
  <2> QED BY <2>1, <2>3, <1>1
<1>c. peerKept => b - a <= MaxContent
  BY <1>2 DEF WayIs, Kept
<1>d. RestFits <=> Len(content) - Least(Len(content), out) <= PendingCapacity
  BY DEF RestFits, Content
<1> HIDE DEF content, a, b
<1>5. /\ Data \in Seq(Nat) /\ Len(Data) \in Nat /\ a \in 0..Len(Data) /\ b \in a..Len(Data)
      /\ a = Len(got) + Len(pending)
  BY <1>2, <1>3, <1>4, DataType DEF a, b
<1>6. content \in Seq(Nat) /\ Len(content) = b - a
  BY <1>4, <1>5, BetweenIs
<1>7. got \in Seq(Nat) /\ out \in Nat /\ pending = <<>>
  BY <1>1, Sizes DEF IInv, TypeOK, PendingOK
<1>8. /\ got' \in Seq(Nat) /\ pending' \in Seq(Nat) /\ got' \o pending' = got \o content
      /\ Len(got') + Len(pending') = Len(got) + Len(content) /\ Len(pending') <= Len(content)
      /\ Len(pending') = Len(content) - Least(Len(content), out)
  BY <1>1, <1>6, <1>7, DeliverIs
<1>9. Len(got) = a /\ got = Take(Data, a)
  <2>1. got \o pending = got /\ Len(got) \in Nat
    BY <1>7, LenProperties
  <2>2. Len(pending) = 0
    BY <1>7, EmptySeq
  <2>3. Len(got) = a
    BY <2>1, <2>2, <1>5
  <2>4. got \o pending = Take(Data, a)
    BY <1>1, <1>5 DEF IInv, Framed, DeliveredInOrder
  <2> QED BY <2>1, <2>3, <2>4
<1>10. Len(got') + Len(pending') = b
  <2>1. a + (b - a) = b
    BY <1>5
  <2> QED BY <2>1, <1>6, <1>8, <1>9
<1>11. DeliveredInOrder'
  <2> DEFINE s == Take(Data, b)
  <2>1. s \in Seq(Nat) /\ Len(s) = b /\ s = Between(Data, 0, b) /\ b \in 0..Len(Data)
    BY <1>5, TakeDrop
  <2>2. Between(s, 0, a) = Between(Data, 0, a) /\ Between(s, a, b) = Between(Data, a, b)
    <3>1. Take(Data, b) \o Drop(Data, b) = Data /\ Drop(Data, b) \in Seq(Nat)
      BY <1>5, <2>1, TakeDrop
    <3>2. /\ 0 \in 0..Len(s) /\ a \in 0..Len(s) /\ b \in a..Len(s)
      BY <1>5, <2>1
    <3> DEFINE d == Drop(Data, b)
    <3>3. s \o d = Data /\ d \in Seq(Nat)
      BY <3>1
    <3> HIDE DEF s, d
    <3>4. \A i \in 0..Len(s) : \A j \in i..Len(s) : Between(s \o d, i, j) = Between(s, i, j)
      BY <3>3, <2>1, BetweenOfJoined
    <3> QED BY <3>2, <3>3, <3>4
  <2> HIDE DEF s
  <2>3. Take(s, a) \o Drop(s, a) = s /\ Take(s, a) = Between(s, 0, a) /\ Drop(s, a) = Between(s, a, b)
    <3>1. a \in 0..Len(s)
      BY <1>5, <2>1
    <3> QED BY <3>1, <2>1, TakeDrop
  <2>4. Take(Data, a) = Between(Data, 0, a)
    BY <1>5, TakeDrop
  <2>5. got' \o pending' = s
    BY <2>2, <2>3, <2>4, <1>4, <1>8, <1>9
  <2> QED BY <2>5, <1>10 DEF DeliveredInOrder, s
<1>12. PendingOK'
  <2>1. state' # "OVERRUN" => Len(pending') <= PendingCapacity
    BY <1>1, <1>8, <1>d
  <2>2. ASSUME peerKept PROVE RestFits
    <3>1. Len(pending') \in Nat /\ Len(pending') <= b - a /\ b - a <= MaxContent
      BY <2>2, <1>c, <1>6, <1>8, LenProperties
    <3> QED BY <3>1, <1>5, <1>8, <1>d, Sizes DEF PendingCapacity
  <2> QED BY <2>1, <2>2, <1>1 DEF PendingOK, peerVars
<1>13. TypeOK' /\ Framed' /\ Blameless'
  <2>1. TypeOK'
    <3>1. seq' \in Nat /\ record' \in Seq(Nat) /\ got' \in Seq(Nat) /\ pending' \in Seq(Nat)
      BY <1>1, <1>8, EmptySeq DEF IInv, TypeOK
    <3> QED BY ONLY <3>1, <1>1, IInv DEF IInv, TypeOK, peerVars, Results
  <2>2. Framed' /\ Blameless'
    BY <1>1, EmptySeq DEF IInv, Framed, Blameless, peerVars
  <2> QED BY <2>1, <2>2
<1>14. Arrived'
  <2>1. c[1] = (Len(got) + Len(pending))' /\ q[1] = seq'
    BY <1>1, <1>2, <1>4, <1>10 DEF b
  <2> QED BY <2>1, <1>1, <1>2, Shortened DEF IInv
<1> QED BY <1>11, <1>12, <1>13, <1>14 DEF IInv

LEMMA Inductive == ASSUME IInv, [Next]_vars PROVE IInv'
<1>1. ASSUME NEW n \in 0..PeerContent, NEW padding \in 0..MaxPadding, PeerWrites(n, padding)
      PROVE  IInv'
  BY <1>1, WriteStep
<1>2. CASE PeerChangesCipherSpec
  BY <1>2, CipherSpecStep
<1>3. ASSUME NEW r \in MalformedRecords, PeerGoesWrong(r) PROVE IInv'
  BY <1>3, WrongStep
<1>4. CASE RecvRefused \/ RecvUndefined
  BY <1>4, RefusedStep
<1>5. ASSUME NEW size \in OutSizes, RecvPending(size) PROVE IInv'
  BY <1>5, PendingStep
<1>6. ASSUME NEW size \in OutSizes, RecvStart(size) PROVE IInv'
  BY <1>6, StartStep
<1>7. CASE Works
  <2>1. ASSUME NEW n \in 1..Len(socket), ReadSome(n) PROVE IInv'
    BY <2>1, ReadStep
  <2>2. CASE BadHeader \/ PlaintextRefused \/ DataRefused
    BY <2>2, FailureStep
  <2>3. CASE SkipRecord
    BY <2>3, SkipStep
  <2>4. CASE DataReceived \/ DataOverruns
    BY <2>4, ReceivedStep
  <2> QED BY <1>7, <2>1, <2>2, <2>3, <2>4 DEF Works
<1>8. CASE \E e \in {"CLOSED", "IO"} : ReadFails(e)
  BY <1>8, FailureStep
<1>9. CASE UNCHANGED vars
  <2>1. UNCHANGED <<clientVars, socket, peerVars, state, result, seq, calling, out, record,
                    pending, got>>
    BY <1>9 DEF vars, clientVars
  <2>2. TypeOK' /\ Framed' /\ DeliveredInOrder' /\ PendingOK' /\ Blameless'
    BY <2>1 DEF IInv, TypeOK, Framed, HeaderFits, LengthOf, DeliveredInOrder, PendingOK,
       Blameless, peerVars
  <2>3. Arrived'
    BY <2>1, SameWay DEF IInv, Way
  <2> QED BY <2>2, <2>3 DEF IInv
<1> QED BY <1>1, <1>2, <1>3, <1>4, <1>5, <1>6, <1>7, <1>8, <1>9 DEF Next

LEMMA InvariantHolds == Spec => []IInv
<1>1. Init => IInv
  <2> SUFFICES ASSUME Init PROVE IInv
    OBVIOUS
  <2>0. /\ <<>> \in Seq(Nat) /\ Len(<<>>) = 0 /\ Data \in Seq(Nat) /\ Len(Data) \in Nat
    BY EmptySeq, DataType
  <2>1. TypeOK
    <3>1. peerSent \in 0..Len(Data) /\ {record, pending, got, socket} \subseteq Seq(Nat)
      BY <2>0 DEF Init
    <3> QED BY <3>1 DEF Init, TypeOK, Results
  <2>2. Framed /\ PendingOK /\ Blameless
    BY <2>0, Sizes DEF Init, Framed, PendingOK, PendingCapacity, Blameless
  <2>3. DeliveredInOrder
    <3>1. Take(Data, 0) \in Seq(Nat) /\ Len(Take(Data, 0)) = 0
      BY <2>0, TakeDrop
    <3>2. Take(Data, 0) = <<>> /\ <<>> \o <<>> = <<>>
      BY <3>1, EmptySeq
    <3> QED BY <2>0, <3>2 DEF Init, DeliveredInOrder
  <2>4. Arrived
    <3> DEFINE z == [i \in 0..0 |-> 0]
    <3>1. /\ z \in [0..0 -> Nat] /\ z \in [0..0 -> 0..Len(Data)] /\ z[0] = 0
      BY <2>0
    <3>2. \A i, j \in 0..0 : z[i] <= z[j]
      BY <3>1
    <3> HIDE DEF z
    <3>3. Places(0, z, z, z)
      BY <3>1, <3>2 DEF Places
    <3>4. Way = <<>>
      BY DEF Way, Init
    <3>5. Reaches(0, z, z, z)
      BY <2>0, <3>1, <3>4 DEF Reaches, Init
    <3>6. Records(0, z, z, z)
      BY DEF Records, Init
    <3>7. Kept(0, z)
      BY DEF Kept
    <3> QED BY <3>1, <3>3, <3>5, <3>6, <3>7 DEF Arrived, WayIs
  <2> QED BY <2>1, <2>2, <2>3, <2>4 DEF IInv
<1>2. IInv /\ [Next]_vars => IInv'
  BY Inductive
<1> QED BY <1>1, <1>2, PTL DEF Spec

\* For every limit, data and cut of it, the variables keep their types; no error but those
\* the code gives a received record can come out of recv().
THEOREM TypeCorrect == Spec => []TypeOK
<1>1. IInv => TypeOK
  BY DEF IInv
<1> QED BY <1>1, InvariantHolds, PTL

\* Whatever the peer's records, paddings and malformed records, whatever the parts recv()
\* reads and the buffers it is called with, the caller gets a beginning of the peer's data.
THEOREM DeliveryIsInOrder == Spec => []DeliveredInOrder
<1>1. IInv => DeliveredInOrder
  BY DEF IInv
<1> QED BY <1>1, InvariantHolds, PTL

\* No record that a length field can announce makes read_record() or unprotect hold more than
\* its buffer, whoever wrote it; and pending_app_, into which recv() copies without a check,
\* is enough for every peer that itself keeps to 2^14 octets of content, whatever its
\* padding and whatever the caller takes at a time.
THEOREM BuffersHold == Spec => []LimitedPeerFits
<1>1. IInv => LimitedPeerFits
  <2> SUFFICES ASSUME IInv PROVE LimitedPeerFits
    OBVIOUS
  <2>1. record \in Seq(Nat) /\ Len(record) \in Nat
    BY LenProperties DEF IInv, TypeOK
  <2>2. Len(record) <= RecordCapacity
    <3>1. CASE Len(record) <= 2
      BY <2>1, <3>1, Sizes DEF RecordCapacity
    <3>2. CASE ~(Len(record) <= 2)
      <4>1. HeaderFits /\ Len(record) <= 2 + LengthOf(record)
        BY <3>2 DEF IInv, Framed
      <4>2. 2 \in 1..Len(record)
        BY <2>1, <3>2
      <4>3. LengthOf(record) \in Nat
        BY <2>1, <4>2, ElementOfSeq DEF LengthOf
      <4> QED BY <2>1, <4>1, <4>3, Sizes DEF HeaderFits, RecordCapacity
    <3> QED BY <3>1, <3>2
  <2>3. ASSUME Whole PROVE LengthOf(record) - TagSize <= PlainCapacity
    <3>1. 2 \in 1..Len(record)
      BY <2>1, <2>3 DEF Whole, HasHeader
    <3>2. LengthOf(record) \in Nat
      BY <2>1, <3>1, ElementOfSeq DEF LengthOf
    <3> QED BY <2>3, <3>2, Sizes DEF Whole, HeaderFits, PlainCapacity
  <2>4. peerKept => state # "OVERRUN" /\ Len(pending) <= PendingCapacity
    BY DEF IInv, PendingOK
  <2> QED BY <2>2, <2>3, <2>4 DEF LimitedPeerFits
<1> QED BY <1>1, InvariantHolds, PTL

\* Every record of a peer that writes no MalformedRecords is accepted, the longest and the
\* most padded included, and each of those is refused.  The record with too much content is
\* none of them: it is not refused, and BuffersHold says what it may do.
THEOREM FailuresAreJustified == Spec => []OnlyMalformedFails
<1>1. IInv => OnlyMalformedFails
  <2> SUFFICES ASSUME IInv, ~peerOk, socket = <<>>, record = <<>>, state = "CONNECTED" PROVE FALSE
    BY DEF IInv, Blameless, OnlyMalformedFails
  <2>1. state = "CONNECTED" /\ peerSeq \in Nat
    BY DEF IInv, TypeOK
  <2>2. PICK n \in Nat : \E e, q \in [0..n -> Nat] : \E c \in [0..n -> 0..Len(Data)] :
                            WayIs(n, e, c, q)
    BY <2>1 DEF IInv, Arrived
  <2>3. PICK e \in [0..n -> Nat], q \in [0..n -> Nat], c \in [0..n -> 0..Len(Data)] :
                WayIs(n, e, c, q)
    BY <2>2
  <2>4. n # 0 /\ Record(e, n) \in MalformedRecords
    BY <2>3 DEF WayIs, Records, Bad
  <2>5. Way = <<>> /\ Way \in Seq(Nat) /\ Len(Way) = 0
    BY EmptySeq DEF Way
  <2>6. e[n] = 0 /\ e[n - 1] = 0
    <3>1. n \in 0..n /\ n - 1 \in 0..n /\ n - 1 <= n
      BY <2>4
    <3> QED BY <3>1, <2>3, <2>5 DEF WayIs, Reaches, Places
  <2>7. Len(Record(e, n)) = 0
    <3>1. Len(Between(Way, 0, 0)) = 0 - 0
      <4>1. 0 \in 0..Len(Way)
        BY <2>5
      <4> HIDE DEF Way
      <4> QED BY <4>1, <2>5, BetweenIs
    <3> QED BY <3>1, <2>6 DEF Record
  <2> QED BY <2>1, <2>4, <2>7, MalformedIs DEF Frame
<1> QED BY <1>1, InvariantHolds, PTL

=============================================================================
