----------------------- MODULE HandshakeDeframerProofs -----------------------
(***************************************************************************)
(* The handlers are shown the peer's messages whole and in order, for      *)
(* every stream, every way to cut it and every capacity.  All of the       *)
(* algorithm is in one fact: the storage is the part of the stream from    *)
(* the end of the last message consumed to what was sent.                  *)
(***************************************************************************)
EXTENDS HandshakeDeframer, SequenceTheorems, TLAPS

\* The octets of the stream after the first "from", up to "to".
Part(from, to) == [i \in 1..(to - from) |-> from + i]

\* The number of messages the storage no longer holds.
Gone == IF at = "consume" THEN Len(handled) - 1 ELSE Len(handled)

\* The types, and what has been handled.
Typed ==
    /\ sent \in 0..Ends[Messages] /\ view \in Nat
    /\ storage \in Seq(Octets) /\ Len(storage) <= Capacity
    /\ at \in {"read", "peek", "handle", "consume", "failed"}
    /\ handled \in Seq(Seq(Octets)) /\ saved \in Seq(Octets)

Tracks ==
    /\ Gone \in 0..Messages /\ Len(handled) \in 0..Messages
    /\ at # "failed" => Ends[Gone] <= sent /\ storage = Part(Ends[Gone], sent)
    /\ at \in {"handle", "consume"} => /\ Gone + 1 \in 1..Messages
                                       /\ view = Length(Gone + 1)
                                       /\ Ends[Gone + 1] <= sent

Faithful == \A m \in 1..Len(handled) : handled[m] = Message(m)

\* Why a read never finds a whole message buffered: what follows the Finished comes in
\* records of its own.
Waits ==
    /\ Gone < Finished => sent <= Ends[Finished]
    /\ at = "read" => Gone = Messages \/ sent - Ends[Gone] < Length(Gone + 1)

IInv == Typed /\ Tracks /\ Faithful /\ CertificateKept /\ Waits /\ NoCutOverflows

-----------------------------------------------------------------------------
(* Parts of the stream *)

LEMMA PartIsSeq ==
    ASSUME NEW from \in Nat, NEW to \in Nat, from <= to
    PROVE  /\ Part(from, to) \in Seq(Nat) /\ Len(Part(from, to)) = to - from
           /\ \A i \in 1..(to - from) : Part(from, to)[i] = from + i
           /\ \A n \in Nat : to <= n => Part(from, to) \in Seq(1..n)
<1>1. to - from \in Nat
  OBVIOUS
<1>2. Part(from, to) \in [1..(to - from) -> Nat]
  BY DEF Part
<1>3. Part(from, to) \in Seq(Nat)
  BY <1>1, <1>2, SeqDef
<1>4. DOMAIN Part(from, to) = 1..(to - from)
  BY DEF Part
<1>5. Len(Part(from, to)) = to - from
  BY <1>1, <1>3, <1>4, LenProperties
<1>6. ASSUME NEW n \in Nat, to <= n PROVE Part(from, to) \in Seq(1..n)
  <2>1. Part(from, to) \in [1..(to - from) -> 1..n]
    BY <1>6 DEF Part
  <2> QED BY <1>1, <2>1, SeqDef
<1> QED BY <1>3, <1>5, <1>6 DEF Part

LEMMA PartAppend ==
    ASSUME NEW from \in Nat, NEW mid \in Nat, NEW n \in Nat, from <= mid
    PROVE  Part(from, mid) \o [i \in 1..n |-> mid + i] = Part(from, mid + n)
<1> DEFINE a == Part(from, mid)
           b == [i \in 1..n |-> mid + i]
           c == Part(from, mid + n)
<1>1. a \in Seq(Nat) /\ Len(a) = mid - from /\ \A i \in 1..(mid - from) : a[i] = from + i
  BY PartIsSeq
<1>2. b = Part(mid, mid + n)
  BY DEF Part
<1>3. b \in Seq(Nat) /\ Len(b) = n /\ \A i \in 1..n : b[i] = mid + i
  <2>1. mid + n \in Nat /\ mid <= mid + n /\ (mid + n) - mid = n
    OBVIOUS
  <2> QED BY <1>2, <2>1, PartIsSeq
<1>4. c \in Seq(Nat) /\ Len(c) = (mid + n) - from /\ \A i \in 1..((mid + n) - from) : c[i] = from + i
  <2>1. mid + n \in Nat /\ from <= mid + n
    OBVIOUS
  <2> QED BY <2>1, PartIsSeq
<1> HIDE DEF a, b, c
<1>5. /\ a \o b \in Seq(Nat) /\ Len(a \o b) = Len(a) + Len(b)
      /\ \A i \in 1..(Len(a) + Len(b)) : (a \o b)[i] = IF i <= Len(a) THEN a[i] ELSE b[i - Len(a)]
  BY <1>1, <1>3, ConcatProperties
<1>6. Len(a \o b) = Len(c)
  BY <1>1, <1>3, <1>4, <1>5
<1>7. ASSUME NEW i \in 1..Len(a \o b) PROVE (a \o b)[i] = c[i]
  <2>1. i \in 1..((mid + n) - from) /\ i \in 1..(Len(a) + Len(b))
    BY <1>1, <1>3, <1>5
  <2>2. CASE i <= Len(a)
    BY <2>1, <2>2, <1>1, <1>4, <1>5
  <2>3. CASE ~(i <= Len(a))
    <3>1. i - Len(a) \in 1..n /\ mid + (i - Len(a)) = from + i
      BY <2>1, <2>3, <1>1
    <3>2. b[i - Len(a)] = mid + (i - Len(a))
      BY <3>1, <1>3
    <3> QED BY <2>1, <2>3, <3>1, <3>2, <1>4, <1>5
  <2> QED BY <2>2, <2>3
<1>8. a \o b = c
  BY <1>4, <1>5, <1>6, <1>7, SeqEqual
<1> QED BY <1>8 DEF a, b, c

LEMMA PartSplit ==
    ASSUME NEW from \in Nat, NEW n \in Nat, NEW to \in Nat, from + n <= to
    PROVE  /\ SubSeq(Part(from, to), 1, n) = [i \in 1..n |-> from + i]
           /\ SubSeq(Part(from, to), n + 1, to - from) = Part(from + n, to)
<1> DEFINE p == Part(from, to)
<1>1. p \in Seq(Nat) /\ Len(p) = to - from /\ \A i \in 1..(to - from) : p[i] = from + i
  BY PartIsSeq
<1>2. SubSeq(p, 1, n) = [i \in 1..n |-> p[i]]
  BY <1>1
<1>3. SubSeq(p, n + 1, to - from) = [i \in 1..(to - (from + n)) |-> p[i + n]]
  BY <1>1
<1>4. \A i \in 1..n : p[i] = from + i
  BY <1>1
<1>5. \A i \in 1..(to - (from + n)) : p[i + n] = (from + n) + i
  BY <1>1
<1> QED BY <1>2, <1>3, <1>4, <1>5 DEF Part

-----------------------------------------------------------------------------
(* Where the storage begins *)

LEMMA EndsGrow ==
    /\ \A m \in 0..Messages : Ends[m] \in Nat
    /\ \A l, m \in 0..Messages : l <= m => Ends[l] <= Ends[m]
    /\ \A l, m \in 0..Messages : l < m => Ends[l] < Ends[m]
    /\ \A m \in 1..Messages : m - 1 \in 0..Messages /\ m \in 0..Messages /\ Length(m) \in Nat
    /\ \A m \in 1..Messages : Ends[m - 1] + Length(m) = Ends[m] /\ Length(m) >= Header
    /\ Messages \in Nat /\ Finished \in 1..Messages /\ Ends[Messages] \in Nat /\ Ends[0] = 0
<1>1. \A m \in 0..Messages : Ends[m] \in Nat
  BY DeframerAssumption
<1>2. \A l, m \in 0..Messages : l < m => Ends[l] < Ends[m] /\ Ends[l] + Header <= Ends[m]
  BY <1>1, DeframerAssumption
<1>3. \A l, m \in 0..Messages : l <= m => Ends[l] <= Ends[m]
  BY <1>1, <1>2, DeframerAssumption
<1>4. ASSUME NEW m \in 1..Messages
      PROVE  /\ m - 1 \in 0..Messages /\ m \in 0..Messages /\ Length(m) \in Nat
             /\ Ends[m - 1] + Length(m) = Ends[m] /\ Length(m) >= Header
  <2>1. m - 1 \in 0..Messages /\ m \in 0..Messages /\ m - 1 < m
    BY DeframerAssumption
  <2>2. Ends[m - 1] \in Nat /\ Ends[m] \in Nat /\ Ends[m - 1] + Header <= Ends[m] /\ Header \in Nat
    BY <2>1, <1>1, <1>2, DeframerAssumption
  <2> QED BY <2>1, <2>2 DEF Length
<1>5. Messages \in Nat /\ Finished \in 1..Messages /\ Ends[Messages] \in Nat /\ Ends[0] = 0
  BY <1>1, DeframerAssumption
<1> QED BY <1>1, <1>2, <1>3, <1>4, <1>5

\* The header at the start of the storage is that of the next message.
LEMMA NextHeader ==
    ASSUME NEW m \in 0..Messages, NEW n \in 1..Messages, Ends[n - 1] = Ends[m]
    PROVE  n = m + 1
<1>1. n - 1 \in 0..Messages
  BY EndsGrow
<1>2. ~(n - 1 < m) /\ ~(m < n - 1)
  BY <1>1, EndsGrow
<1> QED BY <1>2, EndsGrow

LEMMA StorageStart ==
    ASSUME IInv, at # "failed"
    PROVE  /\ Gone \in 0..Messages /\ Ends[Gone] \in Nat /\ sent \in Nat
           /\ Ends[Gone] <= sent /\ sent <= Ends[Messages]
           /\ Len(storage) = sent - Ends[Gone] /\ Len(storage) \in Nat
           /\ Len(storage) >= 1 => storage[1] = Ends[Gone] + 1
<1>1. /\ Gone \in 0..Messages /\ Ends[Gone] <= sent /\ storage = Part(Ends[Gone], sent)
      /\ sent \in 0..Ends[Messages]
  BY DEF IInv, Typed, Tracks
<1>2. Ends[Gone] \in Nat /\ sent \in Nat /\ sent <= Ends[Messages]
  BY <1>1, EndsGrow
<1>3. /\ Len(storage) = sent - Ends[Gone] /\ sent - Ends[Gone] \in Nat
      /\ \A i \in 1..(sent - Ends[Gone]) : storage[i] = Ends[Gone] + i
  <2>1. sent - Ends[Gone] \in Nat
    BY <1>1, <1>2
  <2> QED BY <1>1, <1>2, <2>1, PartIsSeq
<1>4. ASSUME Len(storage) >= 1 PROVE storage[1] = Ends[Gone] + 1
  <2>1. 1 \in 1..(sent - Ends[Gone])
    BY <1>3, <1>4
  <2> QED BY <1>3, <2>1
<1> QED BY <1>1, <1>2, <1>3, <1>4

LEMMA StorageStarting ==
    ASSUME IInv, at # "failed", Len(storage) >= 1
    PROVE  Gone + 1 \in 1..Messages /\ Starting(storage[1]) = {Gone + 1}
<1>1. /\ Gone \in 0..Messages /\ Ends[Gone] \in Nat /\ sent \in Nat
      /\ sent <= Ends[Messages] /\ Len(storage) = sent - Ends[Gone]
      /\ storage[1] = Ends[Gone] + 1
  BY StorageStart
<1>2. Messages \in Nat /\ \A m \in 1..Messages : Ends[m - 1] \in Nat
  BY EndsGrow
<1>3. Gone # Messages
  BY <1>1, <1>2
<1>4. Gone + 1 \in 1..Messages /\ (Gone + 1) - 1 = Gone
  BY <1>1, <1>2, <1>3
<1>5. ASSUME NEW m \in 1..Messages, Ends[m - 1] + 1 = storage[1] PROVE m = Gone + 1
  <2>1. Ends[m - 1] = Ends[Gone]
    <3>1. Ends[m - 1] \in Nat /\ Ends[m - 1] + 1 = Ends[Gone] + 1
      BY <1>1, <1>2, <1>5
    <3> QED BY <1>1, <3>1, SMTT(30)
  <2> QED BY <1>1, <2>1, NextHeader
<1>6. Ends[(Gone + 1) - 1] + 1 = storage[1]
  BY <1>1, <1>4
<1> QED BY <1>4, <1>5, <1>6 DEF Starting

\* What peek() finds is the next message of the stream, if it has been sent to its end.
LEMMA Buffered ==
    ASSUME IInv, at = "peek"
    PROVE  /\ 0 \in Found => Gone = Messages \/ sent - Ends[Gone] < Length(Gone + 1)
           /\ \A v \in Found \ {0} : /\ Gone + 1 \in 1..Messages
                                      /\ v = Length(Gone + 1) /\ Ends[Gone + 1] <= sent
<1>1. at # "failed" /\ Header \in Nat \ {0}
  BY DeframerAssumption
<1>2. /\ Gone \in 0..Messages /\ Ends[Gone] \in Nat /\ sent \in Nat
      /\ Len(storage) = sent - Ends[Gone] /\ Len(storage) \in Nat
  BY <1>1, StorageStart
<1>3. ASSUME Gone + 1 \in 1..Messages
      PROVE  /\ Length(Gone + 1) \in Nat /\ Length(Gone + 1) >= Header
             /\ Ends[Gone] + Length(Gone + 1) = Ends[Gone + 1] /\ Ends[Gone + 1] \in Nat
  <2>1. (Gone + 1) - 1 = Gone /\ Gone + 1 \in 0..Messages
    BY <1>2, <1>3
  <2> QED BY <1>3, <2>1, EndsGrow
<1>4. CASE Len(storage) < Header
  <2>1. Found = {0}
    BY <1>4 DEF Found
  <2>2. Gone # Messages => Gone + 1 \in 1..Messages
    BY <1>2, EndsGrow
  <2>3. Gone # Messages => Length(Gone + 1) \in Nat /\ Length(Gone + 1) >= Header
    BY <1>3, <2>2
  <2>4. Gone # Messages => sent - Ends[Gone] < Length(Gone + 1)
    BY <1>1, <1>2, <1>4, <2>3
  <2> QED BY <2>1, <2>4
<1>5. CASE ~(Len(storage) < Header)
  <2>1. Len(storage) >= 1
    BY <1>1, <1>2, <1>5
  <2>2. Gone + 1 \in 1..Messages /\ Starting(storage[1]) = {Gone + 1}
    BY <1>1, <2>1, StorageStarting
  <2>3. HeaderLengths = {Length(Gone + 1)}
    BY <2>2 DEF HeaderLengths
  <2>4. Found = {IF Whole(Length(Gone + 1)) THEN Length(Gone + 1) ELSE 0}
    BY <1>5, <2>3 DEF Found
  <2>5. CASE Whole(Length(Gone + 1))
    <3>1. Found = {Length(Gone + 1)} /\ Length(Gone + 1) # 0
      BY <2>4, <2>5, <1>1, <1>3, <2>2
    <3>2. Ends[Gone + 1] <= sent
      <4>1. Length(Gone + 1) <= sent - Ends[Gone]
        BY <2>5, <1>2 DEF Whole
      <4> QED BY <4>1, <1>2, <1>3, <2>2
    <3> QED BY <3>1, <3>2, <2>2
  <2>6. CASE ~Whole(Length(Gone + 1))
    <3>1. Found = {0}
      BY <2>4, <2>6
    <3>2. sent - Ends[Gone] < Length(Gone + 1)
      BY <2>6, <1>2, <1>3, <2>2 DEF Whole
    <3> QED BY <3>1, <3>2
  <2> QED BY <2>5, <2>6
<1> QED BY <1>4, <1>5

-----------------------------------------------------------------------------
(* The invariant holds at first and every step keeps it *)

LEMMA InitHolds == Init => IInv
<1> SUFFICES ASSUME Init PROVE IInv
  OBVIOUS
<1>1. /\ sent = 0 /\ storage = <<>> /\ view = 0 /\ at = "read" /\ handled = <<>> /\ saved = <<>>
      /\ Len(handled) = 0 /\ Gone = 0
  BY DEF Init, Gone
<1>2. Messages \in Nat \ {0} /\ Ends[0] = 0 /\ Ends[Messages] \in Nat /\ Capacity \in Nat
  BY EndsGrow, DeframerAssumption
<1>3. Typed
  BY <1>1, <1>2 DEF Typed
<1>4. Part(Ends[Gone], sent) = <<>>
  BY <1>1, <1>2 DEF Part
<1>5. Tracks
  BY <1>1, <1>2, <1>4 DEF Tracks
<1>6. Faithful /\ CertificateKept
  BY <1>1 DEF Faithful, CertificateKept
<1>7. Gone < Finished => sent <= Ends[Finished]
  <2>1. Ends[Finished] \in Nat
    BY EndsGrow
  <2> QED BY <1>1, <2>1
<1>8. sent - Ends[Gone] < Length(Gone + 1)
  <2>1. Length(1) \in Nat /\ Length(1) >= Header /\ Header \in Nat \ {0}
    <3>1. 1 \in 1..Messages
      BY <1>2
    <3> QED BY <3>1, EndsGrow, DeframerAssumption
  <2> QED BY <1>1, <1>2, <2>1
<1>9. NoCutOverflows
  BY <1>1 DEF NoCutOverflows
<1> QED BY <1>3, <1>5, <1>6, <1>7, <1>8, <1>9 DEF IInv, Waits

LEMMA ReadOnKeeps ==
    ASSUME IInv, ReadOn PROVE IInv'
<1>1. at = "peek" /\ at' = "read" /\ 0 \in Found
      /\ UNCHANGED <<sent, storage, view, handled, saved>>
  BY DEF ReadOn
<1>2. Gone' = Gone
  BY <1>1 DEF Gone
<1>3. Typed'
  BY <1>1 DEF IInv, Typed
<1>4. Tracks'
  BY <1>1, <1>2 DEF IInv, Tracks
<1>5. Faithful' /\ CertificateKept' /\ NoCutOverflows'
  BY <1>1 DEF IInv, Faithful, CertificateKept, NoCutOverflows
<1>6. Waits'
  BY <1>1, <1>2, Buffered DEF IInv, Waits
<1> QED BY <1>3, <1>4, <1>5, <1>6 DEF IInv

LEMMA PeekKeeps ==
    ASSUME IInv, Peek PROVE IInv'
<1>1. at = "peek" /\ at' = "handle" /\ view' \in Found \ {0}
      /\ UNCHANGED <<sent, storage, handled, saved>>
  BY DEF Peek
<1>2. Gone' = Gone
  BY <1>1 DEF Gone
<1>3. Gone + 1 \in 1..Messages /\ view' = Length(Gone + 1) /\ Ends[Gone + 1] <= sent
  BY <1>1, Buffered
<1>4. view' \in Nat
  BY <1>3, EndsGrow
<1>5. Typed'
  BY <1>1, <1>4 DEF IInv, Typed
<1>6. Tracks'
  BY <1>1, <1>2, <1>3 DEF IInv, Tracks
<1>7. Faithful' /\ CertificateKept' /\ NoCutOverflows'
  BY <1>1 DEF IInv, Faithful, CertificateKept, NoCutOverflows
<1>8. Waits'
  BY <1>1, <1>2 DEF IInv, Waits
<1> QED BY <1>5, <1>6, <1>7, <1>8 DEF IInv

\* With room for a message less one octet and a record, a record fits behind what is left.
LEMMA RoomForRecord ==
    ASSUME IInv, NEW n \in 0..Record, ReadRecord(n), Enough PROVE Fits(n)
<1>1. at = "read" /\ sent + n <= Ends[IF sent < Ends[Finished] THEN Finished ELSE Messages]
  BY DEF ReadRecord
<1>2. /\ Gone \in 0..Messages /\ Ends[Gone] \in Nat /\ sent \in Nat
      /\ Len(storage) = sent - Ends[Gone] /\ Len(storage) \in Nat
      /\ Capacity \in Nat /\ Record \in Nat /\ n \in Nat /\ Ends[Messages] \in Nat
  BY <1>1, StorageStart, EndsGrow, DeframerAssumption
<1>3. CASE Gone = Messages
  <2>1. Ends[Finished] <= Ends[Messages] /\ Ends[Finished] \in Nat
    BY EndsGrow
  <2>2. sent + n <= Ends[Messages]
    BY <1>1, <1>2, <2>1
  <2>3. n = 0 /\ Len(storage) = 0
    <3>1. Ends[Messages] <= sent
      BY <1>1, <1>3 DEF IInv, Tracks
    <3> QED BY <1>2, <1>3, <2>2, <3>1
  <2> QED BY <1>2, <2>3 DEF Fits
<1>4. CASE Gone # Messages
  <2>1. Gone + 1 \in 1..Messages
    BY <1>2, <1>4, EndsGrow
  <2>2. Length(Gone + 1) - 1 + Record <= Capacity /\ Length(Gone + 1) \in Nat
    BY <2>1, EndsGrow DEF Enough
  <2>3. sent - Ends[Gone] < Length(Gone + 1)
    BY <1>1, <1>4 DEF IInv, Waits
  <2> QED BY <1>2, <2>2, <2>3, SMTT(30) DEF Fits
<1> QED BY <1>3, <1>4

LEMMA ReadRecordKeeps ==
    ASSUME IInv, NEW n \in 0..Record, ReadRecord(n) PROVE IInv'
<1>1. /\ at = "read" /\ sent + n <= Ends[IF sent < Ends[Finished] THEN Finished ELSE Messages]
      /\ sent' = sent + n /\ UNCHANGED <<view, handled, saved>>
      /\ \/ /\ Fits(n) /\ at' = "peek"
            /\ storage' = storage \o [i \in 1..n |-> sent + i]
         \/ ~Fits(n) /\ at' = "failed" /\ storage' = storage
  BY DEF ReadRecord
<1>2. /\ Gone \in 0..Messages /\ Ends[Gone] \in Nat /\ sent \in Nat /\ Ends[Gone] <= sent
      /\ storage = Part(Ends[Gone], sent) /\ Len(storage) = sent - Ends[Gone]
      /\ Capacity \in Nat /\ n \in Nat /\ Ends[Messages] \in Nat
  BY <1>1, StorageStart, EndsGrow, DeframerAssumption DEF IInv, Tracks
<1>3. Gone' = Gone
  BY <1>1 DEF Gone
<1>4. Ends[Finished] \in Nat /\ Ends[Finished] <= Ends[Messages]
  BY EndsGrow
<1>5. sent' \in 0..Ends[Messages] /\ sent' \in Nat /\ Ends[Gone] <= sent'
  BY <1>1, <1>2, <1>4
<1>6. at' # "failed" => storage' = Part(Ends[Gone], sent')
  <2>1. Ends[Gone] \in Nat /\ sent \in Nat /\ n \in Nat /\ Ends[Gone] <= sent
    BY <1>2
  <2>2. Part(Ends[Gone], sent) \o [i \in 1..n |-> sent + i] = Part(Ends[Gone], sent + n)
    BY ONLY <2>1, PartAppend
  <2> QED BY <1>1, <1>2, <2>2
<1>7. storage' \in Seq(Octets) /\ Len(storage') <= Capacity
  <2>1. CASE Fits(n)
    <3>1. storage' = Part(Ends[Gone], sent')
      BY <1>1, <1>6, <2>1
    <3>2. storage' \in Seq(Octets) /\ Len(storage') = sent' - Ends[Gone]
      <4>1. sent' <= Ends[Messages]
        BY <1>5
      <4> QED BY <1>2, <1>5, <3>1, <4>1, PartIsSeq DEF Octets
    <3>3. n <= Capacity - (sent - Ends[Gone])
      BY <1>2, <2>1 DEF Fits
    <3> QED BY <1>1, <1>2, <3>2, <3>3, SMTT(30)
  <2>2. CASE ~Fits(n)
    BY <1>1, <2>2 DEF IInv, Typed
  <2> QED BY <2>1, <2>2
<1>8. Typed'
  BY <1>1, <1>5, <1>7 DEF IInv, Typed
<1>9. Tracks'
  BY <1>1, <1>2, <1>3, <1>5, <1>6 DEF IInv, Tracks
<1>10. Faithful' /\ CertificateKept'
  BY <1>1 DEF IInv, Faithful, CertificateKept
<1>11. Gone < Finished => sent' <= Ends[Finished]
  <2> SUFFICES ASSUME Gone < Finished PROVE sent' <= Ends[Finished]
    OBVIOUS
  <2>1. /\ Gone # Messages /\ Gone + 1 \in 1..Messages /\ Gone + 1 \in 0..Messages
        /\ Gone + 1 <= Finished /\ (Gone + 1) - 1 = Gone /\ Finished \in 0..Messages
    BY <1>2, EndsGrow
  <2>2. Ends[Gone] + Length(Gone + 1) = Ends[Gone + 1] /\ Ends[Gone + 1] \in Nat
    BY <2>1, EndsGrow
  <2>3. Ends[Gone + 1] <= Ends[Finished] /\ Length(Gone + 1) \in Nat
    BY <2>1, EndsGrow
  <2>4. sent - Ends[Gone] < Length(Gone + 1)
    BY <1>1, <2>1 DEF IInv, Waits
  <2>5. sent < Ends[Finished]
    BY <1>2, <1>4, <2>2, <2>3, <2>4, SMTT(30)
  <2> QED BY <1>1, <2>5
<1>12. Waits'
  BY <1>1, <1>3, <1>11 DEF Waits
<1>13. NoCutOverflows'
  <2>1. Enough' = Enough
    BY DEF Enough
  <2> QED BY <1>1, <2>1, RoomForRecord DEF NoCutOverflows
<1> QED BY <1>8, <1>9, <1>10, <1>12, <1>13 DEF IInv

LEMMA HandleKeeps ==
    ASSUME IInv, Handle PROVE IInv'
<1> DEFINE next == Gone + 1
<1>1. at = "handle" /\ UNCHANGED <<sent, storage, view>>
  BY DEF Handle
<1>2. /\ next \in 1..Messages /\ view = Length(next) /\ Ends[next] <= sent
      /\ Gone = Len(handled) /\ Gone \in 0..Messages /\ storage = Part(Ends[Gone], sent)
  BY <1>1 DEF IInv, Tracks, Gone
<1>3. /\ next - 1 = Gone /\ Ends[Gone] \in Nat /\ sent \in Nat /\ Length(next) \in Nat
      /\ Ends[Gone] + Length(next) = Ends[next] /\ Ends[next] \in Nat
      /\ Len(storage) = sent - Ends[Gone] /\ Length(next) >= Header /\ Header \in Nat \ {0}
  <2>1. next - 1 = Gone /\ next \in 0..Messages
    BY <1>2
  <2>2. /\ Ends[next - 1] + Length(next) = Ends[next] /\ Length(next) >= Header
        /\ Length(next) \in Nat /\ Ends[next] \in Nat
    BY <1>2, <2>1, EndsGrow
  <2> QED BY <1>1, <2>1, <2>2, StorageStart, DeframerAssumption
<1>4. Shown = Message(next)
  <2>1. Ends[Gone] + Length(next) <= sent
    BY <1>2, <1>3
  <2>2. SubSeq(storage, 1, Length(next)) = [i \in 1..Length(next) |-> Ends[Gone] + i]
    <3>1. /\ Ends[Gone] \in Nat /\ Length(next) \in Nat /\ sent \in Nat
          /\ Ends[Gone] + Length(next) <= sent
      BY <1>3, <2>1
    <3>2. SubSeq(Part(Ends[Gone], sent), 1, Length(next)) = [i \in 1..Length(next) |-> Ends[Gone] + i]
      BY ONLY <3>1, PartSplit
    <3> QED BY <1>2, <3>2
  <2> QED BY <1>2, <1>3, <2>2 DEF Shown, Message
<1>5. IsCertificate <=> next \in Certificates
  <2>1. Len(storage) >= 1
    BY <1>2, <1>3
  <2>2. Starting(storage[1]) = {next}
    BY <1>1, <2>1, StorageStarting
  <2> QED BY <2>2 DEF IsCertificate
<1>6. Shown \in Seq(Octets)
  <2>1. Shown = Part(Ends[Gone], Ends[next])
    <3>1. Ends[next] - Ends[Gone] = Length(next)
      BY <1>3
    <3> QED BY <1>3, <1>4, <3>1 DEF Message, Part
  <2>2. Ends[next] <= Ends[Messages] /\ Ends[Gone] <= Ends[next] /\ Ends[Messages] \in Nat
    BY <1>2, <1>3, EndsGrow DEF IInv, Typed
  <2> QED BY <1>3, <2>1, <2>2, PartIsSeq DEF Octets
<1>7. Enough' = Enough
  BY DEF Enough
<1>8. CASE IsCertificate /\ view > CertCapacity
  <2>1. at' = "failed" /\ UNCHANGED <<handled, saved>>
    BY <1>8 DEF Handle
  <2>2. Gone' = Gone
    BY <1>1, <2>1 DEF Gone
  <2>3. Typed'
    BY <1>1, <2>1 DEF IInv, Typed
  <2>4. Tracks'
    BY <1>1, <2>1, <2>2 DEF IInv, Tracks
  <2>5. Faithful' /\ CertificateKept'
    BY <2>1 DEF IInv, Faithful, CertificateKept
  <2>6. Waits'
    BY <1>1, <2>1, <2>2 DEF IInv, Waits
  <2>7. ~Enough
    <3>1. Enough => Length(next) <= CertCapacity
      BY <1>5, <1>8 DEF Enough
    <3> QED BY <1>2, <1>3, <1>8, <3>1, DeframerAssumption
  <2> QED BY <1>7, <2>3, <2>4, <2>5, <2>6, <2>7 DEF IInv, NoCutOverflows
<1>9. CASE ~(IsCertificate /\ view > CertCapacity)
  <2>1. /\ at' = "consume" /\ handled' = Append(handled, Shown)
        /\ saved' = IF IsCertificate THEN Shown ELSE saved
    BY <1>9 DEF Handle
  <2>2. /\ handled' \in Seq(Seq(Octets)) /\ Len(handled') = next
        /\ \A m \in 1..Len(handled) : handled'[m] = handled[m]
        /\ handled'[next] = Shown
    <3>1. handled \in Seq(Seq(Octets))
      BY DEF IInv, Typed
    <3> QED BY <1>2, <1>6, <2>1, <3>1, AppendProperties
  <2>3. Gone' = Gone
    BY <1>2, <2>1, <2>2 DEF Gone
  <2>4. Typed'
    BY <1>1, <1>6, <2>1, <2>2 DEF IInv, Typed
  <2>5. Tracks'
    <3>1. Len(handled') \in 0..Messages
      BY <1>2, <2>2
    <3> QED BY <1>1, <2>1, <2>3, <3>1 DEF IInv, Tracks
  <2>6. Faithful'
    <3>1. \A m \in 1..Len(handled') : m = next \/ m \in 1..Len(handled)
      BY <1>2, <2>2
    <3>2. \A m \in 1..Len(handled) : handled[m] = Message(m)
      BY DEF IInv, Faithful
    <3>3. \A m \in 1..Len(handled') : handled'[m] = Message(m)
      BY <1>4, <2>2, <3>1, <3>2
    <3> QED BY <3>3 DEF Faithful, Message, Length
  <2>7. CertificateKept'
    <3>1. CASE next \in Certificates
      <4>1. saved' = Message(next)
        BY <1>4, <1>5, <2>1, <3>1
      <4>2. next \in Certificates \cap 1..next /\ \A l \in Certificates \cap 1..next : l <= next
        BY <1>2, <3>1
      <4> QED BY <2>2, <4>1, <4>2 DEF CertificateKept, Message, Length
    <3>2. CASE next \notin Certificates
      <4>1. Certificates \cap 1..Len(handled') = Certificates \cap 1..Len(handled)
        BY <1>2, <2>2, <3>2
      <4>2. saved' = saved
        BY <1>5, <2>1, <3>2
      <4> QED BY <4>1, <4>2 DEF IInv, CertificateKept, Message, Length
    <3> QED BY <3>1, <3>2
  <2>8. Waits'
    BY <1>1, <2>1, <2>3 DEF IInv, Waits
  <2>9. NoCutOverflows'
    BY <1>7, <2>1 DEF NoCutOverflows
  <2> QED BY <2>4, <2>5, <2>6, <2>7, <2>8, <2>9 DEF IInv
<1> QED BY <1>8, <1>9

LEMMA ConsumeKeeps ==
    ASSUME IInv, Consume PROVE IInv'
<1> DEFINE next == Gone + 1
<1>1. /\ at = "consume" /\ storage' = Consumed(view)
      /\ at' = IF Len(handled) = Finished THEN "read" ELSE "peek"
      /\ UNCHANGED <<sent, view, handled, saved>>
  BY DEF Consume
<1>2. /\ next \in 1..Messages /\ view = Length(next) /\ Ends[next] <= sent
      /\ next = Len(handled) /\ Gone \in 0..Messages /\ storage = Part(Ends[Gone], sent)
  BY <1>1 DEF IInv, Tracks, Gone
<1>3. /\ next - 1 = Gone /\ next \in 0..Messages /\ Ends[Gone] \in Nat /\ sent \in Nat
      /\ Length(next) \in Nat /\ Ends[Gone] + Length(next) = Ends[next] /\ Ends[next] \in Nat
      /\ Len(storage) = sent - Ends[Gone] /\ sent <= Ends[Messages]
  <2>1. next - 1 = Gone /\ next \in 0..Messages
    BY <1>2
  <2>2. /\ Ends[next - 1] + Length(next) = Ends[next]
        /\ Length(next) \in Nat /\ Ends[next] \in Nat
    BY <1>2, <2>1, EndsGrow
  <2> QED BY <1>1, <2>1, <2>2, StorageStart
<1>4. Gone' = next
  BY <1>1, <1>2 DEF Gone
<1>5. storage' = Part(Ends[next], sent)
  <2>1. Ends[Gone] + Length(next) <= sent
    BY <1>2, <1>3
  <2>2. SubSeq(storage, Length(next) + 1, sent - Ends[Gone]) = Part(Ends[Gone] + Length(next), sent)
    <3>1. /\ Ends[Gone] \in Nat /\ Length(next) \in Nat /\ sent \in Nat
          /\ Ends[Gone] + Length(next) <= sent
      BY <1>3, <2>1
    <3>2. SubSeq(Part(Ends[Gone], sent), Length(next) + 1, sent - Ends[Gone])
            = Part(Ends[Gone] + Length(next), sent)
      BY ONLY <3>1, PartSplit
    <3> QED BY <1>2, <3>2
  <2> QED BY <1>1, <1>2, <1>3, <2>2 DEF Consumed
<1>6. storage' \in Seq(Octets) /\ Len(storage') <= Capacity
  <2>1. storage' \in Seq(Octets) /\ Len(storage') = sent - Ends[next]
    BY <1>2, <1>3, <1>5, EndsGrow, PartIsSeq DEF Octets
  <2>2. Len(storage) <= Capacity /\ Capacity \in Nat
    BY DeframerAssumption DEF IInv, Typed
  <2> QED BY <1>3, <2>1, <2>2, SMTT(30)
<1>7. Typed'
  BY <1>1, <1>6 DEF IInv, Typed
<1>8. Tracks'
  BY <1>1, <1>2, <1>3, <1>4, <1>5 DEF IInv, Tracks
<1>9. Faithful' /\ CertificateKept'
  BY <1>1 DEF IInv, Faithful, CertificateKept
<1>10. next < Finished => sent <= Ends[Finished]
  <2>1. next < Finished => Gone < Finished
    BY <1>2, EndsGrow
  <2> QED BY <2>1 DEF IInv, Waits
<1>11. at' = "read" => next = Messages \/ sent - Ends[next] < Length(next + 1)
  <2> SUFFICES ASSUME at' = "read", next # Messages PROVE sent - Ends[next] < Length(next + 1)
    OBVIOUS
  <2>1. next = Finished
    BY <1>1, <1>2
  <2>2. sent <= Ends[next]
    <3>1. Gone < Finished
      BY <1>2, <2>1
    <3> QED BY <2>1, <3>1 DEF IInv, Waits
  <2>3. Length(next + 1) \in Nat /\ Length(next + 1) >= Header /\ Header \in Nat \ {0}
    <3>1. next + 1 \in 1..Messages
      BY <1>2, EndsGrow
    <3> QED BY <3>1, EndsGrow, DeframerAssumption
  <2> QED BY <1>3, <2>2, <2>3
<1>12. Waits'
  BY <1>1, <1>4, <1>10, <1>11 DEF Waits
<1>13. NoCutOverflows'
  BY <1>1 DEF NoCutOverflows
<1> QED BY <1>7, <1>8, <1>9, <1>12, <1>13 DEF IInv

LEMMA StutterKeeps ==
    ASSUME IInv, UNCHANGED vars PROVE IInv'
<1>1. UNCHANGED <<sent, storage, view, at, handled, saved>>
  BY DEF vars
<1>2. Gone' = Gone
  BY <1>1 DEF Gone
<1>3. Typed'
  BY <1>1 DEF IInv, Typed
<1>4. Tracks'
  BY <1>1, <1>2 DEF IInv, Tracks
<1>5. Faithful' /\ CertificateKept' /\ NoCutOverflows'
  BY <1>1 DEF IInv, Faithful, CertificateKept, NoCutOverflows
<1>6. Waits'
  BY <1>1, <1>2 DEF IInv, Waits
<1> QED BY <1>3, <1>4, <1>5, <1>6 DEF IInv

LEMMA InvHolds == Spec => []IInv
<1>1. IInv /\ [Next]_vars => IInv'
  <2> SUFFICES ASSUME IInv, [Next]_vars PROVE IInv'
    OBVIOUS
  <2>1. ASSUME NEW n \in 0..Record, ReadRecord(n) PROVE IInv'
    BY <2>1, ReadRecordKeeps
  <2>2. CASE ReadOn
    BY <2>2, ReadOnKeeps
  <2>3. CASE Peek
    BY <2>3, PeekKeeps
  <2>4. CASE Handle
    BY <2>4, HandleKeeps
  <2>5. CASE Consume
    BY <2>5, ConsumeKeeps
  <2>6. CASE UNCHANGED vars
    BY <2>6, StutterKeeps
  <2> QED BY <2>1, <2>2, <2>3, <2>4, <2>5, <2>6 DEF Next
<1> QED BY <1>1, InitHolds, PTL DEF Spec

-----------------------------------------------------------------------------
(* The theorems *)

\* handshake_storage_ never holds more than its capacity: append() checks before it copies.
THEOREM TypeCorrect == Spec => []TypeOK
<1>1. IInv => TypeOK
  BY DEF IInv, Typed, TypeOK
<1> QED BY <1>1, InvHolds, PTL

\* However the peer cuts its stream into records, process_server_handshake() and
\* process_post_handshake() are shown its messages whole, once and in order.
THEOREM HandledInOrder == Spec => []MessagesInOrder
<1>1. IInv => MessagesInOrder
  <2>1. IInv => Len(handled) \in 0..Messages /\ Faithful
    BY DEF IInv, Tracks
  <2> QED BY <2>1, EndsGrow DEF Faithful, MessagesInOrder
<1> QED BY <1>1, InvHolds, PTL

\* Between records the storage is what was sent and not yet handled: no octet is lost or
\* read twice where append() and consume() meet.
THEOREM StorageIsTheRest == Spec => []NothingLost
<1>1. IInv => NothingLost
  <2>1. IInv /\ at = "read" => storage = Part(Ends[Len(handled)], sent)
    BY DEF IInv, Tracks, Gone
  <2> QED BY <2>1 DEF NothingLost, Part
<1> QED BY <1>1, InvHolds, PTL

\* The certificate that cert_info points into is the last one handled, whatever consume()
\* has moved since.
THEOREM CertificateOutlivesStorage == Spec => []CertificateKept
<1>1. IInv => CertificateKept
  BY DEF IInv
<1> QED BY <1>1, InvHolds, PTL

\* With room for a message less an octet and a record, no cut makes append() refuse one.
THEOREM CutsFit == Spec => []NoCutOverflows
<1>1. IInv => NoCutOverflows
  BY DEF IInv
<1> QED BY <1>1, InvHolds, PTL
=============================================================================
