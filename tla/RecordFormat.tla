----------------------------- MODULE RecordFormat -----------------------------
(***************************************************************************)
(* The lengths and the padding of a protected record, as                   *)
(* protect_record_aes128_gcm() and unprotect_record_aes128_gcm() of        *)
(* src/src/tls/protected_record.cpp have them.                             *)
(*                                                                         *)
(* An octet is a number.  Encryption is symbolic: the octets of a fragment *)
(* are those of the inner plaintext, and each octet of its tag is the      *)
(* sequence number the record was protected with.  A header is its content *)
(* type and its length, which takes HeaderSize octets: what the length is  *)
(* spelled with and the legacy version are left out.                       *)
(***************************************************************************)
EXTENDS Naturals, Sequences

CONSTANTS
    MaxContent,    \* 16384: content of a record
    MaxFragment,   \* 16640: protected fragment of a record
    MaxPadding,    \* 255: zero octets behind the content type
    TagSize        \* 16

ASSUME FormatAssumption ==
    /\ MaxContent \in Nat \ {0} /\ MaxFragment \in Nat /\ MaxPadding \in Nat
    /\ TagSize \in Nat \ {0}
    /\ MaxContent + 1 + TagSize <= MaxFragment
    /\ MaxPadding + 1 + TagSize < MaxFragment

ContentTypes == 20..23
ChangeCipherSpec == 20
ApplicationData  == 23

\* The buffers of the callers, in octets: record[16645], plain[16640], pending_app_.
HeaderSize      == 2
RecordCapacity  == HeaderSize + MaxFragment
PlainCapacity   == MaxFragment
PendingCapacity == MaxContent

-----------------------------------------------------------------------------

Zeros(n) == [i \in 1..n |-> 0]

\* TLSInnerPlaintext: content, content type, padding.
Inner(type, content, padding) == content \o <<type>> \o Zeros(padding)

FragmentLength(size, padding) == size + 1 + padding + TagSize

\* The checks of protect_record_aes128_gcm() before it encrypts: the record is always as
\* long as its buffer allows.
\* Mutant: the content is not checked.
ProtectError_AnyContent(size, padding) ==
    IF padding > MaxPadding \/ FragmentLength(size, padding) > MaxFragment
      THEN "BAD_RECORD" ELSE "OK"
ProtectError(size, padding) ==
    IF \/ size > MaxContent \/ padding > MaxPadding
       \/ FragmentLength(size, padding) > MaxFragment
      THEN "BAD_RECORD" ELSE "OK"

Protected(type, content, padding, seq) ==
    <<ApplicationData, FragmentLength(Len(content), padding)>>
    \o Inner(type, content, padding) \o [i \in 1..TagSize |-> seq]

-----------------------------------------------------------------------------

LengthOf(record)   == record[2]
PlainOf(record)    == SubSeq(record, HeaderSize + 1, HeaderSize + LengthOf(record) - TagSize)
Verifies(record, seq) ==
    \A i \in (LengthOf(record) - TagSize + 1)..LengthOf(record) : record[HeaderSize + i] = seq

NonZeros(plain) == {i \in 1..Len(plain) : plain[i] # 0}

\* Where the scan from the end over the padding stops; 0 when nothing but zeros is there.
TypeIndex(plain) ==
    IF NonZeros(plain) = {} THEN 0
    ELSE CHOOSE i \in NonZeros(plain) : \A j \in NonZeros(plain) : j <= i

\* Mutant: the padding stays.
ContentOf_Padded(plain) == SubSeq(plain, 1, Len(plain) - 1)
ContentOf(plain) == SubSeq(plain, 1, TypeIndex(plain) - 1)
TypeOf(plain)    == plain[TypeIndex(plain)]

\* unprotect_record_aes128_gcm() on a record whose header was checked when it was read.
UnprotectError(record, seq) ==
    IF LengthOf(record) < TagSize + 1                    THEN "BAD_RECORD"
    ELSE IF LengthOf(record) - TagSize > PlainCapacity   THEN "BUFFER_TOO_SMALL"
    ELSE IF ~Verifies(record, seq)                       THEN "VERIFY"
    ELSE IF TypeIndex(PlainOf(record)) = 0               THEN "BAD_RECORD"
    ELSE IF TypeOf(PlainOf(record)) \notin ContentTypes  THEN "BAD_RECORD"
    ELSE "OK"

=============================================================================
