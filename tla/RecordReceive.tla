----------------------------- MODULE RecordReceive -----------------------------
(***************************************************************************)
(* TlsClient::recv() of src/src/tls/connection.cpp on a connected client,  *)
(* octet by octet, for application data: read_record() collects a record   *)
(* from a socket that gives a part at a time, unprotect takes the padding  *)
(* off, and what the caller's buffer does not hold waits in pending_app_.  *)
(* Alerts and handshake messages are TlsClient's.                          *)
(*                                                                         *)
(* The peer is external.  It cuts Data into records with any padding, puts *)
(* change_cipher_spec records between them, may close or fail in the       *)
(* middle of a record, and may go wrong once and write a record that is    *)
(* refused.  It puts up to PeerContent octets of content in one, which may *)
(* be more than the 2^14 that RFC 8446 section 5.4 allows: recv() does not *)
(* look at the length of the content.                                      *)
(***************************************************************************)
EXTENDS RecordFormat

CONSTANTS
    Data,          \* the octets the peer has to send
    PeerContent,   \* the most content the peer puts in a record
    OutSizes,      \* sizes of the buffers recv() is called with
    MaxRecords     \* bound: records the peer protects

ASSUME ReceiveAssumption ==
    /\ Data \in Seq(0..255) /\ PeerContent \in Nat /\ OutSizes \subseteq Nat
    /\ MaxRecords \in Nat

VARIABLES
    state,         \* state_: CONNECTED or FAILED; "OVERRUN" once a copy has left its buffer
    result,        \* what the last recv() returned
    seq,           \* server_app_keys_.sequence_number
    calling,       \* a recv() is in read_record() or past it
    out,           \* its out.size
    record,        \* record: the octets read_record() has, its "have"
    pending,       \* pending_app_ from its offset on
    got,           \* history: octets handed to the caller
    socket,        \* external: octets the peer wrote and the client has not read
    peerSent,      \* external: octets of Data the peer has protected
    peerSeq,       \* external: records the peer has protected
    peerOk,        \* external: it has written none of the MalformedRecords
    peerKept       \* external: it has put no more than MaxContent octets in a record

clientVars == <<state, result, seq, calling, out, record, pending, got>>
peerVars   == <<peerSent, peerSeq, peerOk, peerKept>>
vars       == <<clientVars, socket, peerVars>>

Least(a, b)  == IF a < b THEN a ELSE b
Drop(s, n)   == SubSeq(s, n + 1, Len(s))
Take(s, n)   == SubSeq(s, 1, n)

-----------------------------------------------------------------------------
(* The peer *)

PeerMayWrite == peerOk /\ peerSeq < MaxRecords /\ Len(socket) < MaxFragment

PeerWrites(n, padding) ==
    /\ PeerMayWrite
    /\ n <= PeerContent /\ peerSent + n <= Len(Data)
    /\ FragmentLength(n, padding) <= MaxFragment
    /\ socket' = socket \o Protected(ApplicationData, SubSeq(Data, peerSent + 1, peerSent + n),
                                     padding, peerSeq)
    /\ peerSent' = peerSent + n /\ peerSeq' = peerSeq + 1
    /\ peerKept' = (peerKept /\ n <= MaxContent)
    /\ UNCHANGED <<clientVars, peerOk>>

PeerChangesCipherSpec ==
    /\ PeerMayWrite
    /\ socket' = socket \o <<ChangeCipherSpec, 1, 1>>
    /\ UNCHANGED <<clientVars, peerVars>>

\* A fragment of its own length under a tag, and what it may be wrong in: too long, too
\* short for a tag, no content type, one that does not exist, another sequence number.
\* (Too much content in a fragment that is not too long is the peer's to write above.)
Fragment(plain, tag) ==
    <<ApplicationData, Len(plain) + TagSize>> \o plain \o [i \in 1..TagSize |-> tag]
MalformedRecords ==
    {<<ApplicationData, MaxFragment + 1>>, <<ApplicationData, TagSize - 1>> \o Zeros(TagSize - 1),
     <<22, 1, 1>>, Fragment(Zeros(MaxContent), peerSeq), Fragment(<<1, 19>>, peerSeq),
     Fragment(<<1, ApplicationData>>, peerSeq + 1)}

PeerGoesWrong(r) ==
    /\ PeerMayWrite
    /\ socket' = socket \o r /\ peerOk' = FALSE
    /\ UNCHANGED <<clientVars, peerSent, peerSeq, peerKept>>

-----------------------------------------------------------------------------
(* recv() *)

Fail(e) == /\ state' = "FAILED" /\ result' = e /\ calling' = FALSE
           /\ record' = <<>>

\* Hands the first octets of plain to the caller and keeps the others.
Deliver(plain, size) ==
    LET n == Least(Len(plain), size) IN
    /\ got' = got \o Take(plain, n)
    /\ pending' = Drop(plain, n)

RecvRefused ==
    /\ ~calling /\ state = "FAILED"
    /\ result' = "CLOSED"
    /\ UNCHANGED <<state, seq, calling, out, record, pending, got, socket, peerVars>>

Results == {"OK", "CLOSED", "BAD_RECORD", "VERIFY", "IO"}

\* Behind an overrun nothing is defined; a call may return anything.
RecvUndefined ==
    /\ ~calling /\ state = "OVERRUN"
    /\ result' \in Results
    /\ UNCHANGED <<state, seq, calling, out, record, pending, got, socket, peerVars>>

RecvPending(size) ==
    /\ ~calling /\ state = "CONNECTED" /\ pending # <<>>
    /\ Deliver(pending, size)
    /\ result' = "OK"
    /\ UNCHANGED <<state, seq, calling, out, record, socket, peerVars>>

\* Mutant: a record is read over what is pending.
RecvStart_OverPending(size) ==
    /\ ~calling /\ state = "CONNECTED"
    /\ calling' = TRUE /\ out' = size /\ record' = <<>>
    /\ UNCHANGED <<state, result, seq, pending, got, socket, peerVars>>
RecvStart(size) ==
    /\ ~calling /\ state = "CONNECTED" /\ pending = <<>>
    /\ calling' = TRUE /\ out' = size /\ record' = <<>>
    /\ UNCHANGED <<state, result, seq, pending, got, socket, peerVars>>

HasHeader == Len(record) >= HeaderSize

\* What read_record() asks recv_some() for: the rest of the header, then of the record.
Wanted == (IF HasHeader THEN HeaderSize + LengthOf(record) ELSE HeaderSize) - Len(record)

\* The two checks of the length, of parse_record_header() and of the buffer.
\* Mutant: the longest record is refused.
HeaderFits_NotFull == LengthOf(record) < MaxFragment
HeaderFits == LengthOf(record) <= MaxFragment /\ HeaderSize + LengthOf(record) <= RecordCapacity

Whole  == HasHeader /\ HeaderFits /\ Wanted = 0
AtRead == calling /\ (HasHeader => HeaderFits) /\ Wanted > 0

\* One ::recv(), which gives n octets.
ReadSome(n) ==
    /\ AtRead /\ n <= Wanted
    /\ record' = record \o Take(socket, n)
    /\ socket' = Drop(socket, n)
    /\ UNCHANGED <<state, result, seq, calling, out, pending, got, peerVars>>

\* End of stream, an error or a timeout, before or in the middle of a record.
ReadFails(e) ==
    /\ AtRead
    /\ Fail(e)
    /\ UNCHANGED <<seq, out, pending, got, socket, peerVars>>

BadHeader ==
    /\ calling /\ HasHeader /\ ~HeaderFits
    /\ Fail("BAD_RECORD")
    /\ UNCHANGED <<seq, out, pending, got, socket, peerVars>>

\* The loop goes on after a change_cipher_spec record.
SkipRecord ==
    /\ calling /\ Whole /\ record[1] = ChangeCipherSpec
    /\ record' = <<>>
    /\ UNCHANGED <<state, result, seq, calling, out, pending, got, socket, peerVars>>

\* A plaintext record of another type.
PlaintextRefused ==
    /\ calling /\ Whole /\ record[1] \notin {ChangeCipherSpec, ApplicationData}
    /\ Fail("BAD_RECORD")
    /\ UNCHANGED <<seq, out, pending, got, socket, peerVars>>

AtData == calling /\ Whole /\ record[1] = ApplicationData

\* Mutant: a record that does not verify is skipped.
DataRefused_Skips ==
    /\ AtData /\ UnprotectError(record, seq) # "OK"
    /\ record' = <<>>
    /\ UNCHANGED <<state, result, seq, calling, out, pending, got, socket, peerVars>>
DataRefused ==
    /\ AtData /\ UnprotectError(record, seq) # "OK"
    /\ Fail(UnprotectError(record, seq))
    /\ UNCHANGED <<seq, out, pending, got, socket, peerVars>>

Content == ContentOf(PlainOf(record))
\* Whether what the caller's buffer does not hold fits in pending_app_.
RestFits == Len(Content) - Least(Len(Content), out) <= PendingCapacity

Receives ==
    /\ AtData /\ UnprotectError(record, seq) = "OK"
    /\ Deliver(Content, out)
    /\ seq' = seq + 1
    /\ calling' = FALSE /\ result' = "OK" /\ record' = <<>>
    /\ UNCHANGED <<out, socket, peerVars>>

DataReceived == Receives /\ RestFits /\ UNCHANGED state

\* The memcpy() of the rest is not guarded: it goes on over the members behind
\* pending_app_[16384] and, with more than a few octets, past the end of the object.
DataOverruns == Receives /\ ~RestFits /\ state' = "OVERRUN"

-----------------------------------------------------------------------------
(* The specification *)

Init ==
    /\ state = "CONNECTED" /\ result = "OK" /\ seq = 0
    /\ calling = FALSE /\ out = 0 /\ record = <<>> /\ pending = <<>> /\ got = <<>>
    /\ socket = <<>> /\ peerSent = 0 /\ peerSeq = 0 /\ peerOk = TRUE
    /\ peerKept = TRUE

\* The steps of a recv() for which octets are there.
Works == \/ \E n \in 1..Len(socket) : ReadSome(n)
         \/ BadHeader \/ SkipRecord \/ PlaintextRefused \/ DataRefused
         \/ DataReceived \/ DataOverruns

Next ==
    \/ \E n \in 0..PeerContent, padding \in 0..MaxPadding : PeerWrites(n, padding)
    \/ PeerChangesCipherSpec
    \/ \E r \in MalformedRecords : PeerGoesWrong(r)
    \/ RecvRefused \/ RecvUndefined
    \/ \E size \in OutSizes : RecvPending(size)
    \/ \E size \in OutSizes : RecvStart(size)
    \/ Works
    \/ \E e \in {"CLOSED", "IO"} : ReadFails(e)

\* A running thread goes on with the octets that are there; nothing is assumed of the peer.
Fairness == WF_vars(Works)

Spec == Init /\ [][Next]_vars /\ Fairness

-----------------------------------------------------------------------------
(* Properties *)

TypeOK ==
    /\ state \in {"CONNECTED", "FAILED", "OVERRUN"} /\ result \in Results
    /\ calling \in BOOLEAN /\ peerOk \in BOOLEAN /\ peerKept \in BOOLEAN
    /\ seq \in Nat /\ peerSeq \in Nat /\ peerSent \in 0..Len(Data)
    /\ out \in OutSizes \cup {0}
    /\ {record, pending, got, socket} \subseteq Seq(Nat)

\* The caller gets the octets of the peer in order, each once and unchanged, however
\* they were cut into records, read in parts, padded, and taken in parts, until a copy has
\* left its buffer.
DeliveredInOrder ==
    state # "OVERRUN" => got \o pending = Take(Data, Len(got) + Len(pending))

\* README.md:337: "malformed input fail[s] closed".  No copy leaves its buffer, whatever
\* the peer writes: what read_record() collects, what unprotect gives back and what is kept
\* for the next call.
CopiesFit ==
    /\ Len(record) <= RecordCapacity
    /\ Whole => LengthOf(record) - TagSize <= PlainCapacity
    /\ Len(pending) <= PendingCapacity

\* What can be said of the buffers: record[] and plain[] are never exceeded, whatever the
\* peer writes, and pending_app_ only by a peer that itself exceeds the 2^14 octets of
\* content of RFC 8446 section 5.4, not by padding or by records taken in parts.
LimitedPeerFits ==
    /\ Len(record) <= RecordCapacity
    /\ Whole => LengthOf(record) - TagSize <= PlainCapacity
    /\ peerKept => state # "OVERRUN" /\ Len(pending) <= PendingCapacity

\* The client refuses the MalformedRecords, each, and nothing else: otherwise only the
\* stream ends the connection, whatever the padding and the content.  Among what it does
\* not refuse is the record with more than 2^14 octets of content, which is malformed too
\* (RFC 8446 section 5.4; see CopiesFit).
OnlyMalformedFails ==
    /\ peerOk /\ state = "FAILED" => result \in {"CLOSED", "IO"}
    /\ ~peerOk /\ socket = <<>> /\ record = <<>> => state # "CONNECTED"

\* A recv() for which a record of application data, well formed or not, has arrived returns.
ArrivedReturns ==
    (calling /\ record = <<>> /\ socket # <<>> /\ socket[1] = ApplicationData) ~> ~calling

=============================================================================
