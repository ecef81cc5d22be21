------------------------------ MODULE RecordSend ------------------------------
(***************************************************************************)
(* TlsClient::send() of src/src/tls/connection.cpp on a connected client,  *)
(* octet by octet: it cuts the data into records, protects them, and       *)
(* Xbox360SocketStream::send_all() hands each to a socket that takes a     *)
(* part at a time or fails.                                                *)
(*                                                                         *)
(* The peer is external: an endpoint of RFC 8446 that reads the octets the *)
(* socket took record by record and refuses what exceeds section 5's       *)
(* limits.  The calls send the octets of Data one after the other.         *)
(***************************************************************************)
EXTENDS RecordFormat

CONSTANTS
    Data,          \* the octets the application has to send
    Paddings       \* values of application_record_padding

ASSUME SendAssumption == Data \in Seq(0..255) /\ Paddings \subseteq Nat

VARIABLES
    state,         \* state_: CONNECTED or FAILED
    result,        \* what the last send() returned
    padding,       \* config_.application_record_padding
    seq,           \* client_app_keys_.sequence_number
    calling,       \* a send() is in progress
    todo,          \* octets of its data not yet protected
    record,        \* octets of its record the socket has not taken
    submitted,     \* history: octets of Data passed to send() so far
    begun,         \* history: of them, those passed before the last send()
    socket,        \* external: octets the socket took and the peer has not read
    peerGot,       \* external: content the peer has read
    peerSeq,       \* external: records the peer has read
    peerOk         \* external: the peer has refused none

clientVars == <<state, result, padding, seq, calling, todo, record, submitted, begun>>
peerVars   == <<peerGot, peerSeq, peerOk>>
vars       == <<clientVars, socket, peerVars>>

Least(a, b)  == IF a < b THEN a ELSE b
Drop(s, n)   == SubSeq(s, n + 1, Len(s))
Take(s, n)   == SubSeq(s, 1, n)

-----------------------------------------------------------------------------
(* send() *)

ClampedPadding == Least(padding, MaxPadding)

\* max_content: what is left of a fragment of 16640.
\* Mutant: the padding is not subtracted.
ChunkLimit_NoPadding == MaxFragment - TagSize - 1
ChunkLimit == MaxFragment - TagSize - 1 - ClampedPadding

Chunk == Take(todo, Least(Len(todo), ChunkLimit))

\* Mutant: fail() is forgotten and the connection goes on.
Fail_StaysConnected(e) == result' = e /\ calling' = FALSE /\ todo' = <<>> /\ record' = <<>>
                          /\ UNCHANGED state
Fail(e) == /\ state' = "FAILED" /\ result' = e /\ calling' = FALSE
           /\ todo' = <<>> /\ record' = <<>>

SendRefused ==
    /\ ~calling /\ state # "CONNECTED"
    /\ result' = "CLOSED"
    /\ UNCHANGED <<state, padding, seq, calling, todo, record, submitted, begun, socket, peerVars>>

Send(n) ==
    /\ ~calling /\ state = "CONNECTED"
    /\ calling' = TRUE
    /\ todo' = SubSeq(Data, submitted + 1, submitted + n)
    /\ submitted' = submitted + n /\ begun' = submitted
    /\ UNCHANGED <<state, result, padding, seq, record, socket, peerVars>>

AtChunk == calling /\ record = <<>> /\ todo # <<>>

\* Mutant: the offset advances by the padding, too.
ProtectChunk_SkipsPadding ==
    /\ AtChunk /\ ProtectError(Len(Chunk), ClampedPadding) = "OK"
    /\ record' = Protected(ApplicationData, Chunk, ClampedPadding, seq)
    /\ seq' = seq + 1
    /\ todo' = Drop(todo, Len(Chunk) + ClampedPadding)
    /\ UNCHANGED <<state, result, padding, calling, submitted, begun, socket, peerVars>>
ProtectChunk ==
    /\ AtChunk /\ ProtectError(Len(Chunk), ClampedPadding) = "OK"
    /\ record' = Protected(ApplicationData, Chunk, ClampedPadding, seq)
    /\ seq' = seq + 1
    /\ todo' = Drop(todo, Len(Chunk))
    /\ UNCHANGED <<state, result, padding, calling, submitted, begun, socket, peerVars>>

ChunkRefused ==
    /\ AtChunk /\ ProtectError(Len(Chunk), ClampedPadding) # "OK"
    /\ Fail(ProtectError(Len(Chunk), ClampedPadding))
    /\ UNCHANGED <<padding, seq, submitted, begun, socket, peerVars>>

\* malloc() of the inner plaintext fails.
NoMemory ==
    /\ AtChunk /\ ProtectError(Len(Chunk), ClampedPadding) = "OK"
    /\ Fail("CRYPTO")
    /\ UNCHANGED <<padding, seq, submitted, begun, socket, peerVars>>

\* One ::send() of send_all(), which takes n octets.
SocketTakes(n) ==
    /\ record # <<>>
    /\ socket' = socket \o Take(record, n)
    /\ record' = Drop(record, n)
    /\ UNCHANGED <<state, result, padding, seq, calling, todo, submitted, begun, peerVars>>

SocketFails ==
    /\ record # <<>>
    /\ Fail("IO")
    /\ UNCHANGED <<padding, seq, submitted, begun, socket, peerVars>>

SendDone ==
    /\ calling /\ record = <<>> /\ todo = <<>>
    /\ calling' = FALSE /\ result' = "OK"
    /\ UNCHANGED <<state, padding, seq, todo, record, submitted, begun, socket, peerVars>>

-----------------------------------------------------------------------------
(* The peer *)

PeerAccepts(r) ==
    /\ r[1] = ApplicationData /\ LengthOf(r) <= MaxFragment
    /\ UnprotectError(r, peerSeq) = "OK"
    /\ Len(ContentOf(PlainOf(r))) <= MaxContent

PeerReads ==
    /\ peerOk
    /\ Len(socket) >= HeaderSize /\ Len(socket) >= HeaderSize + LengthOf(socket)
    /\ LET r == Take(socket, HeaderSize + LengthOf(socket)) IN
         /\ socket' = Drop(socket, Len(r))
         /\ IF PeerAccepts(r)
              THEN /\ peerGot' = peerGot \o ContentOf(PlainOf(r))
                   /\ peerSeq' = peerSeq + 1 /\ UNCHANGED peerOk
              ELSE peerOk' = FALSE /\ UNCHANGED <<peerGot, peerSeq>>
    /\ UNCHANGED clientVars

-----------------------------------------------------------------------------
(* The specification *)

Init ==
    /\ state = "CONNECTED" /\ result = "OK" /\ padding \in Paddings
    /\ seq = 0 /\ calling = FALSE /\ todo = <<>> /\ record = <<>>
    /\ submitted = 0 /\ begun = 0
    /\ socket = <<>>
    /\ peerGot = <<>> /\ peerSeq = 0 /\ peerOk = TRUE

\* The steps of a send() that a socket which takes octets lets it make.
Works == ProtectChunk \/ ChunkRefused \/ SendDone \/ \E n \in 1..Len(record) : SocketTakes(n)

Next ==
    \/ SendRefused
    \/ \E n \in 0..(Len(Data) - submitted) : Send(n)
    \/ Works
    \/ NoMemory
    \/ SocketFails
    \/ PeerReads

\* A running thread goes on, a socket that does not fail takes octets in the end, and the
\* peer reads; the application need not call.
Fairness == WF_vars(Works) /\ WF_vars(PeerReads)

Spec == Init /\ [][Next]_vars /\ Fairness

-----------------------------------------------------------------------------
(* Properties *)

TypeOK ==
    /\ state \in {"CONNECTED", "FAILED"} /\ calling \in BOOLEAN /\ peerOk \in BOOLEAN
    /\ result \in {"OK", "CLOSED", "BAD_RECORD", "CRYPTO", "IO"}
    /\ padding \in Paddings
    /\ seq \in Nat /\ peerSeq \in Nat /\ submitted \in 0..Len(Data) /\ begun \in 0..submitted
    /\ {todo, record, socket, peerGot} \subseteq Seq(Nat)

\* Whatever padding is configured and however the data is cut, send() writes no record
\* that a peer holding to the limits of TLS 1.3 refuses.
PeerRefusesNothing == peerOk

\* The peer reads the data of the calls in order, each octet once and unchanged, zeros
\* and octets that look like a content type included.
ReadInOrder == peerGot = Take(Data, Len(peerGot)) /\ Len(peerGot) <= submitted

\* The padding from which on every chunk is short enough for a record: 239.
Slack == MaxFragment - TagSize - 1 - MaxContent

\* Apart from a failing socket or memory, send() fails only for data longer than the
\* content of one record when less padding than Slack is configured: then a first chunk
\* of up to ChunkLimit octets is refused, the connection ends, and none of the call's
\* data was written.  All other data is sent, in as many records as it takes.
OnlyLongSendsFail ==
    [][state = "CONNECTED" /\ state' = "FAILED" /\ result' \notin {"IO", "CRYPTO"} =>
          /\ result' = "BAD_RECORD"
          /\ Len(todo) > MaxContent /\ ClampedPadding < Slack
          /\ todo = SubSeq(Data, begun + 1, submitted)]_vars

\* Data a send() returned XT_OK for arrives.
AcceptedArrives ==
    \A k \in 1..Len(Data) :
        (~calling /\ state = "CONNECTED" /\ submitted = k) ~> (Len(peerGot) >= k)

=============================================================================
