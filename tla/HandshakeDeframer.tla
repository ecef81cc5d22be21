-------------------------- MODULE HandshakeDeframer --------------------------
(***************************************************************************)
(* How handshake messages get from records to their handlers: class        *)
(* HandshakeDeframer of src/src/tls/handshake.cpp with the loop that feeds *)
(* it, the same in process_server_handshake() and process_post_handshake() *)
(* of src/src/tls/connection.cpp: append the record, then peek, handle and *)
(* consume until what is left is less than a message.                      *)
(*                                                                         *)
(* The peer's handshake messages are one stream of octets, cut into        *)
(* records wherever it likes.  An octet is its position in the stream, so  *)
(* that it can be told which octets a handler was shown.                   *)
(***************************************************************************)
EXTENDS Integers, Sequences

CONSTANTS
    Messages,     \* how many messages the peer sends
    Ends,         \* Ends[m]: where the m-th of them ends in the stream; Ends[0] = 0
    Certificates, \* which are Certificates
    Finished,     \* which is the server's Finished
    Header,       \* octets of a message header: 4
    Record,       \* most octets in a record
    Capacity,     \* sizeof handshake_storage_
    CertCapacity  \* sizeof certificate_storage_

Length(m) == Ends[m] - Ends[m - 1]
Octets    == 1..Ends[Messages]

ASSUME DeframerAssumption ==
    /\ Messages \in Nat \ {0} /\ Ends \in [0..Messages -> Nat] /\ Ends[0] = 0
    /\ Header \in Nat \ {0}
    /\ \A l, m \in 0..Messages : l < m => Ends[l] + Header <= Ends[m]
    /\ Certificates \subseteq 1..Messages /\ Finished \in 1..Messages
    /\ Record \in Nat /\ Capacity \in Nat /\ CertCapacity \in Nat

VARIABLES
    sent,     \* octets the peer has sent
    storage,  \* handshake_storage_ up to used_
    view,     \* the HandshakeMessage peek() returned: so many octets of the storage
    at,       \* where the loop is
    handled,  \* history: the octets of each message a handler was shown
    saved     \* certificate_storage_, into which cert_info points

vars == <<sent, storage, view, at, handled, saved>>

-----------------------------------------------------------------------------
(* The deframer *)

\* append() accepts n octets more.  Mutant: off by one.
Fits_Strict(n) == n < Capacity - Len(storage)
Fits(n) == n <= Capacity - Len(storage)

\* parse_handshake_message(): the length is read from the header at the start of the
\* storage; octets that are no header may spell any length.
Starting(o)   == {m \in 1..Messages : Ends[m - 1] + 1 = o}
HeaderLengths == IF Starting(storage[1]) # {} THEN {Length(m) : m \in Starting(storage[1])}
                                              ELSE Header..(Header + Capacity)

\* Mutant: a message that ends where the storage does is waited for.
Whole_Strict(n) == n < Len(storage)
Whole(n) == n <= Len(storage)

\* What peek() may find: a message of so many octets, or 0 for less than a message.
Found == IF Len(storage) < Header THEN {0}
                                  ELSE {IF Whole(n) THEN n ELSE 0 : n \in HeaderLengths}

\* consume() moves what is behind the message to the front.
\* Mutant: the header is not counted.
Consumed_Body(n) == SubSeq(storage, n - Header + 1, Len(storage))
Consumed(n) == SubSeq(storage, n + 1, Len(storage))

-----------------------------------------------------------------------------
(* The loop *)

\* A record of n octets arrives, none behind the Finished: there the peer's keys change.
ReadRecord(n) ==
    /\ at = "read"
    /\ sent + n <= Ends[IF sent < Ends[Finished] THEN Finished ELSE Messages]
    /\ sent' = sent + n
    /\ IF Fits(n) THEN storage' = storage \o [i \in 1..n |-> sent + i] /\ at' = "peek"
                  ELSE UNCHANGED storage /\ at' = "failed"
    /\ UNCHANGED <<view, handled, saved>>

ReadOn ==
    /\ at = "peek" /\ 0 \in Found
    /\ at' = "read"
    /\ UNCHANGED <<sent, storage, view, handled, saved>>

Peek ==
    /\ at = "peek" /\ view' \in Found \ {0}
    /\ at' = "handle"
    /\ UNCHANGED <<sent, storage, handled, saved>>

\* The handler reads the message where it is, through the view, but for a Certificate:
\* what points into that must outlive the move of the storage, and a copy is taken.
Shown         == SubSeq(storage, 1, view)
IsCertificate == Starting(storage[1]) \cap Certificates # {}

Handle ==
    /\ at = "handle"
    /\ IF IsCertificate /\ view > CertCapacity
         THEN at' = "failed" /\ UNCHANGED <<handled, saved>>
         ELSE /\ at' = "consume"
              /\ handled' = Append(handled, Shown)
              /\ saved' = IF IsCertificate THEN Shown ELSE saved
    /\ UNCHANGED <<sent, storage, view>>

\* After the Finished the handshake's loop ends, and what is left waits for the next record.
\* Mutant: the copy was not taken, and moves.
Consume_InPlace ==
    /\ at = "consume"
    /\ storage' = Consumed(view)
    /\ at' = IF Len(handled) = Finished THEN "read" ELSE "peek"
    /\ saved' = [i \in 1..Len(saved) |-> IF i <= Len(storage') THEN storage'[i] ELSE saved[i]]
    /\ UNCHANGED <<sent, view, handled>>
Consume ==
    /\ at = "consume"
    /\ storage' = Consumed(view)
    /\ at' = IF Len(handled) = Finished THEN "read" ELSE "peek"
    /\ UNCHANGED <<sent, view, handled, saved>>

Init ==
    /\ sent = 0 /\ storage = <<>> /\ view = 0 /\ at = "read"
    /\ handled = <<>> /\ saved = <<>>

Next == (\E n \in 0..Record : ReadRecord(n)) \/ ReadOn \/ Peek \/ Handle \/ Consume

\* The client goes on with what it has; the peer may stop sending.
Spec == Init /\ [][Next]_vars /\ WF_vars(ReadOn \/ Peek \/ Handle \/ Consume)

-----------------------------------------------------------------------------
(* Properties *)

TypeOK ==
    /\ sent \in 0..Ends[Messages] /\ view \in Nat
    /\ storage \in Seq(Octets) /\ Len(storage) <= Capacity
    /\ at \in {"read", "peek", "handle", "consume", "failed"}
    /\ handled \in Seq(Seq(Octets)) /\ saved \in Seq(Octets)

Message(m) == [i \in 1..Length(m) |-> Ends[m - 1] + i]

\* However the stream is cut into records, the handlers are shown the messages the peer
\* sent: each of them whole, once and in order.
MessagesInOrder ==
    /\ Len(handled) <= Messages
    /\ \A m \in 1..Len(handled) : handled[m] = Message(m)

\* Between records the storage holds just what the peer has sent since the end of the last
\* message handled: nothing is lost or read twice where append() and consume() meet.
NothingLost ==
    at = "read" => storage = [i \in 1..(sent - Ends[Len(handled)]) |-> Ends[Len(handled)] + i]

\* What cert_info points into is the last Certificate handled, as long as it is in use and
\* whatever has been moved through the storage since.
CertificateKept ==
    LET seen == Certificates \cap 1..Len(handled)
    IN  seen # {} => \E m \in seen : saved = Message(m) /\ \A l \in seen : l <= m

\* Room for what can be left of a message and one more record.
Enough ==
    /\ \A m \in 1..Messages : Length(m) - 1 + Record <= Capacity
    /\ \A m \in Certificates : Length(m) <= CertCapacity

\* With that room no cut of the stream makes append() refuse a record.
NoCutOverflows == Enough => at # "failed"

\* And every message that has been sent to its end is handled: the loop does not wait for
\* a record while a message it has buffered is complete.
SentIsHandled ==
    Enough => \A m \in 1..Messages : (sent >= Ends[m]) ~> (Len(handled) >= m)

=============================================================================
