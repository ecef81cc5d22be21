------------------------------ MODULE TlsClient ------------------------------
(***************************************************************************)
(* The TLS 1.3 client connection: class TlsClient of                       *)
(* src/src/tls/connection.cpp with the record protection, the key          *)
(* derivation, the transcript and the handshake deframer it drives.        *)
(*                                                                         *)
(* The class is single threaded and blocking.  A call that waits for the   *)
(* peer is a loop around read_record; "call" says in which one, and every  *)
(* iteration is one action, so that a peer (module TlsSession) can be      *)
(* interleaved with it.  In this module the peer is open: it may deliver   *)
(* any record of PeerRecords at any read, and the stream may fail.         *)
(*                                                                         *)
(* Hashes are their input: the transcript hash is the sequence of messages *)
(* hashed, a Finished or CertificateVerify carries the transcript it was   *)
(* computed over, and a traffic key is named by the transcript it was      *)
(* derived from, its generation and its record sequence number.            *)
(*                                                                         *)
(* No record here has more content than pending_app_ holds; one that has   *)
(* is the subject of RecordReceive.                                        *)
(***************************************************************************)
EXTENDS Naturals, Sequences, FiniteSets

CONSTANTS
    Groups,            \* named groups the client has a key exchange for
    Chains,            \* certificate chains a peer can present
    Trusted,           \* those the verifier accepts for the configured hostname
    DeframerCapacity,  \* handshake_storage_, in message fragments
    MaxConns,          \* bound: connections of one TlsClient object
    MaxTranscript,     \* bound: messages a peer gets hashed in one handshake
    MaxGen,            \* bound: key updates in each direction
    MaxRecords,        \* bound: records the peer protects under one key
    MaxUnits           \* bound: units of application data in each direction

ASSUME ClientAssumption ==
    /\ Trusted \subseteq Chains
    /\ {"none", "malformed", "too_long"} \cap Chains = {}
    /\ {"zero", "malformed", "unsupported", "bad_sid"} \cap Groups = {}
    /\ {DeframerCapacity, MaxConns, MaxTranscript, MaxGen, MaxRecords, MaxUnits} \subseteq Nat

VARIABLES
    state,       \* state_
    call,        \* the call in progress: the loop it is in and its locals
    result,      \* what the last call returned
    conn,        \* connections started: stands for the fresh ClientHello random
    share,       \* group of private_key_, "zero" when it is wiped
    transcript,  \* transcript_
    buf,         \* deframer_
    keys,        \* the four TrafficKeysAes128Gcm and their secrets in schedule_
    alpn,        \* negotiated_alpn_, "none" when it is empty
    lastAlert,   \* last_alert_description_
    pending,     \* pending_app_
    streamOpen,  \* the stream has not been closed by this object
    out,         \* records written to the stream of this connection
    authentic,   \* history: chain authenticate_server_flight() accepted
    got,         \* history: units recv() returned on this connection
    accepted     \* history: units send() wrote on this connection

ownVars       == <<state, share, keys, streamOpen>>
handshakeVars == <<transcript, buf, authentic>>
dataVars      == <<pending, got, accepted>>
noteVars      == <<conn, alpn, lastAlert>>
vars          == <<call, result, ownVars, noteVars, handshakeVars, dataVars, out>>

-----------------------------------------------------------------------------
(* Data *)

States  == {"IDLE", "HANDSHAKING", "CONNECTED", "CLOSED", "FAILED"}
Loops   == {"none", "hello", "flight", "recv", "post", "send"}
Errors  == {"OK", "INVALID_ARGUMENT", "BUFFER_TOO_SMALL", "BAD_RECORD", "BAD_HANDSHAKE",
            "UNSUPPORTED", "CRYPTO", "VERIFY", "IO", "CLOSED"}

\* A record cannot be protected or written; for a second ClientHello, besides, no
\* randomness, no usable private key, or a cookie that makes it too large; for the first,
\* a group that is not supported.
SendErrors    == {"IO", "CRYPTO"}
RetryErrors   == SendErrors \cup {"VERIFY", "BUFFER_TOO_SMALL"}
ConnectErrors == RetryErrors \cup {"UNSUPPORTED"}

Slots   == {"client_hs", "server_hs", "client_app", "server_app"}
Alerts  == {"none", "close_notify", "other", "malformed"}

HandshakeTypes ==
    {"client_hello", "server_hello", "hello_retry_request", "encrypted_extensions",
     "certificate", "certificate_verify", "finished", "new_session_ticket",
     "key_update", "other"}
Values == Groups \cup Chains \cup
    {"none", "malformed", "too_long", "unsupported", "bad_sid", "alpn", "client", "server"}

\* What the transcript keeps of a message, and a message on the wire: "over" is the
\* transcript a Finished or CertificateVerify was computed over.
Entry   == [type : HandshakeTypes, val : Values, n : Nat]
Message == [type : HandshakeTypes, val : Values, n : Nat, over : Seq(Entry)]
EntryOf(m) == [type |-> m.type, val |-> m.val, n |-> m.n]
Msg(type, val, n) == [type |-> type, val |-> val, n |-> n, over |-> <<>>]
Covering(type, val, th) == [type |-> type, val |-> val, n |-> 0, over |-> th]

\* A handshake message travels whole or cut in two.
Fragment  == [msg : Message, part : {"whole", "head", "tail"}]
Whole(m)  == [msg |-> m, part |-> "whole"]

Key  == [label : Slots \cup {"zero"}, th : Seq(Entry), gen : Nat, seq : Nat]
Zero == [label |-> "zero", th |-> <<>>, gen |-> 0, seq |-> 0]
Wiped == [s \in Slots |-> Zero]
Derive(slot, th) == [label |-> slot, th |-> th, gen |-> 0, seq |-> 0]
Used(key)        == [key EXCEPT !.seq = @ + 1]
\* Mutants: the secret is not rolled; the sequence number is not reset.
Updated_SameSecret(key)    == [key EXCEPT !.seq = 0]
Updated_KeepsSequence(key) == [key EXCEPT !.gen = @ + 1]
Updated(key)     == [key EXCEPT !.gen = @ + 1, !.seq = 0]

\* A record: key is Zero for a plaintext record, inner is the protected content type.
\* A change_cipher_spec record carries its validity in inner.
Record == [outer : {"change_cipher_spec", "alert", "handshake", "application_data"},
           key   : Key,
           inner : {"none", "invalid", "change_cipher_spec", "alert", "handshake",
                    "application_data"},
           hs    : Seq(Fragment), alert : Alerts, data : Seq(Nat)]
Blank  == [outer |-> "application_data", key |-> Zero, inner |-> "none",
           hs |-> <<>>, alert |-> "none", data |-> <<>>]
PlainHandshake(frags)      == [Blank EXCEPT !.outer = "handshake", !.hs = frags]
ProtectedHandshake(k, frs) == [Blank EXCEPT !.key = k, !.inner = "handshake", !.hs = frs]
ProtectedAlert(k, a)       == [Blank EXCEPT !.key = k, !.inner = "alert", !.alert = a]
ProtectedData(k, d)        == [Blank EXCEPT !.key = k, !.inner = "application_data", !.data = d]

ClientHello(g)    == Msg("client_hello", g, conn)
KeyUpdateMsg(req) == Msg("key_update", "none", IF req THEN 1 ELSE 0)

\* HandshakeDeframer: peek() finds a message when its last fragment is buffered.
Complete(b) == b # <<>> /\ (b[1].part = "whole" \/ Len(b) > 1)
First(b)    == b[1].msg
\* Mutant: consume() empties the buffer.
Rest_All(b) == <<>>
Rest(b)     == IF b[1].part = "whole" THEN Tail(b) ELSE Tail(Tail(b))
Fits(b, fs) == Len(b) + Len(fs) <= DeframerCapacity

Least(a, b) == IF a < b THEN a ELSE b

-----------------------------------------------------------------------------
(* fail(), and the ways out of a call *)

\* The locals of a call: loop is "none" between calls; hadHrr is connect()'s had_hrr,
\* cert is cert_info and have_cert of process_server_handshake(), want is recv()'s
\* out.size and todo the chunks send() has still to write.
Call == [loop : Loops, hadHrr : BOOLEAN, cert : Chains \cup {"none"}, want : Nat, todo : Nat]
NoCall == [loop |-> "none", hadHrr |-> FALSE, cert |-> "none", want |-> 0, todo |-> 0]
At(loop)   == call.loop = loop
GoTo(loop) == call' = [call EXCEPT !.loop = loop]

\* fail(): what connect() left in the transcript and the deframer stays, but nothing
\* reads it before connect() or reset() clears it.
Fail(e) ==
    /\ state' = "FAILED"
    /\ keys' = Wiped /\ share' = "zero"
    /\ streamOpen' = FALSE
    /\ call' = NoCall /\ result' = e
FailWith(errors) == \E e \in errors : Fail(e)

Return(e) == call' = NoCall /\ result' = e /\ UNCHANGED ownVars

\* Mutant: every alert is a failure.
AlertError_AllFatal(a) == IF a = "malformed" THEN "BAD_RECORD" ELSE "VERIFY"
AlertError(a) == CASE a = "close_notify" -> "CLOSED"
                   [] a = "other"        -> "VERIFY"
                   [] OTHER              -> "BAD_RECORD"

\* handle_alert(): a malformed alert is not remembered.
\* Mutant: the payload is read before its size is checked.
NoteAlert_Unchecked(a) == lastAlert' = a
NoteAlert(a) == lastAlert' = IF a \in {"close_notify", "other"} THEN a ELSE lastAlert

\* read_record() returned an error: end of stream, transport error or a bad header.
\* Mutant: the call returns the error and leaves the connection as it was.
ReadFails_StaysLive(e) ==
    /\ call.loop \in {"hello", "flight", "recv"}
    /\ call.loop \in {"hello", "flight"} => ~Complete(buf)
    /\ Return(e)
    /\ UNCHANGED <<noteVars, handshakeVars, dataVars, out>>
ReadFails(e) ==
    /\ call.loop \in {"hello", "flight", "recv"}
    /\ call.loop \in {"hello", "flight"} => ~Complete(buf)
    /\ Fail(e)
    /\ UNCHANGED <<noteVars, handshakeVars, dataVars, out>>

-----------------------------------------------------------------------------
(* connect(): ClientHello, HelloRetryRequest, ServerHello *)

BeginConnect ==
    /\ At("none") /\ state = "IDLE" /\ conn < MaxConns
    /\ conn' = conn + 1
    /\ authentic' = "none"
    /\ buf' = <<>> /\ alpn' = "none" /\ lastAlert' = "none"
    /\ pending' = <<>> /\ got' = <<>> /\ accepted' = 0

\* A call in another state, or with an incomplete configuration.
ConnectRefused ==
    /\ At("none")
    /\ Return("INVALID_ARGUMENT")
    /\ UNCHANGED <<noteVars, handshakeVars, dataVars, out>>

\* One of ConnectErrors before or while the first ClientHello leaves.
ConnectFails(e) ==
    /\ BeginConnect
    /\ Fail(e)
    /\ transcript' = <<>> /\ out' = <<>>

\* The ClientHello of this connection; n stands for its random.
\* Mutant: one random for every connection.
FirstHello_SameRandom(g) == Msg("client_hello", g, 1)
FirstHello(g) == Msg("client_hello", g, conn + 1)

Connect(g) ==
    /\ BeginConnect
    /\ LET hello == FirstHello(g) IN
         /\ transcript' = <<EntryOf(hello)>>
         /\ out' = <<PlainHandshake(<<Whole(hello)>>)>>
    /\ state' = "HANDSHAKING" /\ GoTo("hello") /\ share' = g /\ streamOpen' = TRUE
    /\ UNCHANGED <<result, keys>>

HelloRecord(r) ==
    /\ At("hello") /\ ~Complete(buf)
    /\ UNCHANGED <<conn, alpn, transcript, authentic, dataVars, out>>
    /\ \/ /\ r.outer = "change_cipher_spec" /\ r.inner # "invalid"
          /\ UNCHANGED <<call, result, ownVars, lastAlert, buf>>
       \/ /\ r.outer = "change_cipher_spec" /\ r.inner = "invalid"
          /\ Fail("BAD_RECORD") /\ UNCHANGED <<lastAlert, buf>>
       \/ /\ r.outer = "alert"
          /\ NoteAlert(r.alert) /\ Fail(AlertError(r.alert)) /\ UNCHANGED buf
       \/ /\ r.outer = "application_data"
          /\ Fail("BAD_HANDSHAKE") /\ UNCHANGED <<lastAlert, buf>>
       \/ /\ r.outer = "handshake" /\ Fits(buf, r.hs)
          /\ buf' = buf \o r.hs /\ UNCHANGED <<call, result, ownVars, lastAlert>>
       \/ /\ r.outer = "handshake" /\ ~Fits(buf, r.hs)
          /\ Fail("BUFFER_TOO_SMALL") /\ UNCHANGED <<lastAlert, buf>>

\* The errors of the hello loop and of the code after it that look at message m only.
HelloError(m) ==
    CASE m.type \notin {"server_hello", "hello_retry_request"} -> "BAD_HANDSHAKE"
      [] m.val = "unsupported"                     -> "UNSUPPORTED"
      [] m.val \notin Groups                       -> "BAD_HANDSHAKE"
      [] m.type = "hello_retry_request" /\ (call.hadHrr \/ m.val = share) -> "BAD_HANDSHAKE"
      [] Rest(buf) # <<>>                          -> "BAD_HANDSHAKE"
      [] m.type = "server_hello" /\ m.val # share  -> "BAD_HANDSHAKE"
      [] m.type = "server_hello" /\ m.n # 0        -> "VERIFY"  \* no shared secret
      [] OTHER                                     -> "OK"

AtHello == At("hello") /\ Complete(buf)

HelloRejected ==
    /\ AtHello
    /\ HelloError(First(buf)) # "OK"
    /\ Fail(HelloError(First(buf)))
    /\ UNCHANGED <<noteVars, handshakeVars, dataVars, out>>

HelloRetry(ok) ==
    LET m == First(buf)
        hello == ClientHello(m.val)
    IN  /\ AtHello
        /\ HelloError(m) = "OK" /\ m.type = "hello_retry_request"
        /\ buf' = <<>>
        /\ IF ok
             THEN /\ call' = [call EXCEPT !.hadHrr = TRUE]
                  /\ share' = m.val
                  /\ transcript' = transcript \o <<EntryOf(m), EntryOf(hello)>>
                  /\ out' = Append(out, PlainHandshake(<<Whole(hello)>>))
                  /\ UNCHANGED <<state, result, keys, streamOpen>>
             ELSE FailWith(RetryErrors) /\ UNCHANGED <<transcript, out>>
        /\ UNCHANGED <<noteVars, authentic, dataVars>>

ServerHello ==
    LET m == First(buf)
        th == Append(transcript, EntryOf(m))
    IN  /\ AtHello
        /\ HelloError(m) = "OK" /\ m.type = "server_hello"
        /\ transcript' = th
        /\ buf' = <<>>
        /\ keys' = [keys EXCEPT !["client_hs"] = Derive("client_hs", th),
                                !["server_hs"] = Derive("server_hs", th)]
        /\ GoTo("flight")
        /\ UNCHANGED <<state, result, share, streamOpen, noteVars, authentic, dataVars, out>>

-----------------------------------------------------------------------------
(* process_server_handshake() and handle_handshake_message() *)

\* unprotect_record_aes128_gcm(): only a record under the expected key, generation and
\* sequence number verifies, and it must hold an inner content type.
Opens(slot, r)    == r.key = keys[slot] /\ r.inner \notin {"none", "invalid"}
OpenError(slot, r) == IF r.key = keys[slot] THEN "BAD_RECORD" ELSE "VERIFY"
Opened(slot)      == [keys EXCEPT ![slot] = Used(@)]

FlightRecord(r) ==
    /\ At("flight") /\ ~Complete(buf)
    /\ UNCHANGED <<conn, alpn, transcript, authentic, dataVars, out>>
    /\ \/ /\ r.outer = "change_cipher_spec"
          /\ UNCHANGED <<call, result, ownVars, lastAlert, buf>>
       \/ /\ r.outer = "alert"
          /\ NoteAlert(r.alert) /\ Fail(AlertError(r.alert)) /\ UNCHANGED buf
       \/ /\ r.outer = "handshake"
          /\ Fail("BAD_RECORD") /\ UNCHANGED <<lastAlert, buf>>
       \/ /\ r.outer = "application_data" /\ ~Opens("server_hs", r)
          /\ Fail(OpenError("server_hs", r)) /\ UNCHANGED <<lastAlert, buf>>
       \/ /\ r.outer = "application_data" /\ Opens("server_hs", r) /\ r.inner = "alert"
          /\ NoteAlert(r.alert) /\ Fail(AlertError(r.alert)) /\ UNCHANGED buf
       \/ /\ r.outer = "application_data" /\ Opens("server_hs", r)
          /\ r.inner \in {"application_data", "change_cipher_spec"}
          /\ Fail("BAD_HANDSHAKE") /\ UNCHANGED <<lastAlert, buf>>
       \/ /\ r.outer = "application_data" /\ Opens("server_hs", r)
          /\ r.inner = "handshake" /\ ~Fits(buf, r.hs)
          /\ Fail("BUFFER_TOO_SMALL") /\ UNCHANGED <<lastAlert, buf>>
       \/ /\ r.outer = "application_data" /\ Opens("server_hs", r)
          /\ r.inner = "handshake" /\ Fits(buf, r.hs)
          /\ keys' = Opened("server_hs") /\ buf' = buf \o r.hs
          /\ UNCHANGED <<call, result, state, share, streamOpen, lastAlert>>

AtFlight(type) == At("flight") /\ Complete(buf) /\ First(buf).type = type
Hashed(m) == transcript' = Append(transcript, EntryOf(m))

\* The message is accepted and hashed, and the loop goes on.
FlightGoesOn == /\ Hashed(First(buf)) /\ buf' = Rest(buf)
                /\ UNCHANGED <<result, ownVars, conn, lastAlert, dataVars, out>>

\* authenticate_server_flight(): the chain is trusted for the hostname and the
\* signature by its leaf covers the transcript so far.
Authenticates(m) == call.cert \in Trusted /\ m.val = call.cert /\ m.over = transcript

\* verify_finished_sha256()
Verifies(m) == m.val = "server" /\ m.over = transcript

\* parse_encrypted_extensions(), parse_certificate(), parse_certificate_verify(); a
\* Certificate "too_long" does not fit certificate_storage_.
WellFormed(m) == m.val # "malformed" /\ (m.type = "certificate" => m.val \in Chains)

FlightError(m) ==
    CASE m.type \notin {"encrypted_extensions", "certificate", "certificate_verify", "finished"}
                                                        -> "UNSUPPORTED"
      [] m.type = "certificate" /\ m.val = "too_long"   -> "BUFFER_TOO_SMALL"
      [] ~WellFormed(m)                                 -> "BAD_HANDSHAKE"
      [] m.type = "certificate_verify" /\ call.cert = "none" -> "BAD_HANDSHAKE"
      [] m.type = "certificate_verify" /\ ~Authenticates(m) -> "VERIFY"
      [] m.type = "finished" /\ ~Verifies(m)            -> "VERIFY"
      [] OTHER                                          -> "OK"

FlightRejected ==
    /\ At("flight") /\ Complete(buf)
    /\ FlightError(First(buf)) # "OK"
    /\ Fail(FlightError(First(buf)))
    /\ UNCHANGED <<noteVars, handshakeVars, dataVars, out>>

\* Mutant: the protocol the server chose is not kept.
EncryptedExtensions_NotKept ==
    /\ AtFlight("encrypted_extensions") /\ FlightError(First(buf)) = "OK"
    /\ FlightGoesOn /\ UNCHANGED <<alpn, call, authentic>>
EncryptedExtensions ==
    /\ AtFlight("encrypted_extensions") /\ FlightError(First(buf)) = "OK"
    /\ alpn' = IF First(buf).val = "alpn" THEN "alpn" ELSE alpn
    /\ FlightGoesOn /\ UNCHANGED <<call, authentic>>

\* Mutant: a repeated Certificate does not replace the first.
Certificate_KeepsFirst ==
    /\ AtFlight("certificate") /\ FlightError(First(buf)) = "OK"
    /\ call' = [call EXCEPT !.cert = IF @ = "none" THEN First(buf).val ELSE @]
    /\ FlightGoesOn /\ UNCHANGED <<alpn, authentic>>
Certificate ==
    /\ AtFlight("certificate") /\ FlightError(First(buf)) = "OK"
    /\ call' = [call EXCEPT !.cert = First(buf).val]
    /\ FlightGoesOn /\ UNCHANGED <<alpn, authentic>>

CertificateVerify ==
    /\ AtFlight("certificate_verify") /\ FlightError(First(buf)) = "OK"
    /\ authentic' = call.cert
    /\ FlightGoesOn /\ UNCHANGED <<call, alpn>>

\* The server Finished ends the flight whatever is still buffered behind it; the client
\* Finished leaves under the handshake keys because state_ is still HANDSHAKING.
ClientFinished(th) == Covering("finished", "client", th)

\* The transcript the application secrets and the client Finished are computed over.
\* Mutant: the snapshot is taken before the server Finished is hashed.
ThroughServerFinished_Early(m) == transcript
ThroughServerFinished(m) == Append(transcript, EntryOf(m))

Finished(ok) ==
    LET m  == First(buf)
        th == ThroughServerFinished(m)
        fin == ClientFinished(th)
    IN  /\ AtFlight("finished") /\ FlightError(m) = "OK"
        /\ buf' = Rest(buf)
        /\ IF ok
             THEN /\ transcript' = Append(th, EntryOf(fin))
                  /\ keys' = [keys EXCEPT !["client_app"] = Derive("client_app", th),
                                          !["server_app"] = Derive("server_app", th),
                                          !["client_hs"] = Used(@)]
                  /\ out' = Append(out, ProtectedHandshake(keys["client_hs"], <<Whole(fin)>>))
                  /\ state' = "CONNECTED" /\ call' = NoCall /\ result' = "OK"
                  /\ UNCHANGED <<share, streamOpen>>
             ELSE FailWith(SendErrors) /\ UNCHANGED <<transcript, out>>
        /\ UNCHANGED <<noteVars, authentic, dataVars>>

-----------------------------------------------------------------------------
(* recv() and process_post_handshake() *)

NotConnected ==
    /\ At("none") /\ state # "CONNECTED"
    /\ Return("CLOSED")
    /\ UNCHANGED <<noteVars, handshakeVars, dataVars, out>>

RecvRefused == NotConnected

\* Hands n units of plain to the caller and keeps the others in pending_app_.
Deliver(plain, n) ==
    /\ got' = got \o SubSeq(plain, 1, n)
    /\ pending' = SubSeq(plain, n + 1, Len(plain))

RecvPending(n) ==
    /\ At("none") /\ state = "CONNECTED" /\ pending # <<>>
    /\ Deliver(pending, Least(n, Len(pending)))
    /\ Return("OK")
    /\ UNCHANGED <<noteVars, handshakeVars, accepted, out>>

\* Mutant: the next record is read before pending_app_ is served.
RecvStart_SkipsPending(n) ==
    /\ At("none") /\ state = "CONNECTED"
    /\ call' = [call EXCEPT !.loop = "recv", !.want = n]
    /\ UNCHANGED <<result, ownVars, noteVars, handshakeVars, dataVars, out>>
RecvStart(n) ==
    /\ At("none") /\ state = "CONNECTED" /\ pending = <<>>
    /\ call' = [call EXCEPT !.loop = "recv", !.want = n]
    /\ UNCHANGED <<result, ownVars, noteVars, handshakeVars, dataVars, out>>

\* The ways recv() ends a connection on a close_notify.
\* Mutant: wipe_secrets() is forgotten.
RemoteClose_KeepsKeys ==
    /\ state' = "CLOSED" /\ streamOpen' = FALSE
    /\ call' = NoCall /\ result' = "CLOSED"
    /\ UNCHANGED <<keys, share>>
RemoteClose ==
    /\ state' = "CLOSED" /\ streamOpen' = FALSE
    /\ keys' = Wiped /\ share' = "zero"
    /\ call' = NoCall /\ result' = "CLOSED"

RecvRecord(r) ==
    /\ At("recv")
    /\ UNCHANGED <<conn, alpn, transcript, authentic, accepted, out>>
    /\ \/ /\ r.outer = "change_cipher_spec"
          /\ UNCHANGED <<call, result, ownVars, lastAlert, buf, pending, got>>
       \/ /\ r.outer \in {"alert", "handshake"}
          /\ Fail("BAD_RECORD") /\ UNCHANGED <<lastAlert, buf, pending, got>>
       \/ /\ r.outer = "application_data" /\ Opens("server_app", r)
          /\ r.inner = "change_cipher_spec"
          /\ Fail("BAD_RECORD") /\ UNCHANGED <<lastAlert, buf, pending, got>>
       \/ /\ r.outer = "application_data" /\ ~Opens("server_app", r)
          /\ Fail(OpenError("server_app", r)) /\ UNCHANGED <<lastAlert, buf, pending, got>>
       \/ /\ r.outer = "application_data" /\ Opens("server_app", r)
          /\ r.inner = "application_data"
          /\ Deliver(r.data, Least(call.want, Len(r.data)))
          /\ keys' = Opened("server_app")
          /\ call' = NoCall /\ result' = "OK"
          /\ UNCHANGED <<state, share, streamOpen, lastAlert, buf>>
       \/ /\ r.outer = "application_data" /\ Opens("server_app", r) /\ r.inner = "alert"
          /\ NoteAlert(r.alert)
          /\ IF AlertError(r.alert) = "CLOSED" THEN RemoteClose ELSE Fail(AlertError(r.alert))
          /\ UNCHANGED <<buf, pending, got>>
       \/ /\ r.outer = "application_data" /\ Opens("server_app", r)
          /\ r.inner = "handshake" /\ ~Fits(buf, r.hs)
          /\ Fail("BUFFER_TOO_SMALL") /\ UNCHANGED <<lastAlert, buf, pending, got>>
       \/ /\ r.outer = "application_data" /\ Opens("server_app", r)
          /\ r.inner = "handshake" /\ Fits(buf, r.hs)
          /\ keys' = Opened("server_app") /\ buf' = buf \o r.hs /\ GoTo("post")
          /\ UNCHANGED <<state, result, share, streamOpen, lastAlert, pending, got>>

\* Every message buffered is handled before the next record is read.
PostDone ==
    /\ At("post") /\ ~Complete(buf)
    /\ GoTo("recv")
    /\ UNCHANGED <<result, ownVars, noteVars, handshakeVars, dataVars, out>>

AtPost == At("post") /\ Complete(buf)
PostGoesOn == /\ buf' = Rest(buf)
              /\ UNCHANGED <<call, result, state, share, streamOpen, noteVars, transcript,
                             authentic, dataVars>>

NewSessionTicket ==
    /\ AtPost /\ First(buf).type = "new_session_ticket"
    /\ PostGoesOn /\ UNCHANGED <<keys, out>>

PostRejected ==
    /\ AtPost
    /\ First(buf).type # "new_session_ticket"
    /\ \/ First(buf).type # "key_update" /\ Fail("UNSUPPORTED")
       \/ /\ First(buf).type = "key_update" /\ (First(buf).val = "malformed" \/ First(buf).n > 1)
          /\ Fail("BAD_HANDSHAKE")
    /\ UNCHANGED <<noteVars, handshakeVars, dataVars, out>>

AtKeyUpdate(n) == /\ AtPost /\ First(buf).type = "key_update"
                  /\ First(buf).val # "malformed" /\ First(buf).n = n

PeerKeyUpdate ==
    /\ AtKeyUpdate(0)
    /\ keys' = [keys EXCEPT !["server_app"] = Updated(@)]
    /\ PostGoesOn /\ UNCHANGED out

\* Mutant: the write key is rolled before the reply is sent.
PeerKeyUpdateRequested_RolledFirst ==
    /\ AtKeyUpdate(1)
    /\ keys' = [keys EXCEPT !["server_app"] = Updated(@), !["client_app"] = Updated(@)]
    /\ out' = Append(out, ProtectedHandshake(keys'["client_app"], <<Whole(KeyUpdateMsg(FALSE))>>))
    /\ PostGoesOn
PeerKeyUpdateRequested ==
    /\ AtKeyUpdate(1)
    /\ keys' = [keys EXCEPT !["server_app"] = Updated(@), !["client_app"] = Updated(@)]
    /\ out' = Append(out, ProtectedHandshake(keys["client_app"], <<Whole(KeyUpdateMsg(FALSE))>>))
    /\ PostGoesOn

\* The reply could not be sent.
PeerKeyUpdateFails ==
    /\ AtKeyUpdate(1)
    /\ FailWith(SendErrors)
    /\ UNCHANGED <<noteVars, handshakeVars, dataVars, out>>

-----------------------------------------------------------------------------
(* send(), key_update(), close(), reset() *)

SendRefused == NotConnected

Send(n) ==
    /\ At("none") /\ state = "CONNECTED" /\ accepted + n <= MaxUnits
    /\ call' = [call EXCEPT !.loop = "send", !.todo = n]
    /\ UNCHANGED <<result, ownVars, noteVars, handshakeVars, dataVars, out>>

SendChunk(ok) ==
    /\ At("send") /\ call.todo > 0
    /\ IF ok
         THEN /\ out' = Append(out, ProtectedData(keys["client_app"], <<accepted + 1>>))
              /\ keys' = [keys EXCEPT !["client_app"] = Used(@)]
              /\ accepted' = accepted + 1 /\ call' = [call EXCEPT !.todo = @ - 1]
              /\ UNCHANGED <<result, state, share, streamOpen>>
         ELSE FailWith(SendErrors) /\ UNCHANGED <<out, accepted>>
    /\ UNCHANGED <<noteVars, handshakeVars, pending, got>>

SendDone == /\ At("send") /\ call.todo = 0
            /\ Return("OK")
            /\ UNCHANGED <<noteVars, handshakeVars, dataVars, out>>

KeyUpdateRefused == NotConnected

KeyUpdate(request, ok) ==
    /\ At("none") /\ state = "CONNECTED" /\ keys["client_app"].gen < MaxGen
    /\ IF ok
         THEN /\ out' = Append(out, ProtectedHandshake(keys["client_app"],
                                                      <<Whole(KeyUpdateMsg(request))>>))
              /\ keys' = [keys EXCEPT !["client_app"] = Updated(@)]
              /\ result' = "OK" /\ UNCHANGED <<call, state, share, streamOpen>>
         ELSE FailWith(SendErrors) /\ UNCHANGED out
    /\ UNCHANGED <<noteVars, handshakeVars, dataVars>>

\* close(): the close_notify of a connected client is best effort.
\* Mutant: the state is not changed, so the object goes on sending.
Close_StaysConnected(ok) ==
    /\ At("none")
    /\ result' = "OK"
    /\ out' = IF state = "CONNECTED" /\ ok
                THEN Append(out, ProtectedAlert(keys["client_app"], "close_notify"))
                ELSE out
    /\ keys' = IF state = "CONNECTED" /\ ok THEN [keys EXCEPT !["client_app"] = Used(@)] ELSE keys
    /\ UNCHANGED <<state, share, streamOpen, call, noteVars, handshakeVars, dataVars>>
Close(ok) ==
    /\ At("none")
    /\ result' = "OK"
    /\ IF state = "CLOSED" THEN UNCHANGED ownVars
       ELSE /\ state' = "CLOSED" /\ keys' = Wiped /\ share' = "zero" /\ streamOpen' = FALSE
    /\ out' = IF state = "CONNECTED" /\ ok
                THEN Append(out, ProtectedAlert(keys["client_app"], "close_notify"))
                ELSE out
    /\ UNCHANGED <<call, noteVars, handshakeVars, dataVars>>

\* reset(): refused while HANDSHAKING, which no caller of a blocking connect() observes
\* (invariant CallsNest).
Reset ==
    /\ At("none") /\ state # "HANDSHAKING"
    /\ state' = "IDLE" /\ keys' = Wiped /\ share' = "zero" /\ streamOpen' = FALSE
    /\ transcript' = <<>> /\ buf' = <<>> /\ alpn' = "none" /\ pending' = <<>> /\ lastAlert' = "none"
    /\ result' = "OK"
    /\ UNCHANGED <<call, conn, authentic, got, accepted, out>>

-----------------------------------------------------------------------------
(* An open peer *)

Hellos       == {Msg(t, g, n) : t \in {"server_hello", "hello_retry_request"}, g \in Groups,
                                n \in 0..1}
BrokenHellos == {Msg("server_hello", v, 0) : v \in {"unsupported", "malformed", "bad_sid"}}
HelloMessages == Hellos \cup BrokenHellos \cup {Msg("encrypted_extensions", "none", 0)}

\* A Finished or CertificateVerify covers the client's transcript or another one.
Overs        == {transcript, <<>>}
Finisheds    == {Covering("finished", v, th) : v \in {"server", "malformed"}, th \in Overs}
Extensions   == {Msg("encrypted_extensions", v, 0) : v \in {"none", "alpn", "malformed"}}
Certificates == {Msg("certificate", c, 0) : c \in Chains \cup {"malformed", "too_long"}}
CertificateVerifies    == {Covering("certificate_verify", c, th) : c \in Chains \cup {"malformed"},
                                                          th \in Overs}
FlightMessages ==
    Finisheds \cup {Msg("key_update", "none", 0)}
    \cup IF Len(transcript) >= MaxTranscript THEN {}
         ELSE Extensions \cup Certificates \cup CertificateVerifies

PostMessages ==
    {Msg("new_session_ticket", "none", 0), Msg("other", "none", 0), Msg("key_update", "malformed", 0)}
    \cup IF keys["server_app"].gen >= MaxGen \/ keys["client_app"].gen >= MaxGen THEN {}
         ELSE {KeyUpdateMsg(req) : req \in BOOLEAN}

PeerMessages == CASE At("hello")  -> HelloMessages
                  [] At("flight") -> FlightMessages
                  [] OTHER         -> PostMessages

\* The fragments one record may carry: a message begun in an earlier record goes on, and
\* a trailer may be appended in the same record.
Cut(m, part) == [msg |-> m, part |-> part]
Trailers == {Whole(Msg("new_session_ticket", "none", 0))}
            \cup IF keys["server_app"].gen >= MaxGen THEN {} ELSE {Cut(KeyUpdateMsg(FALSE), "head")}
NextFragments ==
    IF buf # <<>> /\ buf[Len(buf)].part = "head"
      THEN {Cut(buf[Len(buf)].msg, "tail")}
      ELSE {Cut(m, p) : m \in PeerMessages, p \in {"whole", "head"}}
Enders == {f \in NextFragments : f.part # "head"}
Pairs  == {<<f, g>> : f \in Enders, g \in Trailers}
PeerFragments == {<<>>} \cup {<<f>> : f \in NextFragments} \cup Pairs

ReadKey == keys[IF At("flight") THEN "server_hs" ELSE "server_app"]

PeerData == {d \in {<<>>, <<1>>, <<1, 2>>} : Len(got) + Len(pending) + Len(d) <= MaxUnits}

PeerRecords ==
    {[Blank EXCEPT !.outer = "change_cipher_spec", !.inner = i] : i \in {"none", "invalid"}}
    \cup {[Blank EXCEPT !.outer = "alert", !.alert = a] : a \in Alerts \ {"none"}}
    \cup {PlainHandshake(fs) : fs \in PeerFragments}
    \cup {Blank}
    \cup {[Blank EXCEPT !.key = ReadKey, !.inner = i] : i \in {"invalid", "change_cipher_spec"}}
    \cup IF ReadKey.seq >= MaxRecords THEN {}
         ELSE {ProtectedAlert(ReadKey, a) : a \in Alerts \ {"none"}}
              \cup {ProtectedHandshake(ReadKey, fs) : fs \in PeerFragments}
              \cup {ProtectedData(ReadKey, d) : d \in PeerData}

-----------------------------------------------------------------------------
(* The specification *)

Init ==
    /\ state = "IDLE" /\ result = "OK" /\ conn = 0
    /\ call = NoCall /\ share = "zero" /\ transcript = <<>> /\ buf = <<>>
    /\ keys = Wiped /\ alpn = "none" /\ lastAlert = "none"
    /\ pending = <<>>
    /\ streamOpen = FALSE /\ out = <<>>
    /\ authentic = "none" /\ got = <<>> /\ accepted = 0

\* The calls of the application.
AppCall ==
    \/ ConnectRefused
    \/ \E e \in ConnectErrors : ConnectFails(e)
    \/ \E g \in Groups : Connect(g)
    \/ RecvRefused
    \/ \E n \in 0..2 : RecvPending(n)
    \/ \E n \in 0..2 : RecvStart(n)
    \/ SendRefused
    \/ \E n \in 0..2 : Send(n)
    \/ KeyUpdateRefused
    \/ \E request, ok \in BOOLEAN : KeyUpdate(request, ok)
    \/ \E ok \in BOOLEAN : Close(ok)
    \/ Reset

\* The steps of a call between two reads.
LocalStep ==
    \/ HelloRejected
    \/ \E ok \in BOOLEAN : HelloRetry(ok)
    \/ ServerHello
    \/ FlightRejected
    \/ EncryptedExtensions
    \/ Certificate
    \/ CertificateVerify
    \/ \E ok \in BOOLEAN : Finished(ok)
    \/ PostDone
    \/ NewSessionTicket
    \/ PostRejected
    \/ PeerKeyUpdate
    \/ PeerKeyUpdateRequested
    \/ PeerKeyUpdateFails
    \/ \E ok \in BOOLEAN : SendChunk(ok)
    \/ SendDone

Receive(r) == HelloRecord(r) \/ FlightRecord(r) \/ RecvRecord(r)

Next ==
    \/ AppCall
    \/ LocalStep
    \/ \E r \in PeerRecords : Receive(r)
    \/ \E e \in {"CLOSED", "IO", "BAD_RECORD"} : ReadFails(e)

Spec == Init /\ [][Next]_vars

-----------------------------------------------------------------------------
(* Properties *)

TypeOK ==
    /\ state \in States /\ call \in Call /\ result \in Errors /\ conn \in Nat
    /\ share \in Groups \cup {"zero"}
    /\ authentic \in Chains \cup {"none"}
    /\ transcript \in Seq(Entry) /\ buf \in Seq(Fragment)
    /\ keys \in [Slots -> Key]
    /\ alpn \in {"none", "alpn"} /\ lastAlert \in {"none", "close_notify", "other"}
    /\ pending \in Seq(Nat) /\ got \in Seq(Nat)
    /\ accepted \in Nat
    /\ streamOpen \in BOOLEAN
    /\ out \in Seq(Record)

Live == state \in {"HANDSHAKING", "CONNECTED"}

\* Whatever ends a connection (fail(), a received close_notify, close(), reset()) leaves
\* no key of it behind and no open stream.
SecretsWiped == ~Live => keys = Wiped /\ share = "zero" /\ ~streamOpen

\* A blocking call is in progress exactly in the state that call runs in: the caller of
\* connect() never sees HANDSHAKING, and recv() and send() loop only while CONNECTED.
CallsNest == /\ state = "HANDSHAKING" <=> call.loop \in {"hello", "flight"}
             /\ call.loop \in {"recv", "post", "send"} => state = "CONNECTED"

IsProtected(r) == r.inner # "none"

\* No two records of a connection are protected with the same key and sequence number,
\* that is with the same AES-GCM nonce: across the switch from the handshake to the
\* application keys that send_protected() makes on state_, and across key updates.
NonceUnique ==
    \A i, j \in 1..Len(out) :
        i # j /\ IsProtected(out[i]) /\ IsProtected(out[j]) => out[i].key # out[j].key

\* The stream is one a peer can decrypt that reads it in order: the client Finished under
\* the handshake key, then application records whose generation is the number of
\* KeyUpdate messages sent before and whose sequence number counts from the last of them.
PeerCanDecrypt ==
    \A i \in 1..Len(out) : IsProtected(out[i]) =>
        LET k      == out[i].key
            before == {j \in 1..(i - 1) : out[j].key.label = k.label}
            isKeyUpdate(j) == out[j].inner = "handshake" /\ out[j].hs[1].msg.type = "key_update"
        IN  /\ k.label = IF out[i].inner = "handshake" /\ out[i].hs[1].msg.type = "finished"
                           THEN "client_hs" ELSE "client_app"
            /\ k.gen = Cardinality({j \in before : isKeyUpdate(j)})
            /\ k.seq = Cardinality({j \in before : out[j].key.gen = k.gen})

\* A connection starts from its own ClientHello, and no key of an earlier one is left in
\* any slot or protects any record of it, whatever ended the earlier one; nor is the
\* protocol an earlier server chose: the transcript holds the choice.
OfThisConnection(th) == th # <<>> /\ th[1].type = "client_hello" /\ th[1].n = conn
NegotiatedHere ==
    alpn # "none" => \E i \in 1..Len(transcript) :
                        transcript[i].type = "encrypted_extensions" /\ transcript[i].val = alpn
ConnectionIsFresh ==
    /\ NegotiatedHere
    /\ Live =>
          /\ OfThisConnection(transcript)
          /\ \A s \in Slots : keys[s] # Zero => OfThisConnection(keys[s].th)
          /\ \A i \in 1..Len(out) : IsProtected(out[i]) => OfThisConnection(out[i].key.th)
          /\ state = "HANDSHAKING" => pending = <<>> /\ lastAlert = "none"

\* close_notify, sent by close(), is the last record of its connection.
CloseNotifyIsLast == \A i \in 1..Len(out) : out[i].inner = "alert" => i = Len(out)

\* The application keys of both directions are derived from one transcript, the one that
\* ends with the server Finished; the handshake keys from the prefix that ends with
\* ServerHello; and the client Finished sent covers the former.
KeysBindTranscript ==
    state = "CONNECTED" =>
        LET n == Len(transcript)
            th == SubSeq(transcript, 1, n - 1)
            hs == keys["client_hs"].th
        IN  /\ transcript[n].type = "finished" /\ transcript[n].val = "client"
            /\ transcript[n - 1].type = "finished" /\ transcript[n - 1].val = "server"
            /\ keys["client_app"].th = th /\ keys["server_app"].th = th
            /\ keys["server_hs"].th = hs /\ hs = SubSeq(transcript, 1, Len(hs))
            /\ hs[Len(hs)].type = "server_hello" /\ hs[Len(hs)].val = share
            /\ \E i \in 1..Len(out) : out[i].hs = <<Whole(ClientFinished(th))>>

\* authenticate_server_flight() vouches for the last Certificate before the
\* CertificateVerify, even when the peer sends several of each.
SignatureCoversCertificate ==
    Live /\ authentic # "none" =>
        \E i, j \in 1..Len(transcript) :
            /\ i < j
            /\ transcript[i].type = "certificate" /\ transcript[i].val = authentic
            /\ transcript[j].type = "certificate_verify" /\ transcript[j].val = authentic
            /\ \A k \in (i + 1)..(j - 1) : transcript[k].type # "certificate"
            /\ authentic \in Trusted

\* A call that started on a live connection and returns an error has ended it: recv()
\* reports an orderly end (state CLOSED) only for a close_notify under the read keys, and
\* every other error leaves FAILED, so a truncated stream is told from a closed one.
ErrorsAreFatal ==
    [][Live /\ call.loop # "none" /\ call'.loop = "none" /\ result' # "OK" =>
          \/ state' = "FAILED"
          \/ /\ state' = "CLOSED" /\ call.loop = "recv"
             /\ result' = "CLOSED" /\ lastAlert' = "close_notify"]_vars

\* README.md: the handshake verifies the certificate and the hostname.  A connection is
\* CONNECTED only after authenticate_server_flight() accepted a certificate chain.
ConnectedIsAuthenticated == state = "CONNECTED" => authentic # "none"

-----------------------------------------------------------------------------
(* What the client promises *)

\* Between calls, that is with the handshake hidden, the client is a ClientLifecycle.
ClientCalls == INSTANCE ClientLifecycle WITH
    Failures   <- Errors \ {"OK", "INVALID_ARGUMENT"},
    state      <- IF state = "HANDSHAKING" THEN "IDLE" ELSE state,
    streamOpen <- streamOpen /\ state # "HANDSHAKING",
    secrets    <- (keys # Wiped \/ share # "zero") /\ state # "HANDSHAKING"

\* Every call, however many records it reads and messages it handles, appears to its
\* caller as one step that succeeds, is refused without effect, or ends the connection;
\* no call of any kind revives a CLOSED or FAILED object but reset().
ImplementsClientLifecycle == ClientCalls!Spec

=============================================================================
