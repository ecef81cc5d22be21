# A TLA+ model of XboxTLS13

XboxTLS13 is a TLS 1.3 client library in C++ for the Xbox 360. The library is
single threaded and every call blocks: the concurrency it lives with is that of the
peer, which may send any record at any read, and of the transport, which may fail at
any read or write. What is hard in it is order and left-over state: a handshake that
is a loop over messages with two dozen ways out, keys that change under both
directions of a connection, one object that serves connection after connection.

Paths below are relative to the root of the repository (`src/tls/...`).

## The parts of the system

| Part | State | Operations | Hard behaviour | What makes it correct |
|---|---|---|---|---|
| TLS client, `src/tls/connection.cpp` | `state_`, keys and secrets, transcript, deframer, `pending_app_`, last alert, ALPN | `connect`, `send`, `recv`, `key_update`, `close`, `reset` | any record at any read; failure of any read or write; key updates of both sides crossing; reuse after every kind of end | keys bound to the transcript, nonces never repeat, the peer can decrypt, errors end the connection, nothing survives it |
| Handshake messages, `src/tls/handshake.cpp` | bytes buffered in the deframer | `append`, `peek`, `consume`, parsers, Finished | messages cut over records, several in one | the messages taken out are those put in, in order |
| Hello messages, `client_hello.cpp`, `server_hello.cpp` | none | build, parse | retry | group, version and suite are the offered ones |
| Record layer, `record.cpp`, `protected_record.cpp` | sequence number of each key | protect, unprotect | sizes at their limits, padding | what is protected can be unprotected, within the limits of both sides |
| Key schedule and transcript, `key_schedule.cpp`, `transcript.cpp` | secrets, running hash | derive, update, snapshot | the moment of each snapshot | both ends derive from the same transcript |
| Authentication, `authentication.cpp` | none | parse the chain, check the flight | repeated messages | the signature is by the leaf of the chain verified |
| Native verifier, `src/verifier/native/` | trust anchors, pin | `verify_chain`, `verify_signature`, add and clear anchors | path length, anchors in the chain, lifetime of the blob anchors point into | accepted chains are valid ones |
| X.509 parser and matcher, `src/x509/x509.cpp` | the view of a certificate | parse, `x509_verify_hostname` | repeated, unknown and malformed extensions; wildcards | the view says what the certificate says; a name covers no more than its hosts |
| Trust store, `src/x509/trust_store.cpp` | the anchors of the verifier | `load_compact_trust_store` | failure at a late entry | a store is loaded as a whole or not at all |
| Xbox wrapper, `src/platform/xbox360/xbox_client.cpp` | started network, loaded store, options, statistics, last error | `initialize`, `connect`, `send`, `receive`, `reload_trust_store`, `close`, `shutdown` | a step of several failing | the parts are in step with each other whichever step failed |
| Socket stream, `platform_xbox360.cpp` | the socket | connect, timeouts, send all, receive some, close | partial sends, name lookup | a socket is open exactly while somebody uses it |
| Crypto, `src/crypto/` | hash buffers | AES-GCM, SHA-256, HKDF, X25519, P-256, RSA | carries and boundaries | equals its reference definition |

The wrapper owns the platform, the socket, the verifier and the TLS client and passes
pointers to the first three to `TlsClient::connect`. The client calls the socket
through `Stream` and the verifier through `ServerAuthVerifier`; it closes the stream
whenever a connection ends.

## Modules

### TlsClient

One `TlsClient` object against an open peer. A blocking call is a loop around
`read_record`; the variable `call` is the loop it is in with its locals, and one
iteration of a loop is one action.

| Code | Model |
|---|---|
| `state_`, the four `TrafficKeysAes128Gcm`, `private_key_` | `state`, `keys`, `share` |
| secrets in `schedule_` | the `th`, `gen` of a key: the transcript it was derived from and its generation |
| `sequence_number` | the `seq` of a key |
| `transcript_` | `transcript`, the sequence of messages hashed |
| `deframer_` | `buf`, a sequence of whole messages, heads and tails |
| `pending_app_` | `pending` |
| `connect()` before its loop | `Connect`, `ConnectFails`, `ConnectRefused` |
| the loop of `connect()` | `HelloRecord` (a read), `HelloRejected`, `HelloRetry`, `ServerHello` (a message) |
| `process_server_handshake()` and `handle_handshake_message()` | `FlightRecord`, `FlightRejected`, `EncryptedExtensions`, `Certificate`, `CertificateVerify`, `Finished` |
| `recv()` | `RecvPending`, `RecvStart`, `RecvRecord` |
| `process_post_handshake()` | `PostDone`, `NewSessionTicket`, `PeerKeyUpdate`, `PeerKeyUpdateRequested`, `PeerKeyUpdateFails`, `PostRejected` |
| `send()`, `key_update()`, `close()`, `reset()` | `Send`, `SendChunk`, `SendDone`, `KeyUpdate`, `Close`, `Reset` |
| an error of `read_record()` in any loop | `ReadFails` |

Cryptography is symbolic. A hash is its input, a key is named by the transcript it was
derived from, a record opens only under the key, generation and sequence number it was
protected with. A CertificateVerify or Finished carries the transcript it was computed
over. So a peer can send anything except what it would have to forge: it knows the keys
(it is one end of the key exchange), and it can sign for any chain of `Chains`, only
some of which the verifier trusts (`Trusted`). Whether an honest third party's
signature can be replayed is outside of this model.

The peer's choices (`PeerRecords`) hold, for each loop, every message the code tells
apart, whole or cut in two, alone, as a tail of an earlier record, or followed by a
trailer in its record; every content type; plaintext records at protected times and
records that do not verify.

Left out: argument checks that refuse null pointers; the byte layout of messages
(well formed or not is a value of the message); the contents of session tickets; records
with more content than `pending_app_` holds, which are `RecordReceive`'s. A step that may
fail names the errors of the calls it stands for (`SendErrors`, `RetryErrors`,
`ConnectErrors`); key derivations have inputs of fixed size and do not fail.

`out`, `authentic`, `got` and `accepted` are history: what was written on the
connection, the chain accepted, and the data delivered and accepted.

### ClientLifecycle

What a caller of `TlsClient` may rely on: each call is one step between the states
`IDLE`, `CONNECTED`, `CLOSED` and `FAILED`, given by the outcomes it may have in a state
(`ConnectOutcomes`, `WriteOutcomes`, `ReadOutcomes`, ...), and keys and stream exist
exactly while the state is `CONNECTED`. `TlsClient` implements it
(`ImplementsClientLifecycle`): a call still running is mapped to the state before it,
so that the steps of a blocking call stutter but for the one that returns. The wrapper
is composed with this module and never sees a message.

### XboxTlsClient

The convenience client with the parts it owns. Nothing else runs while one of its
methods does, so a method is one step; each way out of a method is an action, and each
call into the TLS client may have every outcome `ClientLifecycle` allows.

| Code | Model |
|---|---|
| `tls_.state()`, `socket_` | `tls`, `socketOpen` |
| `XNetStartup`, `WSAStartup` not yet cleaned up | `net` |
| `network_started_`, `initialized_` | the same names |
| `trust_store_data_`, what `malloc` gave and `free` has not taken back | `store`, `heap` |
| `anchors_` of the verifier, spans into the blob | `anchors`: the blob and the roots |
| the pin in the verifier, `active_options_` | `pin`, `active` |
| `stats_`, `last_error_` | the connect counters of `stats`, `last_error` |
| `initialize()` | `InitializeNoNetwork`, `InitializeNoStore`, `InitializeDone` |
| `connect()` | `ConnectRefused`, `ConnectKept`, `ConnectBadGroup`, `ConnectNoSocket`, `ConnectNoHandshake`, `ConnectWrongAlpn`, `ConnectNoUpdate`, `Connected` |
| `send()`, `key_update()`; `receive()` | `Write`; `Receive` |
| `load_trust_store_file()`, `reload_trust_store()` | `Load`, `Reload` |
| `close()`, `shutdown()`, `reset_stats()` | `Close`, `Shutdown`, `ResetStats` |

`made`, `kept` and `called` are history: what the connection was made with and what
verified it, the calls refused in favour of a live connection, the last call.

Left out: `defaults_`, byte and reload counters, ports, padding, timeout values. Two
things a reader of the code may not expect and the model has: `close()` sends
close_notify by the options of the connection, a reconnect by those of the new one; and
a connection without the required ALPN is always closed with close_notify.

### CertChain

One call of `authenticate_server_flight()` with the native verifier. `Init` chooses the
certificate list, the CertificateVerify, the hostname, the anchors and the pin; each
check of the code is an action, each loop one action per iteration (`CheckLink`,
`TryAnchor`). A certificate is the identity of its DER encoding and what the parser
finds in it (`View`); a signature is the key it verifies under. The second half of the
module is the reference: a certification path as RFC 5280 section 6 has it, stated over
whole sequences (`ValidPath`; self-issued certificates do not count against a path length),
along any beginning of the list to any anchor (`HasPath`), and `Authentic`.

The verifier is stricter than that reference, and `RejectsOnlyOthers` says by how much. It
counts self-issued certificates, as its comment on a "conservative" enforcement has it
(`native_verifier.cpp:294`), looks for an anchor only above the last certificate sent, and
refuses a CA certificate as a server's. `PlainList` is a list without these. So a server with
a key rollover certificate in its list, or with certificates sent beyond the anchor, may be
turned away although RFC 5280 has a path for it.

`verify_chain()` compares the pin before it checks the chain (`native_verifier.cpp:256-268`);
README.md:243 has it the other way round. The result of the call is the same in either order.

Left out: the bytes of the certificate list and of DER, and hostname matching, which is
`X509`'s (here the view names the hosts that match). Every check that reads the clock
sees the same time.

### X509 and TrustStore

`X509` is `x509_parse_certificate()` and `x509_verify_hostname()`; `TrustStore` extends
it by the calls that change the anchors of the native verifier, each of which parses
what it is given.

| Code | Model |
|---|---|
| `X509CertificateView` | `view`; the path length is a set of at most one number |
| `x509_parse_certificate()` up to the key, `parse_spki()` | `Frame`, `FrameRefused`, `PublicKey`, `KeyRefused` |
| the loop over the `[3]` elements and `parse_extensions()` | `block`, `pos`; `NextBlock`, one action per extension: `SubjectAltName`, `BasicConstraints`, `KeyUsage`, `ExtendedKeyUsage`, `CriticalUnknown`, `Ignored`, `Malformed` |
| `x509_verify_hostname()`, `dns_equal()` | `VerifyHostname`, `NoNames`, `NameMatches`, `NamePassed`, `NameMalformed`, ...; `dns_equal`, character by character |
| `add_trust_anchor()`, `clear_trust_anchors()` | `AddRefused`, `Add`, `AddReturns`, `Clear` |
| `load_compact_trust_store()` | `LoadRefused`, `Load`, `EntryRefused`, `ReadEntry`, `AnchorRefused`, `AnchorAdded`, `OctetsLeft`, `Loaded` |

A certificate is what its DER holds; an element that the parser refuses is one of value
`malformed`, whichever check refuses it. The body of a blob is octets, and the lengths in
front of its entries are read from them. Which octets are a certificate is the constant
`Certificates`.

`AcceptedIsUnderstood` speaks exactly of extensions given once; of a repeated one it only
says that the view grants nothing none of them grants. That a repeated one is accepted at
all, and that a name behind the one that matches may be malformed, is a finding
(`x509_malformed`, below).

A blob that is too short or has another magic leaves the anchors loaded before in place,
whereas one that fails later leaves none.

### HandshakeDeframer

`TlsClient` takes handshake messages as whole or cut in two; this module does the same
code octet by octet. The peer's messages are one stream, an octet is its position in
the stream, and the peer cuts the stream into records anywhere (`ReadRecord`). `Peek`
returns a view into the storage, `Handle` reads through it and `Consume` moves the
storage, in separate steps, so that a copy not taken in time would show. A header cut
short is not read; octets that are no header spell any length (`HeaderLengths`).

It is assumed that no record goes on behind the server's Finished, where the peer's
keys change. (`TlsClient` does not assume it: there the rest stays buffered.)

### RecordFormat, RecordSend and RecordReceive

`TlsClient` has one record per chunk of a `send()` and unit of data; these modules have
the same code octet by octet, with its limits scaled down. `RecordFormat` is
`protected_record.cpp`: lengths, padding, the scan for the content type, the verdicts.

| Code | Model |
|---|---|
| `send()`, one iteration of its loop | `Send`, `ProtectChunk`, `ChunkRefused`, `NoMemory`, `SendDone`; `ChunkLimit` is `max_content` |
| `Xbox360SocketStream::send_all()`, one `::send()` | `SocketTakes`, `SocketFails`; `record` is what is not yet taken |
| `recv()` and `pending_app_` | `RecvPending`, `RecvStart`, `DataReceived`, `DataOverruns`, `DataRefused` |
| `read_record()`, one `::recv()` | `ReadSome`, `ReadFails`; `record` is what is there, `BadHeader`, `SkipRecord`, `PlaintextRefused` its ends |

The peers are external. That of `RecordSend` reads records and refuses those over the
limits of RFC 8446; that of `RecordReceive` cuts its data into records with any padding,
puts change_cipher_spec between them, may stop anywhere and may go wrong once. It need not
keep to the 2^14 octets of content of RFC 8446 section 5.4 (`PeerContent`), because `recv()`
does not check that it does. What the caller does not take of a record is copied to
`pending_app_`; when it does not fit, the state is `OVERRUN` and nothing is defined any more
(`RecvUndefined`). A
ciphertext is its plaintext, and its tag the sequence number it was protected with.

What `record_send` shows of `send()` is worth knowing to a caller: with less than 239
octets of padding a chunk may be longer than 16384 octets, which
`protect_record_aes128_gcm()` refuses; a `send()` of more than 16384 octets then returns
`XT_ERR_BAD_RECORD` and ends the connection. With more padding it is cut and sent.

Of the buffers of `recv()`, `LimitedPeerFits` says what holds: `record` and `plain` hold
whatever a peer writes, `pending_app_` what a peer writes that keeps to the limit.
`CopiesFit` says that of every peer and fails (`record_overlong`, below).

### SecureStream and TlsSession

`TlsSession` extends `TlsClient` by an honest server and the records on their way: a
record the client reads is the next the server wrote, the server reads `out`. The server
is an endpoint of RFC 8446 with its own transcript and keys. It may ask for a retry, cut
its flight and put two fragments in a record, send data before it has read the client's
Finished, update its keys, ask the client to, and close. The streams may break.

`SecureStream` is what the two applications may rely on: each direction a queue whose
end is reported once everything sent before was delivered. One record carries at most
`MaxSend` units. `TlsSession` implements it
(`ImplementsSecureStream`), with `sent` what `send()` accepted and the server sent, and
`received` what the server and `recv()` delivered. When the client breaks an open
connection off, the stream stops: a step of neither end is due.

## Runs

| Run | Bounds | What it shows |
|---|---|---|
| `client` | handshakes of up to six hashed messages on the first connection; behind the shortest handshakes two connections, one key update each way, one record of the peer per key, two units of data of the client | types; keys, client Finished and authentication are bound to the transcript whatever the order and repetition of messages; secrets are wiped, nonces unique, the stream can be decrypted in order, nothing of the first connection survives into the second, close_notify is last, errors end the connection; the client implements `ClientLifecycle` |
| `client_unauthenticated` | one connection, six hashed messages, no data | finding, below |
| `xbox_wrapper` | two pins, two stores (symmetric), the default options and three others, three `connect()` between two `reset_stats()` | network, socket, trust store, options and counters stay in step on every way out of every method; no failure makes a later `connect()` impossible |
| `cert_chain` | 17 certificates, chains of up to four and one of nine, lists of up to two anchors | accepted are only authentic servers, and all that send a plain list |
| `deframer` | ten messages of 2 to 5 octets, header of 2, records of up to 6, storage of 10, certificates of up to 5 | messages handled whole, once, in order, and without waiting for another record; no cut overflows |
| `record_send` | content of up to 3 octets, fragments of up to 7, tag of 1, padding of 0, 1, 2 and 4 where 3 is the most; six octets of data in calls of every length | what is sent can be read, whatever the padding and the partial sends; only long sends fail; what was accepted arrives |
| `record_receive` | the same limits, up to 5 octets of content in each of three records of the peer, buffers of 0, 1 and 4 octets | data in order and complete over every cut and partial read; the buffers hold for a peer within 2^14; the malformed records listed fail and no other does; a call returns once its record is there |
| `record_overlong` | as `record_receive` | finding, below |
| `session_handshake` | two groups of which the server supports one, flights cut and packed, breaking streams, no data | every handshake comes up with the server's chain, group and ALPN, unless the stream breaks |
| `session_data` | two units of data each way, one key update of each end of its own accord and the answers to them | both ends decrypt everything and agree on keys when nothing is on the way; the connection is a secure stream; everything sent arrives |
| `trust_store` | names of up to four characters of `a`, `A`, `.`, `*` against 12 hosts; up to three extensions in one or two elements; blobs of up to three chunks; two anchors | what the parser accepts and keeps, which hosts a name covers, and that a store loads as a whole or not at all |
| `x509_malformed` | as `trust_store` | finding, below |

The `client` runs have two groups (symmetric), two chains of which one is trusted and a
deframer of two fragments, which one cut message or two whole ones fill. Six hashed
messages allow ClientHello, HelloRetryRequest, ClientHello, ServerHello and two more
before the Finished, or a Certificate and CertificateVerify twice without a retry. All
calls behind all handshakes are more than TLC can do in minutes. `client` follows those
of the constraint `Followed`: on the first connection every handshake, with whatever comes
behind it but data and key updates (`LongHandshake`); on both, everything behind a handshake
without encrypted extensions, Certificate and CertificateVerify, with one record of the peer
per key (`ShortHandshake`). What comes behind a handshake depends on the keys and on what
is buffered, which short ones have, and of the rest of the flight on the negotiated ALPN
alone, which `reset()` or the next `connect()` must clear. One update in each direction is
enough for the two directions' updates to cross, two units of data for the client's sequence
number to be reset from a value other than zero, and two connections for one to follow each
kind of end.

In `xbox_wrapper` the three option sets are pinned and strict, pinned otherwise and
quick to end, and one refused after the connection before it was ended; with the
defaults every combination of a live connection with a next one is met. Three attempts
are enough for a success, a failure and a refusal to add up.

In `cert_chain` the certificates have one flaw each (expired, no CA, no key usage, path
length too short, issued by another key, self-issued, not parsed) and authorities come up to three
above the leaf, so that a path length is met at its limit and one past it with the
anchor in the chain and above it.

In `deframer` the capacity is exactly the length of the longest message less one octet
and a record, the least for which `NoCutOverflows` can hold. With the code's own
numbers, 32768 octets of storage and 16640 of plaintext, any message of up to 16129
octets is safe from its cuts. A Certificate may have 24576 octets in
`certificate_storage_`; between the two numbers it is accepted in some cuts and refused
in others.

In the `record` runs fragments leave more room than content needs, as 16640 does over
16384, so that chunks come in all three kinds: refused, exactly full, and cut to the
fragment by their padding. The data has zeros, which padding must not swallow, and the
values of content types. Five octets of content, two over the limit, fill a fragment; with
buffers of no octets all of them go to `pending_app_`, which holds three. At most one fragment waits in the socket when the peer writes
the next record.

`session_data` leaves out the cuts and breaks, which `session_handshake` has, and the
tickets, which `client` has: with the data they exceed what TLC can do in minutes.

In `trust_store` two anchors fill the verifier, so that a blob of three is one too many.
The names meet both edges of the matcher, a first label that is empty and a host
without a dot.

Deadlock is checked in the `client`, `session`, `record` and `xbox_wrapper` runs, where
a next call is always possible. A call of `CertChain` or to verify a leaf in
`TrustStore` returns and a peer of `HandshakeDeframer` stops sending, so it is off
there.

Fairness. `HandshakeDeframer` and `RecordReceive` assume that the client goes on with
the octets it has (weak fairness of its own steps, which a thread that runs has) and
nothing of the peer, which may stop anywhere. `RecordSend` assumes besides that a socket
that does not fail takes octets in the end and that the peer reads, or else a blocking
`send()` rightly waits. `TlsSession` assumes the same of client and streams, and that
the server does what it owes: its handshake messages, reading, and the answer to a
KeyUpdate. It does not assume that the server sends data, updates or closes. That
data reaches the application needs an application that comes back to `recv()`
(`Reading`); fairness is strong there, because other calls it makes in between disable
it for their time. `TlsClient`, `XboxTlsClient`, `CertChain` and `TrustStore` are checked
for safety only; the one temporal property of `xbox_wrapper` is an action property.

### Findings

`client_unauthenticated`: README.md:308-314 has a client verify the certificate and the
hostname before data is sent. `handle_handshake_message` (`connection.cpp:451-516`)
handles each message on its own and keeps no record of those handled before, so a
server that sends its Finished without Certificate or CertificateVerify is connected
to. TLC gives the trace.

`record_overlong`: README.md:337 says that malformed input fails closed. A record with more
than 2^14 octets of content is malformed (RFC 8446 section 5.4), but `recv()`
(`connection.cpp:681-693`) does not look at the length of what it decrypted, up to 16623
octets, and copies what the caller's buffer does not hold to `pending_app_`, which has 16384
(`connection.h:86`). TLC gives the trace.

`x509_malformed`: the same sentence of README.md:337. A certificate must not have an
extension twice (RFC 5280 section 4.2); `parse_extensions()` (`x509.cpp:212-287`) takes each
as it comes: the later one counts, but a path length or a serverAuth purpose given once
stays. Likewise `x509_verify_hostname()` returns at the first name that matches
(`x509.cpp:402`), so that a malformed one behind it is not seen. TLC gives the trace of the
first.

## Proofs

All theorems hold for every value of the constants.

`TlsClientProofs` assumes `ClientAssumption` (the groups and chains are not the names
used for malformed values, the bounds are natural numbers):

* `TypeCorrect`: `Spec => []TypeOK`, one lemma per group of actions;
* `SecretsAreWiped` and `BlockingCallsNest`: `SecretsWiped` is inductive only together
  with `CallsNest`, because ServerHello and the opening of records install keys
  whatever `state` is, and it is the loop the call is in that tells that `state` is
  live; their conjunction is `Lifecycle`;
* `NoncesAreUnique`: `NonceUnique` speaks of the records written and not of the next
  one. The inductive invariant `NoncesSpent` adds that nothing protected was written
  before the client Finished, and that each key in the stream is a handshake key or
  lexicographically (generation, sequence number) below the current application key.

`ClientIsLifecycle` of the same module: `TlsClient` implements `ClientLifecycle`. Each step of `TlsClient` has one of nine effects on the mapped
variables (`Quiet`, `Begins`, `Breaks`, `Refuses`, ...); lemmas over the actions name the
effect of each, and each effect is mapped to a step or a stutter.

Its other theorems say what the parts of one connection have to do with each other. Each step has one of eight effects on the transcript, the keys, the authentication
and the records written (`Ended`, `Began`, `Retried`, `Answered`, ...), and each of these
invariants is shown to survive each effect:

* `ConnectionsAreFresh`: `Fresh` adds to `ConnectionIsFresh` which keys are zero in which
  phase of the handshake. Its part on the negotiated ALPN (`NegotiatedHere`) is inductive on
  its own, because transcripts only grow within a connection (`LongerKeepsNegotiated`);
* `CloseNotifyEnds`: `AlertsAtEnd` adds that the stream of a live connection has no alert;
* `SignaturesCoverCertificates`: `Authenticity` adds that `cert_info` is that of the last
  Certificate hashed;
* `KeysAreBound`: `KeysBound` adds that during the flight the handshake keys are derived
  from the prefix through ServerHello;
* `StreamIsDecryptable`: `InStep` adds that the write key counts what was written, its
  generation the KeyUpdates and its sequence number the records since;
* `ErrorsEndConnections`: the action property `ErrorsAreFatal`, from `TypeOK` alone.

`XboxTlsClientProofs` assumes `WrapperAssumption`. The state falls into groups: the trust
store (`TrustOK`), the network (`NetworkOK`) and the counters (`CountersOK`) each have an
invariant inductive on its own, and the connection's (`ConnectionOK`) rests on the first
two, because a socket outlives neither the network nor `initialized`. From them follow
`StoreIsOwned`, `CountersAreRight`, `TypeCorrect`, `SocketIsInStep`, `NetworkIsBalanced`,
`PolicyHolds` and the action properties `FailuresLeaveNothing` and `ConnectsReachNetwork`.

`CertChainProofs` assumes `ChainAssumption` (the anchors configured parse, which
`add_trust_anchor` checks). The inductive invariant `Passed` says what has been
established when the call is at each check, for the loops the part of the list behind
the index. What the two loops check pair by pair is a strict path (`StrictPath`): along the
whole list, every certificate counted. `AnchoredIsPath` and `PathIsAnchored` show that, with
the anchor in the list and above it, in both directions. The rest is about the reference
alone: a strict path is one of RFC 5280, which counts no more certificates
(`StrictIsValid`), and on a plain list it counts no fewer (`ValidIsStrict`). From them
`AcceptedAreAuthentic` and `RejectedAreOthers`.

`TrustStoreProofs` assumes `LeafAssumption` and `StoreAssumption` (blobs are octets,
certificates have the form given). `MatcherCovers` is the equality of `dns_equal`, which
compares what is behind the first dots, with `Covers`, which puts an asterisk in place of
a label. The inductive invariant has one part per loop: `Parsing` (which position of which
element is next), `Naming` (no name passed covers the host), and `Loading`, which says
that the anchors so far are the entries before the offset and that no other reading of
the blob exists: by `ReadFurther` every list of entries that follow each other agrees
with the anchors so far, so that when the loader fails no such list can be completed
(`Refuted`). Proved are `TypeCorrect`, `HostnameIsVerified`, `LoadsExactly` and, from
what `Parsing` says of the extensions passed, `AcceptedAreUnderstood`.

`HandshakeDeframerProofs` assumes `DeframerAssumption` (each message has at least its
header). The inductive invariant has one central fact: the storage is the part of the
stream from the end of the last message consumed to what was sent (`Tracks`); appending
extends it (`PartAppend`), consuming cuts it (`PartSplit`), and so its first octets are
the header of the next message. `Waits`, that a read never finds a complete message
buffered, is needed for `NoCutOverflows`, and holds over the Finished only because what
follows it comes in records of its own. Proved are `TypeCorrect`, `HandledInOrder`,
`StorageIsTheRest`, `CertificateOutlivesStorage` and `CutsFit`.

`RecordSendProofs` assumes `FormatAssumption` and `SendAssumption` (the limits are natural
numbers, a fragment has room for the content and its type, the content types are
octets). `RoundTrip` is the lemma on the record format: what `protect` frames, `unprotect`
reads back, whatever zeros the content ends in, because padding comes behind an octet
that is none. The inductive invariant has one part for the call (`Calls`: a chunk that is
not the last of its call is `ChunkLimit` long, so that the first chunk is refused if any
is) and one for the stream (`OnTheWay`: what is written and not yet read is a sequence of
whole records whose contents join to the data between what was read and what was cut;
only behind a failure may the last be cut short). Proved are `TypeCorrect`,
`PeerAcceptsAll`, `ReadsInOrder` and `OnlyLongSendsAreRefused`.

`RecordReceiveProofs` assumes `FormatAssumption` and `ReceiveAssumption`. The argument is
that of `RecordSendProofs` from the other end: what the socket and `record` hold is a
sequence of whole records, the first perhaps read in part, whose contents join to the data
between what `recv()` returned or keeps and what the peer has cut; once the peer has gone
wrong this holds up to the record that is. It says besides that a record on the way has more
than `MaxContent` octets of content only if the peer exceeded the limit, from which
`LimitedPeerFits` follows for what is copied. Proved are `TypeCorrect`, `DeliveryIsInOrder`,
`BuffersHold` and `FailuresAreJustified`.

`TlsSessionProofs` has the theorems about the connection as a whole, from the assumptions of
`TlsClient` and `SessionAssumption`. Two parts of that one bound the model (the server
answers one connection) and state what the code has (the deframer holds half a message and
the two fragments one record of this server carries behind it; `handshake_storage_` is
larger than a record). For each direction the invariant `SInv` follows the stream from the
end that writes to the end that reads. A *stage* says how far an end is with it: the key of
the next record, the halves of the flight behind it, the units of data, whether it has
ended. Each record on the way takes the stream from one stage to the next (`Carries`,
`Sends`), the stage before the first record is that of the reader (`ClientAt`,
`ServerReadsAt`) and the one behind the last that of the writer (`ServerAt`,
`ClientWritesAt`): `PathToClient` and `PathToServer`. A step then changes one end of one
path: the writer adds a record and a stage, the reader takes the first off. That is why keys
need to agree only through the records between them, however the key updates of both ends
cross, and why the fragments that are cut or packed together need only join up (`Spans`).
`InPhase` is what the phases of the two ends have to do with each other, down to the turns
they take before ServerHello (`BeforeRetry`, `AfterRetry`). The theorems:

* `SessionInvariant`: `SessionSpec => []SInv`;
* `NoEndFails`: the client fails only with the stream, the server never;
* `ConnectsToServer`: the chain, group, ALPN and transcript are the server's;
* `BothEndsAgree`: with both paths of length zero the stages of their ends are equal, and
  with them the keys;
* `ImplementsStream`: the session implements `SecureStream`. Every step is an action of
  `SecureStream` or changes none of its variables; that what is delivered was sent, and the
  end told only behind it, are bounds on the stages of the path (`StageOK`,
  `WriteStageOK`). `Room` (a `send()` writes no more than it was given) is needed besides.

With them every safety invariant, action property and refinement that a passing run checks
is proved. Model-checked only is the liveness (`SentIsHandled`, `AcceptedArrives`,
`ArrivedReturns`, `ConnectSucceeds`, `EverythingArrives`), which is out of the prover's reach.

## Plan

1. (done) `TlsClient`, its runs and first theorems.
2. (done) `XboxTlsClient` over `ClientLifecycle`, which `TlsClient` is proved to
   implement.
3. (done) `TlsSession` with an honest server, and `SecureStream`, which it implements.
4. (done) `RecordSend` and `RecordReceive`: lengths and padding.
5. (done) `HandshakeDeframer`.
6. (done) `CertChain`, `X509`, `TrustStore`.
7. SHA-256 buffering and the lists of ALPN names: pure algorithms.
8. (done) Theorems: the safety of `RecordReceive`, the session and the refinement of
   `SecureStream`.

## Not modelled

The arithmetic of the elliptic curves, RSA and AES is on numbers far out of TLC's reach,
and has no control of its own to speak of. DER at the level of octets is one verdict per
element. The OpenSSL adapter calls a library; the Win32 platform two system calls; the
demo and the vendored headers are no part of the library.

Two hazards have no property. `Xbox360SocketStream::connect()` polls the name lookup
without a bound (`platform_xbox360.cpp:68`); that it ends rests on the resolver alone.
What follows the server's Finished in its record stays in the deframer over the change
of keys (`connection.cpp:420`); the model has it, and the code promises nothing about
it.
