---------------------------- MODULE XboxTlsClient ----------------------------
(***************************************************************************)
(* The convenience client: class XboxTlsClient of                          *)
(* src/src/platform/xbox360/xbox_client.cpp with the parts it owns, the    *)
(* started network, one socket, the verifier's trust anchors and pin, and  *)
(* a TlsClient, of which it sees what ClientLifecycle promises.            *)
(*                                                                         *)
(* A method runs to its end before another call on the object, so a method *)
(* is one step; the ways out of a method are actions of their own, and     *)
(* every call it makes into TlsClient may have any outcome promised.       *)
(***************************************************************************)
EXTENDS Naturals

CONSTANTS
    Options,     \* the XboxTlsOptions the application uses
    Pins,        \* leaf certificate digests
    Stores,      \* trust store files that load, by their roots
    Failures,    \* errors that end a TLS connection
    MaxAttempts  \* bound: connect() calls counted between two reset_stats()

\* What connect() reads of an XboxTlsOptions: auto_reconnect, send_close_notify,
\* require_alpn, request_peer_key_update, whether preferred_group is one of the two
\* supported, and certificate_sha256_pin.
OptionSpace == [reconnect : BOOLEAN, notify : BOOLEAN, needAlpn : BOOLEAN,
                update : BOOLEAN, group : BOOLEAN, pin : Pins \cup {"none"}]

ASSUME WrapperAssumption ==
    /\ Options \subseteq OptionSpace
    /\ "none" \notin Pins /\ "none" \notin Stores
    /\ {"missing", "short_read", "no_memory", "malformed", "empty"} \cap Stores = {}
    /\ {"OK", "INVALID_ARGUMENT"} \cap Failures = {}
    /\ MaxAttempts \in Nat

VARIABLES
    tls,              \* tls_.state()
    socketOpen,       \* socket_ is valid
    net,              \* external: XNetStartup and WSAStartup not yet cleaned up
    network_started,  \* network_started_
    initialized,      \* initialized_
    heap,             \* blobs malloc'ed and not freed
    store,            \* trust_store_data_, 0 for null
    anchors,          \* anchors_: the blob they point into and the roots they are
    pin,              \* leaf_certificate_sha256_pin_, "none" when not enabled
    active,           \* active_options_
    stats,            \* connect counters of stats_
    last_error,       \* last_error_
    made,             \* history: what the connection was made with and verified by
    kept,             \* history: connect() calls refused in favour of a live connection
    called            \* history: the last method and the arguments it got

connection == <<tls, socketOpen, active, pin, made>>
trust      == <<heap, store, anchors>>
network    == <<net, network_started, initialized>>
counts     == <<stats, kept>>
vars       == <<connection, trust, network, counts, last_error, called>>

\* The TlsClient: only its call outcomes are used, its state is tls.
Tls == INSTANCE ClientLifecycle WITH
    state <- tls, result <- last_error, streamOpen <- socketOpen, secrets <- socketOpen

-----------------------------------------------------------------------------
(* Data *)

DefaultOptions == [reconnect |-> TRUE, notify |-> TRUE, needAlpn |-> FALSE,
                   update |-> FALSE, group |-> TRUE, pin |-> "none"]
Configured == Options \cup {DefaultOptions}

Blobs     == 1..2      \* while a store is loaded the one before is still allocated
NoAnchors == [blob |-> 0, roots |-> "none"]
Anchors   == [blob : Blobs \cup {0}, roots : Stores \cup {"none"}]

NotMade == [options |-> DefaultOptions, leaf |-> "none", roots |-> "none"]
Made    == [options : Configured, leaf : Pins \cup {"none"}, roots : Stores \cup {"none"}]

NoStats == [attempts |-> 0, successes |-> 0, failures |-> 0]
Stats   == [attempts : Nat, successes : Nat, failures : Nat]

Call(method)     == [method |-> method, options |-> DefaultOptions, host |-> TRUE]
ConnectCall(o, h) == [method |-> "connect", options |-> o, host |-> h]
Calls == [method : {"none", "initialize", "connect", "exchange", "reload", "close",
                    "shutdown", "reset_stats"},
          options : Configured, host : BOOLEAN]

remember(e) == last_error' = e

-----------------------------------------------------------------------------
(* The trust store *)

Files == Stores \cup {"unnamed", "missing", "short_read", "no_memory", "malformed", "empty"}

FileError(f) == CASE f \in Stores                    -> "OK"
                  [] f = "unnamed"                   -> "INVALID_ARGUMENT"
                  [] f = "no_memory"                 -> "BUFFER_TOO_SMALL"
                  [] f = "malformed"                 -> "BAD_HANDSHAKE"
                  [] f = "empty"                     -> "VERIFY"
                  [] f \in {"missing", "short_read"} -> "IO"

\* The file could be read into memory; only then the store before is freed.
Readable(f) == f \in Stores \cup {"malformed", "empty"}

\* load_trust_store_file().  A store that does not load leaves no anchors: the verifier
\* accepts nothing until another one is loaded.
\* Mutant: the anchors of the store before are kept when a load fails.
Load_KeepsAnchors(f) ==
    IF f \in Stores
      THEN \E b \in Blobs \ heap :
             /\ heap' = (heap \ {store}) \cup {b}
             /\ store' = b /\ anchors' = [blob |-> b, roots |-> f]
      ELSE IF Readable(f) THEN heap' = heap \ {store} /\ store' = 0 /\ UNCHANGED anchors
                          ELSE UNCHANGED trust
Load(f) ==
    IF f \in Stores
      THEN \E b \in Blobs \ heap :
             /\ heap' = (heap \ {store}) \cup {b}
             /\ store' = b /\ anchors' = [blob |-> b, roots |-> f]
      ELSE IF Readable(f) THEN heap' = heap \ {store} /\ store' = 0 /\ anchors' = NoAnchors
                          ELSE UNCHANGED trust

\* free_trust_store()
FreeStore == heap' = heap \ {store} /\ store' = 0 /\ anchors' = NoAnchors

Reload(f) ==
    /\ called' = Call("reload")
    /\ IF network_started THEN Load(f) /\ remember(FileError(f))
                          ELSE remember("INVALID_ARGUMENT") /\ UNCHANGED trust
    /\ UNCHANGED <<connection, network, counts>>

-----------------------------------------------------------------------------
(* close() and shutdown() *)

\* close(): the calls into TlsClient; both end by closing the stream, and the wrapper
\* closes the socket in any case.
CloseOutcome ==
    IF tls = "CONNECTED" /\ active.notify THEN Tls!CloseOutcome
    ELSE IF tls # "IDLE" THEN Tls!ResetOutcome
    ELSE Tls!Ends("IDLE", "OK")

Disconnect == /\ tls' = CloseOutcome.state /\ socketOpen' = FALSE
              /\ UNCHANGED <<active, pin, made>>

Close ==
    /\ called' = Call("close")
    /\ Disconnect /\ remember(CloseOutcome.result)
    /\ UNCHANGED <<trust, network, counts>>

\* xbox360_network_cleanup(), when this object started the network
Cleanup == net' = IF network_started THEN [xnet |-> net.xnet - 1, wsa |-> net.wsa - 1] ELSE net

TearDown == Disconnect /\ FreeStore /\ Cleanup /\ network_started' = FALSE /\ initialized' = FALSE

Shutdown ==
    /\ called' = Call("shutdown")
    /\ TearDown /\ remember(CloseOutcome.result)
    /\ UNCHANGED counts

-----------------------------------------------------------------------------
(* initialize() *)

\* xbox360_network_startup(): XNetStartup fails, or WSAStartup does and XNet is undone.
\* Mutant: it is not.
StartupFails_KeepsXNet(step) ==
    net' = IF step = "WSAStartup" THEN [net EXCEPT !.xnet = @ + 1] ELSE net
StartupFails(step) == net' = net

InitializeNoNetwork ==
    /\ ~network_started
    /\ called' = Call("initialize") /\ remember("IO")
    /\ \E step \in {"XNetStartup", "WSAStartup"} : StartupFails(step)
    /\ UNCHANGED <<connection, trust, network_started, initialized, counts>>

Started == IF network_started THEN net ELSE [xnet |-> net.xnet + 1, wsa |-> net.wsa + 1]

InitializeDone(f) ==
    /\ f \in Stores
    /\ called' = Call("initialize")
    /\ Load(f) /\ remember("OK")
    /\ net' = Started /\ network_started' = TRUE /\ initialized' = TRUE
    /\ UNCHANGED <<connection, counts>>

\* The store does not load: whatever ran before is shut down too, an earlier
\* initialize() and a live connection included.
InitializeNoStore(f) ==
    /\ f \notin Stores
    /\ called' = Call("initialize")
    /\ Disconnect /\ FreeStore /\ remember(FileError(f))
    /\ net' = [xnet |-> Started.xnet - 1, wsa |-> Started.wsa - 1]
    /\ network_started' = FALSE /\ initialized' = FALSE
    /\ UNCHANGED counts

-----------------------------------------------------------------------------
(* connect() *)

Succeeds == stats' = [stats EXCEPT !.attempts = @ + 1, !.successes = @ + 1]
FailsAs(e) == /\ stats' = [stats EXCEPT !.attempts = @ + 1, !.failures = @ + 1]
              /\ remember(e)

Connecting(o, host) ==
    /\ stats.attempts < MaxAttempts
    /\ called' = ConnectCall(o, host)
    /\ UNCHANGED <<trust, network>>

ConnectRefused(o, host) ==
    /\ ~initialized \/ ~host
    /\ Connecting(o, host)
    /\ FailsAs("INVALID_ARGUMENT")
    /\ UNCHANGED <<connection, kept>>

\* Neither a success nor a failure is counted.
ConnectKept(o) ==
    /\ initialized /\ tls = "CONNECTED" /\ ~o.reconnect
    /\ Connecting(o, TRUE)
    /\ stats' = [stats EXCEPT !.attempts = @ + 1] /\ kept' = kept + 1
    /\ remember("INVALID_ARGUMENT")
    /\ UNCHANGED connection

Proceeds(o) ==
    /\ initialized /\ (tls = "CONNECTED" => o.reconnect)
    /\ Connecting(o, TRUE) /\ UNCHANGED kept

\* tls_.state() when the preparations are over: a live connection is closed (or reset)
\* and what is not IDLE is reset.
\* Mutant: only a live connection is reset, not a closed or failed one.
Prepared_NoReset(o) ==
    IF tls = "CONNECTED" /\ o.notify THEN Tls!CloseOutcome.state
    ELSE IF tls = "CONNECTED" THEN Tls!ResetOutcome.state ELSE tls
Prepared(o) ==
    LET closed == IF tls = "CONNECTED" /\ o.notify THEN Tls!CloseOutcome.state
                  ELSE IF tls = "CONNECTED" THEN Tls!ResetOutcome.state ELSE tls
    IN  IF closed # "IDLE" THEN Tls!ResetOutcome.state ELSE closed

ConnectBadGroup(o) ==
    /\ Proceeds(o) /\ ~o.group
    /\ FailsAs("INVALID_ARGUMENT")
    /\ tls' = Prepared(o) /\ socketOpen' = FALSE
    /\ UNCHANGED <<active, pin, made>>

\* The pin of this connection.
\* Mutant: a pin once set stays.
PinOf_Sticky(o) == IF o.pin = "none" THEN pin ELSE o.pin
PinOf(o) == o.pin

\* connect_tcp() (lookup, socket, connection) or set_io_timeouts() fails, the latter with
\* the socket open.
\* Mutant: the socket is not closed when the timeouts cannot be set.
ConnectNoSocket_LeavesOpen(o) ==
    /\ Proceeds(o) /\ o.group
    /\ FailsAs("IO")
    /\ tls' = Prepared(o) /\ socketOpen' \in BOOLEAN
    /\ pin' = PinOf(o) /\ UNCHANGED <<active, made>>
ConnectNoSocket(o) ==
    /\ Proceeds(o) /\ o.group
    /\ FailsAs("IO")
    /\ tls' = Prepared(o) /\ socketOpen' = FALSE
    /\ pin' = PinOf(o) /\ UNCHANGED <<active, made>>

Handshake(o, h) == /\ Proceeds(o) /\ o.group
                   /\ h \in Tls!ConnectOutcomes(Prepared(o), TRUE)
                   /\ pin' = PinOf(o)

ConnectNoHandshake(o) ==
    \E h \in Tls!ConnectOutcomes(Prepared(o), TRUE) :
        /\ Handshake(o, h) /\ h.result # "OK"
        /\ FailsAs(h.result)
        /\ tls' = h.state /\ socketOpen' = FALSE
        /\ UNCHANGED <<active, made>>

\* The handshake succeeded.  verify_chain() accepts a leaf only with anchors loaded and,
\* when a pin is set, only the leaf pinned; a peer that sent no CertificateVerify was
\* not verified at all (TlsClient, ConnectedIsAuthenticated).
Accepts(leaf) == anchors # NoAnchors /\ pin' \in {"none", leaf}
Establishes(o) ==
    /\ Handshake(o, Tls!Ends("CONNECTED", "OK"))
    /\ active' = o
    /\ \/ made' = [options |-> o, leaf |-> "none", roots |-> "none"]
       \/ \E leaf \in Pins :
            Accepts(leaf) /\ made' = [options |-> o, leaf |-> leaf, roots |-> anchors.roots]

\* The protocol required was not negotiated.
\* Mutant: the error is returned and the connection is left up.
ConnectWrongAlpn_LeavesOpen(o) ==
    /\ o.needAlpn /\ Establishes(o)
    /\ FailsAs("BAD_HANDSHAKE")
    /\ tls' = "CONNECTED" /\ socketOpen' = TRUE
ConnectWrongAlpn(o) ==
    /\ o.needAlpn /\ Establishes(o)
    /\ FailsAs("BAD_HANDSHAKE")
    /\ tls' = Tls!CloseOutcome.state /\ socketOpen' = FALSE

\* The key update asked for could not be sent: TlsClient has closed the stream.
\* Mutant: the failure is returned and not counted.
ConnectNoUpdate_Uncounted(o) ==
    /\ o.update /\ Establishes(o)
    /\ \E u \in Tls!WriteOutcomes("CONNECTED") :
         /\ u.result # "OK" /\ tls' = u.state
         /\ stats' = [stats EXCEPT !.attempts = @ + 1] /\ remember(u.result)
    /\ socketOpen' = FALSE
ConnectNoUpdate(o) ==
    /\ o.update /\ Establishes(o)
    /\ \E u \in Tls!WriteOutcomes("CONNECTED") :
         u.result # "OK" /\ tls' = u.state /\ FailsAs(u.result)
    /\ socketOpen' = FALSE

Connected(o) ==
    /\ Establishes(o)
    /\ tls' = "CONNECTED" /\ socketOpen' = TRUE
    /\ Succeeds /\ remember("OK")

-----------------------------------------------------------------------------
(* send(), receive(), key_update(), reset_stats() *)

\* TlsClient closes the stream whenever the call leaves it not CONNECTED.
Exchange(outcomes) ==
    /\ called' = Call("exchange")
    /\ \E o \in outcomes :
         /\ tls' = o.state /\ remember(o.result)
         /\ socketOpen' = (socketOpen /\ o.state = "CONNECTED")
    /\ UNCHANGED <<active, pin, made, trust, network, counts>>

Write   == Exchange(Tls!WriteOutcomes(tls))
Receive == Exchange(Tls!ReadOutcomes(tls))

ResetStats ==
    /\ called' = Call("reset_stats")
    /\ stats' = NoStats /\ kept' = 0
    /\ UNCHANGED <<connection, trust, network, last_error>>

-----------------------------------------------------------------------------
(* The specification *)

Init ==
    /\ tls = "IDLE" /\ socketOpen = FALSE
    /\ net = [xnet |-> 0, wsa |-> 0] /\ network_started = FALSE /\ initialized = FALSE
    /\ heap = {} /\ store = 0 /\ anchors = NoAnchors
    /\ pin = "none" /\ active = DefaultOptions
    /\ stats = NoStats /\ last_error = "OK"
    /\ made = NotMade /\ kept = 0 /\ called = Call("none")

Initialize ==
    \/ InitializeNoNetwork
    \/ \E f \in Files : InitializeDone(f) \/ InitializeNoStore(f)

Connect(o) ==
    \/ \E host \in BOOLEAN : ConnectRefused(o, host)
    \/ ConnectKept(o)
    \/ ConnectBadGroup(o)
    \/ ConnectNoSocket(o)
    \/ ConnectNoHandshake(o)
    \/ ConnectWrongAlpn(o)
    \/ ConnectNoUpdate(o)
    \/ Connected(o)

Next ==
    \/ Initialize
    \/ \E o \in Configured : Connect(o)
    \/ Write
    \/ Receive
    \/ \E f \in Files : Reload(f)
    \/ Close
    \/ Shutdown
    \/ ResetStats

Spec == Init /\ [][Next]_vars

-----------------------------------------------------------------------------
(* Properties *)

TypeOK ==
    /\ tls \in Tls!Settled /\ socketOpen \in BOOLEAN
    /\ net \in [xnet : Nat, wsa : Nat]
    /\ network_started \in BOOLEAN /\ initialized \in BOOLEAN
    /\ heap \subseteq Blobs /\ store \in Blobs \cup {0} /\ anchors \in Anchors
    /\ pin \in Pins \cup {"none"} /\ active \in Configured
    /\ stats \in Stats /\ kept \in Nat
    /\ last_error \in Failures \cup {"OK", "INVALID_ARGUMENT", "CLOSED", "IO", "VERIFY",
                                     "BAD_HANDSHAKE", "BUFFER_TOO_SMALL"}
    /\ made \in Made /\ called \in Calls

\* Whichever step of whichever method failed, the socket is open exactly while the TLS
\* client is connected: no method leaks it and none leaves the client on a closed one.
SocketFollowsTls == socketOpen <=> tls = "CONNECTED"

\* Both layers of the network are started once while the wrapper says so and cleaned up
\* once, also when one of two starts fails and when initialize() undoes itself; and no
\* socket outlives them.
NetworkBalanced ==
    /\ net = IF network_started THEN [xnet |-> 1, wsa |-> 1] ELSE [xnet |-> 0, wsa |-> 0]
    /\ initialized <=> network_started
    /\ socketOpen => network_started

\* The verifier's anchors are spans into the blob the wrapper owns: across reloads that
\* fail at any point they never point into freed memory, and no blob is lost.
StoreOwnsAnchors ==
    /\ heap = {store} \ {0}
    /\ anchors.blob = store
    /\ anchors.blob = 0 <=> anchors.roots = "none"

\* While a connection is up the options kept for it and the verifier's pin are the ones
\* it was made with, whatever connect() calls were refused since, and a leaf that was
\* verified is the one pinned.
PolicyInForce ==
    tls = "CONNECTED" =>
        /\ active = made.options /\ pin = active.pin
        /\ made.leaf # "none" => made.roots # "none" /\ active.pin \in {"none", made.leaf}

\* Every connect() is counted once as success or failure, on each of its ways out, but
\* for those refused in favour of the live connection.
CountersAddUp == stats.attempts = stats.successes + stats.failures + kept

\* connect() that reports an error leaves no connection behind, not even when it failed
\* after the handshake; only a call refused at once leaves the old one as it was.
FailedConnectLeavesNothing ==
    [][called'.method = "connect" /\ last_error' # "OK" =>
          \/ tls' # "CONNECTED" /\ ~socketOpen'
          \/ /\ UNCHANGED connection
             /\ ~called'.host \/ ~called'.options.reconnect]_vars

\* However the last connection ended (close(), close_notify of the peer, an error of any
\* call), the same object can connect again: connect() reaches the network and is not
\* refused for the state the TLS client was left in.
ConnectReachesNetwork ==
    [][/\ called'.method = "connect" /\ initialized /\ tls # "CONNECTED"
       /\ called'.host /\ called'.options.group
       => last_error' # "INVALID_ARGUMENT"]_vars

=============================================================================
