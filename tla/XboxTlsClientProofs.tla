------------------------- MODULE XboxTlsClientProofs -------------------------
(***************************************************************************)
(* Theorems about XboxTlsClient.  The state falls into groups that each    *)
(* have an invariant inductive on its own, the trust store, the counters,  *)
(* the network; the connection's rests on the others.                      *)
(***************************************************************************)
EXTENDS XboxTlsClient, TLAPS

-----------------------------------------------------------------------------
(* The trust store *)

TrustOK == /\ heap \subseteq Blobs /\ store \in Blobs \cup {0} /\ anchors \in Anchors
           /\ StoreOwnsAnchors

\* A load that succeeds, fails after the old store was freed, or before.
LEMMA LoadKeepsTrust == ASSUME WrapperAssumption, TrustOK, NEW f \in Files, Load(f) PROVE TrustOK'
<1>1. CASE f \in Stores
  <2>1. PICK b \in Blobs \ heap : /\ heap' = (heap \ {store}) \cup {b}
                                  /\ store' = b /\ anchors' = [blob |-> b, roots |-> f]
    BY <1>1 DEF Load
  <2>2. heap' = {b} /\ b \in 1..2
    BY <2>1 DEF TrustOK, StoreOwnsAnchors, Blobs
  <2>3. anchors' \in Anchors /\ anchors'.blob = b /\ anchors'.roots # "none"
    BY <1>1, <2>1, <2>2 DEF Anchors, Blobs, WrapperAssumption
  <2> QED BY <2>1, <2>2, <2>3 DEF TrustOK, StoreOwnsAnchors, Blobs
<1>2. CASE f \notin Stores /\ Readable(f)
  <2>1. heap' = {} /\ store' = 0 /\ anchors' = NoAnchors
    BY <1>2 DEF Load, TrustOK, StoreOwnsAnchors
  <2> QED BY <2>1 DEF TrustOK, StoreOwnsAnchors, Anchors, NoAnchors, Blobs
<1>3. CASE f \notin Stores /\ ~Readable(f)
  <2>1. UNCHANGED trust
    BY <1>3 DEF Load
  <2> QED BY <2>1 DEF trust, TrustOK, StoreOwnsAnchors
<1> QED BY <1>1, <1>2, <1>3

LEMMA FreeKeepsTrust == ASSUME TrustOK, FreeStore PROVE TrustOK'
<1>1. heap' = {} /\ store' = 0 /\ anchors' = NoAnchors
  BY DEF FreeStore, TrustOK, StoreOwnsAnchors
<1> QED BY <1>1 DEF TrustOK, StoreOwnsAnchors, Anchors, NoAnchors, Blobs

LEMMA TrustStep == ASSUME WrapperAssumption, TrustOK, [Next]_vars PROVE TrustOK'
<1>0. UNCHANGED trust => TrustOK'
  BY DEF trust, TrustOK, StoreOwnsAnchors
<1>1. CASE Initialize
  <2>1. CASE InitializeNoNetwork
    BY <1>0, <2>1 DEF InitializeNoNetwork
  <2>2. ASSUME NEW f \in Files, InitializeDone(f) PROVE TrustOK'
    BY <2>2, LoadKeepsTrust DEF InitializeDone
  <2>3. ASSUME NEW f \in Files, InitializeNoStore(f) PROVE TrustOK'
    BY <2>3, FreeKeepsTrust DEF InitializeNoStore
  <2> QED BY <1>1, <2>1, <2>2, <2>3 DEF Initialize
<1>2. ASSUME NEW o \in Configured, Connect(o) PROVE UNCHANGED trust
  BY <1>2 DEF Connect, ConnectRefused, ConnectKept, ConnectBadGroup, ConnectNoSocket,
     ConnectNoHandshake, ConnectWrongAlpn, ConnectNoUpdate, Connected, Establishes, Handshake,
     Proceeds, Connecting
<1>3. CASE Write \/ Receive
  BY <1>0, <1>3 DEF Write, Receive, Exchange
<1>4. ASSUME NEW f \in Files, Reload(f) PROVE TrustOK'
  BY <1>0, <1>4, LoadKeepsTrust DEF Reload
<1>5. CASE Close
  BY <1>0, <1>5 DEF Close
<1>6. CASE Shutdown
  BY <1>6, FreeKeepsTrust DEF Shutdown, TearDown
<1>7. CASE ResetStats
  BY <1>0, <1>7 DEF ResetStats
<1>8. CASE UNCHANGED vars
  BY <1>0, <1>8 DEF vars
<1> QED BY <1>0, <1>1, <1>2, <1>3, <1>4, <1>5, <1>6, <1>7, <1>8 DEF Next

\* For every store, file and order of loads, the verifier's anchors point into the one
\* blob allocated and owned.
THEOREM StoreIsOwned == Spec => []StoreOwnsAnchors
<1>1. Init => TrustOK
  BY DEF Init, TrustOK, StoreOwnsAnchors, Anchors, NoAnchors, Blobs
<1>2. TrustOK /\ [Next]_vars => TrustOK'
  BY TrustStep, WrapperAssumption
<1>3. TrustOK => StoreOwnsAnchors
  BY DEF TrustOK
<1> QED BY <1>1, <1>2, <1>3, PTL DEF Spec

-----------------------------------------------------------------------------
(* The counters *)

CountersOK == stats \in Stats /\ kept \in Nat /\ CountersAddUp

\* The three ways connect() counts a call.
LEMMA CountedOnce ==
    ASSUME CountersOK
    PROVE  /\ Succeeds /\ UNCHANGED kept => CountersOK'
           /\ \A e : FailsAs(e) /\ UNCHANGED kept => CountersOK'
           /\ stats' = [stats EXCEPT !.attempts = @ + 1] /\ kept' = kept + 1 => CountersOK'
<1> DEFINE a == stats.attempts  s == stats.successes  f == stats.failures
<1>0. /\ stats \in [attempts : Nat, successes : Nat, failures : Nat]
      /\ a \in Nat /\ s \in Nat /\ f \in Nat /\ kept \in Nat /\ a = s + f + kept
  BY DEF CountersOK, Stats, CountersAddUp
<1>1. ASSUME Succeeds, UNCHANGED kept PROVE CountersOK'
  <2>0. stats' = [attempts |-> a + 1, successes |-> s + 1, failures |-> f]
    BY <1>0, <1>1 DEF Succeeds
  <2>1. /\ stats' \in Stats
        /\ stats'.attempts = a + 1 /\ stats'.successes = s + 1 /\ stats'.failures = f
    BY <1>0, <2>0 DEF Stats
  <2>2. a + 1 = (s + 1) + f + kept
    BY <1>0
  <2> QED BY <1>0, <1>1, <2>1, <2>2 DEF CountersOK, CountersAddUp
<1>2. ASSUME NEW e, FailsAs(e), UNCHANGED kept PROVE CountersOK'
  <2>0. stats' = [attempts |-> a + 1, successes |-> s, failures |-> f + 1]
    BY <1>0, <1>2 DEF FailsAs
  <2>1. /\ stats' \in Stats
        /\ stats'.attempts = a + 1 /\ stats'.successes = s /\ stats'.failures = f + 1
    BY <1>0, <2>0 DEF Stats
  <2>2. a + 1 = s + (f + 1) + kept
    BY <1>0
  <2> QED BY <1>0, <1>2, <2>1, <2>2 DEF CountersOK, CountersAddUp
<1>3. ASSUME stats' = [stats EXCEPT !.attempts = @ + 1], kept' = kept + 1 PROVE CountersOK'
  <2>1. /\ stats' \in Stats
        /\ stats'.attempts = a + 1 /\ stats'.successes = s /\ stats'.failures = f
    BY <1>0, <1>3 DEF Stats
  <2>2. a + 1 = s + f + (kept + 1) /\ kept + 1 \in Nat
    BY <1>0
  <2> QED BY <1>0, <1>3, <2>1, <2>2 DEF CountersOK, CountersAddUp
<1> QED BY <1>1, <1>2, <1>3

LEMMA CountersStep == ASSUME CountersOK, [Next]_vars PROVE CountersOK'
<1>0. UNCHANGED counts => CountersOK'
  BY DEF counts, CountersOK, CountersAddUp
<1>1. ASSUME NEW o \in Configured, Connect(o) PROVE CountersOK'
  <2>1. ASSUME NEW host \in BOOLEAN, ConnectRefused(o, host) PROVE CountersOK'
    BY <2>1, CountedOnce DEF ConnectRefused
  <2>2. CASE ConnectKept(o)
    BY <2>2, CountedOnce DEF ConnectKept
  <2>3. CASE ConnectBadGroup(o)
    BY <2>3, CountedOnce DEF ConnectBadGroup, Proceeds
  <2>4. CASE ConnectNoSocket(o)
    BY <2>4, CountedOnce DEF ConnectNoSocket, Proceeds
  <2>5. CASE ConnectNoHandshake(o)
    BY <2>5, CountedOnce DEF ConnectNoHandshake, Handshake, Proceeds
  <2>6. CASE ConnectWrongAlpn(o)
    BY <2>6, CountedOnce DEF ConnectWrongAlpn, Establishes, Handshake, Proceeds
  <2>7. CASE ConnectNoUpdate(o)
    BY <2>7, CountedOnce DEF ConnectNoUpdate, Establishes, Handshake, Proceeds
  <2>8. CASE Connected(o)
    BY <2>8, CountedOnce DEF Connected, Establishes, Handshake, Proceeds
  <2> QED BY <1>1, <2>1, <2>2, <2>3, <2>4, <2>5, <2>6, <2>7, <2>8 DEF Connect
<1>2. CASE ResetStats
  BY <1>2 DEF ResetStats, NoStats, CountersOK, CountersAddUp, Stats
<1>3. CASE Initialize
  BY <1>0, <1>3 DEF Initialize, InitializeNoNetwork, InitializeDone, InitializeNoStore
<1>4. CASE Write \/ Receive
  BY <1>0, <1>4 DEF Write, Receive, Exchange
<1>5. CASE (\E f \in Files : Reload(f)) \/ Close \/ Shutdown
  BY <1>0, <1>5 DEF Reload, Close, Shutdown
<1>6. CASE UNCHANGED vars
  BY <1>0, <1>6 DEF vars
<1> QED BY <1>1, <1>2, <1>3, <1>4, <1>5, <1>6 DEF Next

\* Every connect() is counted once, for any number of calls and whichever way they end.
THEOREM CountersAreRight == Spec => []CountersAddUp
<1>1. Init => CountersOK
  BY DEF Init, NoStats, CountersOK, CountersAddUp, Stats
<1>2. CountersOK /\ [Next]_vars => CountersOK'
  BY CountersStep
<1>3. CountersOK => CountersAddUp
  BY DEF CountersOK
<1> QED BY <1>1, <1>2, <1>3, PTL DEF Spec

-----------------------------------------------------------------------------
(* The network *)

NetworkOK == /\ network_started \in BOOLEAN /\ initialized \in BOOLEAN
             /\ net = IF network_started THEN [xnet |-> 1, wsa |-> 1] ELSE [xnet |-> 0, wsa |-> 0]
             /\ initialized <=> network_started

LEMMA NetworkStep == ASSUME NetworkOK, [Next]_vars PROVE NetworkOK'
<1>0. UNCHANGED network => NetworkOK'
  BY DEF network, NetworkOK
<1>1. CASE InitializeNoNetwork
  BY <1>1 DEF InitializeNoNetwork, StartupFails, NetworkOK
<1>2. ASSUME NEW f \in Files, InitializeDone(f) PROVE NetworkOK'
  <2>1. net' = [xnet |-> 1, wsa |-> 1]
    BY <1>2 DEF InitializeDone, Started, NetworkOK
  <2> QED BY <1>2, <2>1 DEF InitializeDone, NetworkOK
<1>3. ASSUME NEW f \in Files, InitializeNoStore(f) PROVE NetworkOK'
  <2>1. Started = [xnet |-> 1, wsa |-> 1]
    BY DEF Started, NetworkOK
  <2>2. net' = [xnet |-> 0, wsa |-> 0]
    BY <1>3, <2>1 DEF InitializeNoStore
  <2> QED BY <1>3, <2>2 DEF InitializeNoStore, NetworkOK
<1>4. CASE Shutdown
  <2>1. net' = [xnet |-> 0, wsa |-> 0]
    BY <1>4 DEF Shutdown, TearDown, Cleanup, NetworkOK
  <2> QED BY <1>4, <2>1 DEF Shutdown, TearDown, NetworkOK
<1>5. ASSUME NEW o \in Configured, Connect(o) PROVE UNCHANGED network
  BY <1>5 DEF Connect, ConnectRefused, ConnectKept, ConnectBadGroup, ConnectNoSocket,
     ConnectNoHandshake, ConnectWrongAlpn, ConnectNoUpdate, Connected, Establishes, Handshake,
     Proceeds, Connecting
<1>6. CASE Write \/ Receive
  BY <1>0, <1>6 DEF Write, Receive, Exchange
<1>7. CASE (\E f \in Files : Reload(f)) \/ Close \/ ResetStats
  BY <1>0, <1>7 DEF Reload, Close, ResetStats
<1>8. CASE UNCHANGED vars
  BY <1>0, <1>8 DEF vars
<1> QED BY <1>0, <1>1, <1>2, <1>3, <1>4, <1>5, <1>6, <1>7, <1>8 DEF Next, Initialize

-----------------------------------------------------------------------------
(* The connection *)

ConnectionTyped ==
    /\ tls \in Tls!Settled /\ socketOpen \in BOOLEAN
    /\ pin \in Pins \cup {"none"} /\ active \in Configured /\ made \in Made

ConnectionOK == /\ ConnectionTyped
                /\ SocketFollowsTls /\ PolicyInForce
                /\ socketOpen => network_started

LEMMA ConfiguredTyped ==
    ASSUME WrapperAssumption, NEW o \in Configured
    PROVE  o \in OptionSpace /\ o.pin \in Pins \cup {"none"}
<1>1. DefaultOptions \in OptionSpace
  BY DEF OptionSpace, DefaultOptions
<1>2. o \in OptionSpace
  BY <1>1 DEF Configured, WrapperAssumption
<1>3. o.pin \in Pins \cup {"none"}
  BY <1>2 DEF OptionSpace
<1> QED BY <1>2, <1>3

\* connect() calls TlsClient::connect() in the one state that accepts it.
LEMMA PreparedIsIdle == ASSUME NEW o PROVE Prepared(o) = "IDLE"
  BY DEF Prepared, Tls!ResetOutcome, Tls!Ends

\* What a method that ends without a connection leaves.
LEMMA NotConnectedOK ==
    ASSUME ConnectionTyped', tls' # "CONNECTED", ~socketOpen'
    PROVE  ConnectionOK'
  BY DEF ConnectionOK, SocketFollowsTls, PolicyInForce

LEMMA DisconnectOK == ASSUME ConnectionOK, Disconnect PROVE ConnectionOK'
<1>1. tls' \in {"IDLE", "CLOSED"} /\ ~socketOpen' /\ UNCHANGED <<active, pin, made>>
  BY DEF Disconnect, CloseOutcome, Tls!CloseOutcome, Tls!ResetOutcome, Tls!Ends
<1>2. ConnectionTyped'
  BY <1>1 DEF ConnectionTyped, ConnectionOK, Disconnect, Tls!Settled
<1> QED BY <1>1, <1>2, NotConnectedOK

LEMMA HandshakeOutcome ==
    ASSUME NEW o \in Configured, NEW h \in Tls!ConnectOutcomes(Prepared(o), TRUE)
    PROVE  \/ h.state = "CONNECTED" /\ h.result = "OK"
           \/ h.state = "FAILED" /\ h.result \in Failures
  BY PreparedIsIdle DEF Tls!ConnectOutcomes, Tls!Broken, Tls!Ends

LEMMA WriteOutcome ==
    ASSUME NEW st \in Tls!Settled, NEW h \in Tls!ReadOutcomes(st)
    PROVE  /\ h.state \in Tls!Settled
           /\ h.state = "CONNECTED" => st = "CONNECTED"
           /\ h.result \in Failures \cup {"OK", "CLOSED"}
  BY DEF Tls!ReadOutcomes, Tls!WriteOutcomes, Tls!Broken, Tls!Ends, Tls!Settled

\* A handshake that succeeds, whatever becomes of the connection after it.
LEMMA EstablishesOK ==
    ASSUME WrapperAssumption, TrustOK, NetworkOK, NEW o \in Configured, Establishes(o)
    PROVE  /\ pin' \in Pins \cup {"none"} /\ active' \in Configured /\ made' \in Made
           /\ active' = made'.options /\ pin' = active'.pin
           /\ made'.leaf # "none" => made'.roots # "none" /\ active'.pin \in {"none", made'.leaf}
           /\ network_started'
<1>1. active' = o /\ pin' = o.pin /\ o.pin \in Pins \cup {"none"}
  BY ConfiguredTyped DEF Establishes, Handshake, PinOf
<1>2. network_started'
  BY DEF Establishes, Handshake, Proceeds, Connecting, network, NetworkOK
<1>3. CASE made' = [options |-> o, leaf |-> "none", roots |-> "none"]
  BY <1>1, <1>2, <1>3 DEF Made
<1>4. ASSUME NEW leaf \in Pins, Accepts(leaf),
             made' = [options |-> o, leaf |-> leaf, roots |-> anchors.roots]
      PROVE  /\ made' \in Made /\ made'.options = o
             /\ made'.roots # "none" /\ pin' \in {"none", made'.leaf}
  <2>1. anchors \in Anchors /\ anchors # NoAnchors
    BY <1>4 DEF TrustOK, Accepts
  <2>2. anchors.roots # "none"
    BY <2>1 DEF TrustOK, StoreOwnsAnchors, Anchors, NoAnchors
  <2>3. anchors.roots \in Stores \cup {"none"}
    BY <2>1 DEF Anchors
  <2>4. made' \in Made
    BY <1>4, <2>3 DEF Made
  <2> QED BY <1>4, <2>2, <2>4 DEF Accepts
<1> QED BY <1>1, <1>2, <1>3, <1>4 DEF Establishes

LEMMA ConnectOK ==
    ASSUME WrapperAssumption, TrustOK, NetworkOK, ConnectionOK,
           NEW o \in Configured, Connect(o)
    PROVE  ConnectionOK'
<1>0. ASSUME UNCHANGED connection, UNCHANGED network PROVE ConnectionOK'
  BY <1>0 DEF connection, network, ConnectionOK, ConnectionTyped, SocketFollowsTls, PolicyInForce
<1>1. CASE (\E host \in BOOLEAN : ConnectRefused(o, host)) \/ ConnectKept(o)
  BY <1>0, <1>1 DEF ConnectRefused, ConnectKept, Connecting
<1>2. CASE ConnectBadGroup(o) \/ ConnectNoSocket(o)
  <2>1. tls' = "IDLE" /\ ~socketOpen' /\ UNCHANGED <<active, made>> /\ pin' \in {pin, o.pin}
    BY <1>2, PreparedIsIdle DEF ConnectBadGroup, ConnectNoSocket, PinOf
  <2>2. ConnectionTyped'
    BY <1>2, <2>1, ConfiguredTyped
       DEF ConnectionTyped, ConnectionOK, Tls!Settled, ConnectBadGroup, ConnectNoSocket
  <2> QED BY <2>1, <2>2, NotConnectedOK
<1>3. CASE ConnectNoHandshake(o)
  <2>1. tls' = "FAILED" /\ socketOpen' = FALSE /\ UNCHANGED <<active, made>> /\ pin' = o.pin
    BY <1>3, HandshakeOutcome DEF ConnectNoHandshake, Handshake, PinOf
  <2>2. ConnectionTyped'
    BY <2>1, ConfiguredTyped DEF ConnectionTyped, ConnectionOK, Tls!Settled
  <2> QED BY <2>1, <2>2, NotConnectedOK
<1>4. CASE ConnectWrongAlpn(o)
  <2>1. tls' = "CLOSED" /\ socketOpen' = FALSE /\ Establishes(o)
    BY <1>4 DEF ConnectWrongAlpn, Tls!CloseOutcome, Tls!Ends
  <2>2. ConnectionTyped'
    BY <2>1, EstablishesOK DEF ConnectionTyped, Tls!Settled
  <2> QED BY <2>1, <2>2, NotConnectedOK
<1>5. CASE ConnectNoUpdate(o)
  <2>1. tls' = "FAILED" /\ socketOpen' = FALSE /\ Establishes(o)
    BY <1>5 DEF ConnectNoUpdate, Tls!WriteOutcomes, Tls!Broken, Tls!Ends
  <2>2. ConnectionTyped'
    BY <2>1, EstablishesOK DEF ConnectionTyped, Tls!Settled
  <2> QED BY <2>1, <2>2, NotConnectedOK
<1>6. CASE Connected(o)
  <2>1. tls' = "CONNECTED" /\ socketOpen' = TRUE /\ Establishes(o)
    BY <1>6 DEF Connected
  <2>2. ConnectionTyped'
    BY <2>1, EstablishesOK DEF ConnectionTyped, Tls!Settled
  <2>3. PolicyInForce'
    BY <2>1, EstablishesOK DEF PolicyInForce
  <2>4. SocketFollowsTls' /\ network_started'
    BY <2>1, EstablishesOK DEF SocketFollowsTls
  <2> QED BY <2>2, <2>3, <2>4 DEF ConnectionOK
<1> QED BY <1>1, <1>2, <1>3, <1>4, <1>5, <1>6 DEF Connect

LEMMA ConnectionStep ==
    ASSUME WrapperAssumption, TrustOK, NetworkOK, ConnectionOK, [Next]_vars
    PROVE  ConnectionOK'
<1>0. ASSUME UNCHANGED connection, network_started => network_started' PROVE ConnectionOK'
  BY <1>0 DEF connection, ConnectionOK, ConnectionTyped, SocketFollowsTls, PolicyInForce
<1>1. ASSUME NEW o \in Configured, Connect(o) PROVE ConnectionOK'
  BY <1>1, ConnectOK
<1>2. CASE InitializeNoNetwork
  BY <1>0, <1>2 DEF InitializeNoNetwork
<1>3. ASSUME NEW f \in Files, InitializeDone(f) PROVE ConnectionOK'
  BY <1>0, <1>3 DEF InitializeDone
<1>4. ASSUME NEW f \in Files, InitializeNoStore(f) PROVE ConnectionOK'
  BY <1>4, DisconnectOK DEF InitializeNoStore
<1>5. ASSUME NEW outcomes \in SUBSET Tls!ReadOutcomes(tls), Exchange(outcomes)
      PROVE  ConnectionOK'
  <2>1. PICK o \in outcomes : /\ tls' = o.state
                              /\ socketOpen' = (socketOpen /\ o.state = "CONNECTED")
    BY <1>5 DEF Exchange
  <2>2. o.state \in Tls!Settled /\ (o.state = "CONNECTED" => tls = "CONNECTED")
    BY <1>5, <2>1, WriteOutcome DEF ConnectionOK, ConnectionTyped
  <2>3. UNCHANGED <<active, pin, made, network_started>>
    BY <1>5 DEF Exchange, network
  <2>4. ConnectionTyped'
    BY <2>1, <2>2, <2>3 DEF ConnectionOK, ConnectionTyped
  <2>5. SocketFollowsTls' /\ PolicyInForce'
    BY <2>1, <2>2, <2>3 DEF ConnectionOK, SocketFollowsTls, PolicyInForce
  <2>6. socketOpen' => network_started'
    BY <2>1, <2>3 DEF ConnectionOK
  <2> QED BY <2>4, <2>5, <2>6 DEF ConnectionOK
<1>6. CASE Write \/ Receive
  BY <1>5, <1>6 DEF Write, Receive, Tls!ReadOutcomes
<1>7. ASSUME NEW f \in Files, Reload(f) PROVE ConnectionOK'
  BY <1>0, <1>7 DEF Reload, network
<1>8. CASE Close
  BY <1>8, DisconnectOK DEF Close
<1>9. CASE Shutdown
  BY <1>9, DisconnectOK DEF Shutdown, TearDown
<1>10. CASE ResetStats
  BY <1>0, <1>10 DEF ResetStats, network
<1>11. CASE UNCHANGED vars
  BY <1>0, <1>11 DEF vars, network
<1> QED BY <1>1, <1>2, <1>3, <1>4, <1>6, <1>7, <1>8, <1>9, <1>10, <1>11 DEF Next, Initialize

-----------------------------------------------------------------------------
(* Theorems *)

InStep == TrustOK /\ NetworkOK /\ ConnectionOK

LEMMA InStepInvariant == Spec => []InStep
<1>1. Init => InStep
  <2> SUFFICES ASSUME Init PROVE InStep
    OBVIOUS
  <2>1. TrustOK
    BY DEF Init, TrustOK, StoreOwnsAnchors, Anchors, NoAnchors, Blobs
  <2>2. NetworkOK
    BY DEF Init, NetworkOK
  <2>3. ConnectionTyped
    BY DEF Init, ConnectionTyped, NotMade, Made, Configured, Tls!Settled
  <2>4. SocketFollowsTls /\ PolicyInForce
    BY DEF Init, SocketFollowsTls, PolicyInForce
  <2> QED BY <2>1, <2>2, <2>3, <2>4 DEF Init, InStep, ConnectionOK
<1>2. InStep /\ [Next]_vars => InStep'
  BY TrustStep, NetworkStep, ConnectionStep, WrapperAssumption DEF InStep
<1> QED BY <1>1, <1>2, PTL DEF Spec

\* What the methods report and are called with.
Reports == Failures \cup {"OK", "INVALID_ARGUMENT", "CLOSED", "IO", "VERIFY", "BAD_HANDSHAKE",
                          "BUFFER_TOO_SMALL"}
ReportsOK == last_error \in Reports /\ called \in Calls

LEMMA CallTyped ==
    /\ \A m \in {"none", "initialize", "exchange", "reload", "close", "shutdown", "reset_stats"} :
          Call(m) \in Calls
    /\ \A o \in Configured, h \in BOOLEAN : ConnectCall(o, h) \in Calls
  BY DEF Call, ConnectCall, Calls, Configured

LEMMA ReportsStep == ASSUME ConnectionTyped, ReportsOK, [Next]_vars PROVE ReportsOK'
<1>0. \A f \in Files : FileError(f) \in Reports
  BY DEF Files, FileError, Reports
<1>1. CloseOutcome.result \in Reports
  BY DEF CloseOutcome, Tls!CloseOutcome, Tls!ResetOutcome, Tls!Ends, Reports
<1>2. ASSUME NEW o \in Configured, Connect(o) PROVE ReportsOK'
  <2>1. called' \in Calls
    BY <1>2, CallTyped
       DEF Connect, ConnectRefused, ConnectKept, ConnectBadGroup, ConnectNoSocket,
           ConnectNoHandshake, ConnectWrongAlpn, ConnectNoUpdate, Connected, Establishes,
           Handshake, Proceeds, Connecting
  <2>2. \A h \in Tls!WriteOutcomes("CONNECTED") : h.result \in Reports
    BY DEF Tls!WriteOutcomes, Tls!Broken, Tls!Ends, Reports
  <2>3. \A h \in Tls!ConnectOutcomes(Prepared(o), TRUE) : h.result \in Reports
    BY HandshakeOutcome DEF Reports
  <2>4. last_error' \in Reports
    BY <1>2, <2>2, <2>3
       DEF Connect, ConnectRefused, ConnectKept, ConnectBadGroup, ConnectNoSocket,
           ConnectNoHandshake, ConnectWrongAlpn, ConnectNoUpdate, Connected, FailsAs, remember,
           Reports
  <2> QED BY <2>1, <2>4 DEF ReportsOK
<1>3. CASE Initialize
  BY <1>0, <1>3, CallTyped
     DEF Initialize, InitializeNoNetwork, InitializeDone, InitializeNoStore, remember, ReportsOK,
         Reports
<1>4. ASSUME NEW outcomes \in SUBSET Tls!ReadOutcomes(tls), Exchange(outcomes) PROVE ReportsOK'
  <2>1. \A o \in outcomes : o.result \in Reports
    BY WriteOutcome DEF ConnectionTyped, Reports
  <2> QED BY <1>4, <2>1, CallTyped DEF Exchange, remember, ReportsOK
<1>5. CASE Write \/ Receive
  BY <1>4, <1>5 DEF Write, Receive, Tls!ReadOutcomes
<1>6. CASE \E f \in Files : Reload(f)
  BY <1>0, <1>6, CallTyped DEF Reload, remember, ReportsOK, Reports
<1>7. CASE Close \/ Shutdown
  BY <1>1, <1>7, CallTyped DEF Close, Shutdown, remember, ReportsOK
<1>8. CASE ResetStats
  BY <1>8, CallTyped DEF ResetStats, ReportsOK
<1>9. CASE UNCHANGED vars
  BY <1>9 DEF vars, ReportsOK
<1> QED BY <1>2, <1>3, <1>5, <1>6, <1>7, <1>8, <1>9 DEF Next

\* Every variable keeps its type; that the network's counts never go below zero rests on
\* their balance.
THEOREM TypeCorrect == Spec => []TypeOK
<1>1. Init => CountersOK /\ ReportsOK
  BY CallTyped DEF Init, NoStats, CountersOK, CountersAddUp, Stats, ReportsOK, Reports
<1>2. CountersOK /\ [Next]_vars => CountersOK'
  BY CountersStep
<1>3. InStep /\ ReportsOK /\ [Next]_vars => ReportsOK'
  BY ReportsStep DEF InStep, ConnectionOK
<1>4. InStep /\ CountersOK /\ ReportsOK => TypeOK
  <2> SUFFICES ASSUME InStep, CountersOK, ReportsOK PROVE TypeOK
    OBVIOUS
  <2>1. net \in [xnet : Nat, wsa : Nat] /\ network_started \in BOOLEAN /\ initialized \in BOOLEAN
    BY DEF InStep, NetworkOK
  <2>2. heap \subseteq Blobs /\ store \in Blobs \cup {0} /\ anchors \in Anchors
    BY DEF InStep, TrustOK
  <2>3. /\ tls \in Tls!Settled /\ socketOpen \in BOOLEAN
        /\ pin \in Pins \cup {"none"} /\ active \in Configured /\ made \in Made
    BY DEF InStep, ConnectionOK, ConnectionTyped
  <2>4. stats \in Stats /\ kept \in Nat
    BY DEF CountersOK
  <2>5. last_error \in Reports /\ called \in Calls
    BY DEF ReportsOK
  <2> QED BY <2>1, <2>2, <2>3, <2>4, <2>5 DEF TypeOK, Reports
<1> QED BY <1>1, <1>2, <1>3, <1>4, InStepInvariant, PTL DEF Spec

\* For every set of options, pins, stores and failures, whichever step of whichever method
\* fails, the socket is open exactly while the TLS client is connected.
THEOREM SocketIsInStep == Spec => []SocketFollowsTls
<1>1. InStep => SocketFollowsTls
  BY DEF InStep, ConnectionOK
<1> QED BY <1>1, InStepInvariant, PTL

\* The network is started and cleaned up in pairs and outlives every socket.
THEOREM NetworkIsBalanced == Spec => []NetworkBalanced
<1>1. InStep => NetworkBalanced
  BY DEF InStep, NetworkOK, ConnectionOK, NetworkBalanced
<1> QED BY <1>1, InStepInvariant, PTL

\* A live connection runs under the options and the pin it was made with.
THEOREM PolicyHolds == Spec => []PolicyInForce
<1>1. InStep => PolicyInForce
  BY DEF InStep, ConnectionOK
<1> QED BY <1>1, InStepInvariant, PTL

\* A connect() that reports an error leaves no connection, or the one it refused to touch.
THEOREM FailuresLeaveNothing == Spec => FailedConnectLeavesNothing
<1> DEFINE Step == called'.method = "connect" /\ last_error' # "OK" =>
                     \/ tls' # "CONNECTED" /\ ~socketOpen'
                     \/ /\ UNCHANGED connection
                        /\ ~called'.host \/ ~called'.options.reconnect
<1>1. ASSUME InStep, InStep', [Next]_vars PROVE [Step]_vars
  <2>0. socketOpen' => tls' = "CONNECTED"
    BY <1>1 DEF InStep, ConnectionOK, SocketFollowsTls
  <2>1. ASSUME NEW o \in Configured, Connect(o), last_error' # "OK", tls' = "CONNECTED"
        PROVE  /\ UNCHANGED connection
               /\ ~called'.host \/ ~called'.options.reconnect
    <3>1. ASSUME NEW host \in BOOLEAN, ConnectRefused(o, host)
          PROVE  UNCHANGED connection /\ ~called'.host
      <4>1. initialized
        BY <1>1, <2>1, <3>1
           DEF ConnectRefused, connection, InStep, ConnectionOK, SocketFollowsTls, NetworkOK
      <4> QED BY <3>1, <4>1 DEF ConnectRefused, Connecting, ConnectCall
    <3>2. CASE ConnectKept(o)
      BY <3>2 DEF ConnectKept, Connecting, ConnectCall
    <3>3. ~ConnectBadGroup(o) /\ ~ConnectNoSocket(o)
      BY <2>1, PreparedIsIdle DEF ConnectBadGroup, ConnectNoSocket
    <3>4. ~ConnectNoHandshake(o)
      BY <2>1, HandshakeOutcome DEF ConnectNoHandshake
    <3>5. ~ConnectWrongAlpn(o)
      BY <2>1 DEF ConnectWrongAlpn, Tls!CloseOutcome, Tls!Ends
    <3>6. ~ConnectNoUpdate(o)
      BY <2>1 DEF ConnectNoUpdate, Tls!WriteOutcomes, Tls!Broken, Tls!Ends
    <3>7. ~Connected(o)
      BY <2>1 DEF Connected, remember
    <3> QED BY <2>1, <3>1, <3>2, <3>3, <3>4, <3>5, <3>6, <3>7 DEF Connect
  <2>2. CASE ~\E o \in Configured : Connect(o)
    <3>1. Next => called'.method # "connect"
      BY <2>2 DEF Next, Initialize, InitializeNoNetwork, InitializeDone, InitializeNoStore,
         Write, Receive, Exchange, Reload, Close, Shutdown, ResetStats, Call
    <3> QED BY <1>1, <3>1
  <2> QED BY <2>0, <2>1, <2>2
<1>2. Spec => [][Step]_vars
  BY <1>1, InStepInvariant, PTL DEF Spec
<1> QED BY <1>2 DEF FailedConnectLeavesNothing

\* The object can be used again: connect() is never refused for the state the TLS client was
\* left in, however the last connection ended, nor for what the wrapper itself left behind.
THEOREM ConnectsReachNetwork == Spec => ConnectReachesNetwork
<1> DEFINE Step == /\ called'.method = "connect" /\ initialized /\ tls # "CONNECTED"
                   /\ called'.host /\ called'.options.group
                   => last_error' # "INVALID_ARGUMENT"
<1>1. ASSUME [Next]_vars, ~UNCHANGED vars PROVE Step
  <2>1. ASSUME NEW o \in Configured, Connect(o), initialized, tls # "CONNECTED",
               called'.host, called'.options.group
        PROVE  last_error' # "INVALID_ARGUMENT"
    <3>1. ASSUME NEW host \in BOOLEAN PROVE ~ConnectRefused(o, host)
      BY <2>1 DEF ConnectRefused, Connecting, ConnectCall
    <3>2. ~ConnectKept(o)
      BY <2>1 DEF ConnectKept
    <3>3. ~ConnectBadGroup(o)
      BY <2>1 DEF ConnectBadGroup, Proceeds, Connecting, ConnectCall
    <3>4. CASE ConnectNoSocket(o)
      BY <3>4 DEF ConnectNoSocket, FailsAs, remember
    <3>5. CASE ConnectNoHandshake(o)
      <4>1. PICK h \in Tls!ConnectOutcomes(Prepared(o), TRUE) : h.result # "OK" /\ FailsAs(h.result)
        BY <3>5 DEF ConnectNoHandshake
      <4>2. h.result \in Failures
        BY <4>1, HandshakeOutcome
      <4> QED BY <4>1, <4>2, WrapperAssumption DEF FailsAs, remember, WrapperAssumption
    <3>6. CASE ConnectWrongAlpn(o)
      BY <3>6 DEF ConnectWrongAlpn, FailsAs, remember
    <3>7. CASE ConnectNoUpdate(o)
      <4>1. PICK u \in Tls!WriteOutcomes("CONNECTED") : u.result # "OK" /\ FailsAs(u.result)
        BY <3>7 DEF ConnectNoUpdate
      <4>2. u.result \in Failures
        BY <4>1 DEF Tls!WriteOutcomes, Tls!Broken, Tls!Ends
      <4> QED BY <4>1, <4>2, WrapperAssumption DEF FailsAs, remember, WrapperAssumption
    <3>8. CASE Connected(o)
      BY <3>8 DEF Connected, remember
    <3> QED BY <2>1, <3>1, <3>2, <3>3, <3>4, <3>5, <3>6, <3>7, <3>8 DEF Connect
  <2>2. CASE ~\E o \in Configured : Connect(o)
    <3>1. Next => called'.method # "connect"
      BY <2>2 DEF Next, Initialize, InitializeNoNetwork, InitializeDone, InitializeNoStore,
         Write, Receive, Exchange, Reload, Close, Shutdown, ResetStats, Call
    <3> QED BY <1>1, <3>1
  <2> QED BY <2>1, <2>2
<1>2. [Next]_vars => [Step]_vars
  BY <1>1
<1>3. Spec => [][Step]_vars
  BY <1>2, PTL DEF Spec
<1> QED BY <1>3 DEF ConnectReachesNetwork

=============================================================================
