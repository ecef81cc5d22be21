------------------------------ MODULE TlsSession ------------------------------
(***************************************************************************)
(* One connection of a TlsClient with an honest server over two reliable   *)
(* streams that may break at any time.                                     *)
(*                                                                         *)
(* The client is module TlsClient: its actions read the records the server *)
(* wrote, in order, and the server reads "out".  The server is external:   *)
(* an endpoint of RFC 8446 with its own transcript and keys, which cuts    *)
(* and packs its handshake messages as it likes, may send data before it   *)
(* has seen the client's Finished, updates its keys and asks for updates.  *)
(***************************************************************************)
EXTENDS TlsClient

CONSTANTS
    ServerGroups,   \* groups the server supports
    ServerChain,    \* the chain it presents
    ServerAlpns,    \* what it may answer to the ALPN offer
    Cuts,           \* whether it cuts messages and puts two in a record
    Breaks          \* whether the streams may fail

ASSUME SessionAssumption ==
    /\ ServerGroups \subseteq Groups /\ ServerGroups # {}
    /\ ServerChain \in Trusted /\ ServerAlpns \subseteq {"none", "alpn"}
    /\ Cuts \in BOOLEAN /\ Breaks \in BOOLEAN
    /\ MaxConns <= 1            \* the server answers one connection
    /\ DeframerCapacity >= 3    \* half a message and what one record holds behind it

VARIABLES
    phase,          \* the server's: hello, flight, finished, connected, closed, failed
    srvTranscript,
    srvKeys,
    left,           \* messages of its flight still to write
    held,           \* fragments written but not yet put in a record
    srvSent,        \* data it sent
    srvGot,         \* data it received
    owes,           \* it has been asked for a KeyUpdate and not answered
    srvEnded,       \* it has sent close_notify
    toClient,       \* records it wrote and the client has not read
    readUpTo,       \* records of the client it has read
    broken,         \* the streams have failed
    told            \* history: recv() has reported the server's close_notify

serverVars  == <<phase, srvTranscript, srvKeys, left, held, srvSent, srvGot, owes, srvEnded,
                 readUpTo>>
sessionVars == <<vars, serverVars, toClient, broken, told>>

-----------------------------------------------------------------------------
(* The client: its actions on streams that fail only when they are broken.  The calls    *)
(* that it refuses change nothing but their result and are left to module TlsClient.     *)

Reliable(ok) == ok \/ broken

ClientCall ==
    \/ \E g \in Groups : Connect(g)
    \/ \E n \in 1..2 : Send(n)
    \/ \E request, ok \in BOOLEAN : Reliable(ok) /\ KeyUpdate(request, ok)
    \/ \E ok \in BOOLEAN : Reliable(ok) /\ Close(ok)
    \/ Reset

\* The calls of an application that goes on reading.
ClientRecv == \E n \in 1..2 : RecvPending(n) \/ RecvStart(n)

ClientLocalStep ==
    \/ HelloRejected
    \/ \E ok \in BOOLEAN : Reliable(ok) /\ HelloRetry(ok)
    \/ ServerHello
    \/ FlightRejected
    \/ EncryptedExtensions \/ Certificate \/ CertificateVerify
    \/ \E ok \in BOOLEAN : Reliable(ok) /\ Finished(ok)
    \/ PostDone \/ NewSessionTicket \/ PostRejected
    \/ PeerKeyUpdate \/ PeerKeyUpdateRequested
    \/ broken /\ PeerKeyUpdateFails
    \/ \E ok \in BOOLEAN : Reliable(ok) /\ SendChunk(ok)
    \/ SendDone

Calls == (ClientCall \/ ClientRecv) /\ UNCHANGED <<serverVars, toClient, broken, told>>
Runs  == ClientLocalStep /\ UNCHANGED <<serverVars, toClient, broken, told>>
Reads ==
    /\ toClient # <<>> /\ Receive(Head(toClient))
    /\ toClient' = Tail(toClient)
    /\ told' = (told \/ (state = "CONNECTED" /\ state' = "CLOSED"))
    /\ UNCHANGED <<serverVars, broken>>
ReadsNothing == broken /\ ReadFails("IO") /\ UNCHANGED <<serverVars, toClient, broken, told>>

-----------------------------------------------------------------------------
(* The server *)

\* Its key schedule (RFC 8446, sections 5.3 and 7), stated apart from the client's.
KeyOver(slot, th) == [label |-> slot, th |-> th, gen |-> 0, seq |-> 0]
AfterRecord(k)    == [k EXCEPT !.seq = @ + 1]
AfterUpdate(k)    == [k EXCEPT !.gen = @ + 1, !.seq = 0]

Flight == <<"encrypted_extensions", "certificate", "certificate_verify", "finished">>

ClientHellos == phase = "hello" /\ readUpTo < Len(out)
HelloRead    == out[readUpTo + 1].hs[1].msg

\* The server's answer is all it puts in that record.
Answer(m, th) ==
    /\ srvTranscript' = th
    /\ toClient' = Append(toClient, PlainHandshake(<<Whole(m)>>))
    /\ readUpTo' = readUpTo + 1
    /\ UNCHANGED <<vars, held, srvSent, srvGot, owes, srvEnded, broken, told>>

ServerRetries ==
    /\ ClientHellos /\ HelloRead.val \notin ServerGroups
    /\ \E g \in ServerGroups :
          LET m == Msg("hello_retry_request", g, 0) IN
          Answer(m, srvTranscript \o <<EntryOf(HelloRead), EntryOf(m)>>)
    /\ UNCHANGED <<phase, srvKeys, left>>

ServerSaysHello ==
    /\ ClientHellos /\ HelloRead.val \in ServerGroups
    /\ LET m  == Msg("server_hello", HelloRead.val, 0)
           th == srvTranscript \o <<EntryOf(HelloRead), EntryOf(m)>>
       IN  /\ Answer(m, th)
           /\ srvKeys' = [srvKeys EXCEPT !["client_hs"] = KeyOver("client_hs", th),
                                         !["server_hs"] = KeyOver("server_hs", th)]
    /\ phase' = "flight" /\ left' = Flight

FlightMessage(type) ==
    CASE type = "encrypted_extensions" -> {Msg(type, v, 0) : v \in ServerAlpns}
      [] type = "certificate"          -> {Msg(type, ServerChain, 0)}
      [] type = "certificate_verify"   -> {Covering(type, ServerChain, srvTranscript)}
      [] type = "finished"             -> {Covering(type, "server", srvTranscript)}

CutsOf(m) == {<<Whole(m)>>} \cup IF Cuts THEN {<<Cut(m, "head"), Cut(m, "tail")>>} ELSE {}

ServerPrepares ==
    /\ phase = "flight" /\ left # <<>> /\ Len(held) < 2
    /\ \E m \in FlightMessage(Head(left)) : \E fs \in CutsOf(m) :
          /\ held' = held \o fs
          /\ srvTranscript' = Append(srvTranscript, EntryOf(m))
    /\ left' = Tail(left)
    /\ UNCHANGED <<vars, phase, srvKeys, srvSent, srvGot, owes, srvEnded, readUpTo, toClient,
                   broken, told>>

\* With the last record of the flight the application keys of both directions are there.
ServerSends ==
    /\ phase = "flight" /\ held # <<>>
    /\ \E n \in 1..(IF Cuts THEN Least(2, Len(held)) ELSE 1) :
          /\ toClient' = Append(toClient, ProtectedHandshake(srvKeys["server_hs"],
                                                             SubSeq(held, 1, n)))
          /\ held' = SubSeq(held, n + 1, Len(held))
    /\ IF left = <<>> /\ held' = <<>>
         THEN /\ phase' = "finished"
              /\ srvKeys' = [srvKeys EXCEPT
                    !["server_hs"] = AfterRecord(@),
                    !["client_app"] = KeyOver("client_app", srvTranscript),
                    !["server_app"] = KeyOver("server_app", srvTranscript)]
         ELSE srvKeys' = [srvKeys EXCEPT !["server_hs"] = AfterRecord(@)] /\ UNCHANGED phase
    /\ UNCHANGED <<vars, srvTranscript, left, srvSent, srvGot, owes, srvEnded, readUpTo,
                   broken, told>>

FromClient == out[readUpTo + 1]

ServerReadsFinished ==
    /\ phase = "finished" /\ readUpTo < Len(out)
    /\ LET fin == Covering("finished", "client", srvTranscript) IN
       IF FromClient.key = srvKeys["client_hs"] /\ FromClient.hs = <<Whole(fin)>>
         THEN phase' = "connected" /\ srvTranscript' = Append(srvTranscript, EntryOf(fin))
         ELSE phase' = "failed" /\ UNCHANGED srvTranscript
    /\ readUpTo' = readUpTo + 1
    /\ UNCHANGED <<vars, srvKeys, left, held, srvSent, srvGot, owes, srvEnded, toClient, broken,
                   told>>

ServerReads ==
    /\ phase = "connected" /\ readUpTo < Len(out)
    /\ readUpTo' = readUpTo + 1
    /\ LET opened == srvKeys["client_app"] IN
       \/ /\ FromClient.key = opened /\ FromClient.inner = "application_data"
          /\ srvGot' = srvGot \o FromClient.data
          /\ srvKeys' = [srvKeys EXCEPT !["client_app"] = AfterRecord(@)]
          /\ UNCHANGED <<phase, owes>>
       \/ /\ FromClient.key = opened /\ FromClient.inner = "handshake"
          /\ FromClient.hs[1].msg.type = "key_update"
          /\ srvKeys' = [srvKeys EXCEPT !["client_app"] = AfterUpdate(@)]
          /\ owes' = (owes \/ FromClient.hs[1].msg.n = 1)
          /\ UNCHANGED <<phase, srvGot>>
       \/ /\ FromClient.key = opened /\ FromClient.alert = "close_notify"
          /\ phase' = "closed" /\ UNCHANGED <<srvKeys, srvGot, owes>>
       \/ /\ FromClient.key # opened
          /\ phase' = "failed" /\ UNCHANGED <<srvKeys, srvGot, owes>>
    /\ UNCHANGED <<vars, srvTranscript, left, held, srvSent, srvEnded, toClient, broken, told>>

MayWrite == phase \in {"finished", "connected"} /\ ~srvEnded

\* A record under the application key; next is that key afterwards.
Writes(r, next) ==
    /\ toClient' = Append(toClient, r)
    /\ srvKeys' = [srvKeys EXCEPT !["server_app"] = next]
    /\ UNCHANGED <<vars, phase, srvTranscript, left, held, srvGot, readUpTo, broken, told>>

ServerData ==
    /\ MayWrite /\ ~owes
    /\ \E n \in 1..(MaxUnits - Len(srvSent)) :
          LET d == [i \in 1..n |-> Len(srvSent) + i]  k == srvKeys["server_app"] IN
          Writes(ProtectedData(k, d), AfterRecord(k)) /\ srvSent' = srvSent \o d
    /\ UNCHANGED <<owes, srvEnded>>

ServerTicket ==
    /\ MayWrite /\ phase = "connected" /\ srvKeys["server_app"].seq < MaxRecords
    /\ LET k == srvKeys["server_app"] IN
       Writes(ProtectedHandshake(k, <<Whole(Msg("new_session_ticket", "none", 0))>>), AfterRecord(k))
    /\ UNCHANGED <<srvSent, owes, srvEnded>>

ServerUpdates(request) ==
    /\ MayWrite /\ phase = "connected" /\ srvKeys["server_app"].gen < MaxGen
    /\ LET k == srvKeys["server_app"] IN
       Writes(ProtectedHandshake(k, <<Whole(KeyUpdateMsg(request))>>), AfterUpdate(k))
    /\ UNCHANGED <<srvSent, owes, srvEnded>>

ServerAnswers ==
    /\ MayWrite /\ owes
    /\ LET k == srvKeys["server_app"] IN
       Writes(ProtectedHandshake(k, <<Whole(KeyUpdateMsg(FALSE))>>), AfterUpdate(k))
    /\ owes' = FALSE /\ UNCHANGED <<srvSent, srvEnded>>

ServerCloses ==
    /\ MayWrite /\ ~owes
    /\ LET k == srvKeys["server_app"] IN Writes(ProtectedAlert(k, "close_notify"), AfterRecord(k))
    /\ srvEnded' = TRUE /\ UNCHANGED <<srvSent, owes>>

-----------------------------------------------------------------------------
(* The specification *)

StreamBreaks == Breaks /\ ~broken /\ broken' = TRUE /\ UNCHANGED <<vars, serverVars, toClient, told>>

SessionInit ==
    /\ Init
    /\ phase = "hello" /\ srvTranscript = <<>> /\ srvKeys = Wiped /\ left = <<>> /\ held = <<>>
    /\ srvSent = <<>> /\ srvGot = <<>> /\ owes = FALSE /\ srvEnded = FALSE
    /\ toClient = <<>> /\ readUpTo = 0 /\ broken = FALSE /\ told = FALSE

\* What a server owes its peer: the handshake, reading what comes, the KeyUpdate asked for.
ServerDuty ==
    \/ ServerRetries \/ ServerSaysHello \/ ServerPrepares \/ ServerSends
    \/ ServerReadsFinished \/ ServerReads \/ ServerAnswers

ServerWish ==
    \/ ServerData \/ ServerTicket \/ ServerCloses
    \/ \E request \in BOOLEAN : ServerUpdates(request)

SessionNext == Calls \/ Runs \/ Reads \/ ReadsNothing \/ ServerDuty \/ ServerWish \/ StreamBreaks

\* A call that runs goes on, and reads what has arrived; the server does its duty.
Fairness == WF_sessionVars(Runs) /\ WF_sessionVars(Reads) /\ WF_sessionVars(ServerDuty)

\* The application comes back to recv(), whatever else it calls.
Reading == SF_sessionVars(ClientRecv /\ UNCHANGED <<serverVars, toClient, broken, told>>)

SessionSpec == SessionInit /\ [][SessionNext]_sessionVars /\ Fairness /\ Reading

-----------------------------------------------------------------------------
(* Properties *)

\* The client accepts whatever this server sends, in every crossing of data, tickets, key
\* updates and closes: its connection fails only when the stream does.  The server can
\* decrypt and accepts whatever the client sends.  (The server asks for no certificate,
\* retries only to change the group and sends no change_cipher_spec.)
HonestEndsNeverFail == /\ state = "FAILED" => broken
                       /\ phase # "failed"

\* When nothing is on the way and no call is running, both ends hold the same application
\* keys, generation and sequence number included, over the same transcript.
EndsAgree ==
    state = "CONNECTED" /\ call.loop = "none" /\ phase = "connected"
    /\ toClient = <<>> /\ readUpTo = Len(out) /\ buf = <<>> =>
        /\ transcript = srvTranscript
        /\ \A s \in {"client_app", "server_app"} : keys[s] = srvKeys[s]

\* A connection that is up is with that server, over a group it supports, with the ALPN
\* it chose, and over the transcript it has, a HelloRetryRequest included.
ConnectedToServer ==
    state = "CONNECTED" =>
        /\ authentic = ServerChain /\ share \in ServerGroups
        /\ phase \in {"finished", "connected", "closed"}
        /\ SubSeq(transcript, 1, Len(transcript) - 1) = SubSeq(srvTranscript, 1, Len(transcript) - 1)
        /\ \E i \in 1..Len(srvTranscript) :
              srvTranscript[i].type = "encrypted_extensions" /\ alpn = srvTranscript[i].val

\* connect() returns, with a connection unless the stream breaks.
ConnectSucceeds == (call.loop \in {"hello", "flight"}) ~> (state = "CONNECTED" \/ broken)

\* What either application sends is received by the other, and the end the server announces
\* behind its data is reported, unless the stream breaks or the client ends the connection
\* itself.
EverythingArrives ==
    /\ \A k \in 1..MaxUnits : (accepted = k) ~> (Len(srvGot) >= k \/ broken)
    /\ \A k \in 1..MaxUnits :
          (Len(srvSent) = k) ~> (Len(got) >= k \/ broken \/ state \in {"CLOSED", "IDLE"})
    /\ srvEnded ~> (told \/ broken \/ state \in {"CLOSED", "IDLE"})

\* What both applications see is a secure stream.
Stream == INSTANCE SecureStream WITH
    Ends     <- {"client", "server"},
    MaxSend  <- MaxUnits,
    open     <- [client |-> conn > 0 /\ \E i \in 1..Len(out) : out[i].key.label = "client_hs",
                 server |-> phase \notin {"hello", "flight"}],
    sent     <- [client |-> [i \in 1..accepted |-> i], server |-> srvSent],
    received <- [client |-> srvGot, server |-> got],
    ended    <- [client |-> \E i \in 1..Len(out) : out[i].inner = "alert", server |-> srvEnded],
    told     <- [client |-> phase = "closed", server |-> told]
ImplementsSecureStream == Stream!Spec

=============================================================================
