--------------------------- MODULE TlsClientProofs ---------------------------
(***************************************************************************)
(* Theorems about TlsClient, for every value of its constants, in three    *)
(* parts: the client as an object (type correctness, the wiping of         *)
(* secrets, the nesting of the blocking calls, the uniqueness of record    *)
(* nonces); one connection of it (what its keys, its authentication and    *)
(* its records have to do with the messages hashed); and that it           *)
(* implements ClientLifecycle.                                             *)
(***************************************************************************)
EXTENDS TlsClient, SequenceTheorems, FiniteSetTheorems, TLAPS

-----------------------------------------------------------------------------
(* Lemmas about the data *)

LEMMA MessageTyped ==
    /\ \A m \in Message : EntryOf(m) \in Entry
    /\ \A t \in HandshakeTypes, v \in Values, n \in Nat : Msg(t, v, n) \in Message
    /\ \A t \in HandshakeTypes, v \in Values, th \in Seq(Entry) : Covering(t, v, th) \in Message
    /\ \A m \in Message, p \in {"whole", "head", "tail"} : Cut(m, p) \in Fragment
    /\ \A m \in Message : Whole(m) \in Fragment
<1>1. \A m \in Message : EntryOf(m) \in Entry
  BY DEF Message, EntryOf, Entry
<1>2. ASSUME NEW t \in HandshakeTypes, NEW v \in Values, NEW n \in Nat
      PROVE  Msg(t, v, n) \in Message
  <2>1. <<>> \in Seq(Entry)
    BY EmptySeq
  <2> QED
    BY <2>1 DEF Msg, Message
<1>3. ASSUME NEW t \in HandshakeTypes, NEW v \in Values, NEW th \in Seq(Entry)
      PROVE  Covering(t, v, th) \in Message
  BY DEF Covering, Message
<1>4. \A m \in Message, p \in {"whole", "head", "tail"} : Cut(m, p) \in Fragment
  BY DEF Cut, Fragment
<1>5. \A m \in Message : Whole(m) \in Fragment
  BY DEF Whole, Fragment
<1> QED
  BY <1>1, <1>2, <1>3, <1>4, <1>5

LEMMA OneMessageTyped ==
    ASSUME NEW m \in Message
    PROVE  <<Whole(m)>> \in Seq(Fragment)
<1>1. Whole(m) \in Fragment
  BY MessageTyped
<1> QED
  BY <1>1

LEMMA KeyTyped ==
    /\ Zero \in Key /\ Wiped \in [Slots -> Key]
    /\ \A k \in Key : Used(k) \in Key /\ Updated(k) \in Key
    /\ \A s \in Slots, th \in Seq(Entry) : Derive(s, th) \in Key
<1>1. Zero \in Key
  <2>1. <<>> \in Seq(Entry)
    BY EmptySeq
  <2> QED
    BY <2>1 DEF Zero, Key
<1>2. Wiped \in [Slots -> Key]
  BY <1>1 DEF Wiped
<1>3. ASSUME NEW k \in Key PROVE Used(k) \in Key /\ Updated(k) \in Key
  <2>1. k.gen \in Nat /\ k.seq \in Nat
    BY DEF Key
  <2>2. k.gen + 1 \in Nat /\ k.seq + 1 \in Nat
    BY <2>1
  <2>3. Used(k) \in Key
    BY <2>2 DEF Key, Used
  <2>4. Updated(k) \in Key
    BY <2>2 DEF Key, Updated
  <2> QED
    BY <2>3, <2>4
<1>4. ASSUME NEW s \in Slots, NEW th \in Seq(Entry) PROVE Derive(s, th) \in Key
  BY DEF Key, Derive
<1> QED
  BY <1>1, <1>2, <1>3, <1>4

LEMMA RecordTyped ==
    /\ Blank \in Record
    /\ \A fs \in Seq(Fragment) : PlainHandshake(fs) \in Record
    /\ \A k \in Key, fs \in Seq(Fragment) : ProtectedHandshake(k, fs) \in Record
    /\ \A k \in Key, a \in Alerts : ProtectedAlert(k, a) \in Record
    /\ \A k \in Key, d \in Seq(Nat) : ProtectedData(k, d) \in Record
<1>1. Blank \in Record
  BY KeyTyped DEF Blank, Record, Alerts
<1> QED
  BY <1>1 DEF Record, PlainHandshake, ProtectedHandshake, ProtectedAlert, ProtectedData

LEMMA BufferTyped ==
    ASSUME NEW b \in Seq(Fragment), Complete(b)
    PROVE  First(b) \in Message /\ Rest(b) \in Seq(Fragment)
<1>1. b[1] \in Fragment
  BY DEF Complete
<1>2. CASE b[1].part = "whole"
  BY <1>1, <1>2 DEF Complete, First, Rest, Fragment
<1>3. CASE b[1].part # "whole"
  <2>1. Tail(b) \in Seq(Fragment) /\ Len(Tail(b)) = Len(b) - 1
    BY HeadTailProperties DEF Complete
  <2>2. Len(b) \in Nat /\ Len(b) > 1
    BY <1>3 DEF Complete
  <2>3. Tail(b) # <<>>
    <3>1. Len(<<>>) = 0
      OBVIOUS
    <3>2. Len(Tail(b)) # 0
      BY <2>1, <2>2, SMTT(30)
    <3> QED
      BY ONLY <3>1, <3>2
  <2>4. Tail(Tail(b)) \in Seq(Fragment)
    BY <2>1, <2>3, HeadTailProperties
  <2> QED
    BY <1>1, <1>3, <2>4 DEF First, Rest, Fragment
<1> QED
  BY <1>2, <1>3

LEMMA ErrorsTyped ==
    /\ \A m : HelloError(m) \in Errors
    /\ \A m : FlightError(m) \in Errors
    /\ \A a : AlertError(a) \in Errors
    /\ \A s, r : OpenError(s, r) \in Errors
    /\ ConnectErrors \subseteq Errors /\ RetryErrors \subseteq Errors /\ SendErrors \subseteq Errors
  BY DEF HelloError, FlightError, AlertError, OpenError, Errors, ConnectErrors, RetryErrors,
         SendErrors

LEMMA NamesTyped ==
    /\ {"client_hello", "server_hello", "hello_retry_request", "encrypted_extensions",
        "certificate", "certificate_verify", "finished", "new_session_ticket",
        "key_update", "other"} \subseteq HandshakeTypes
    /\ Groups \subseteq Values /\ Chains \subseteq Values
    /\ {"none", "malformed", "too_long", "unsupported", "bad_sid", "alpn", "client", "server"} \subseteq Values
    /\ 0 \in Nat /\ 1 \in Nat
  BY DEF HandshakeTypes, Values

LEMMA PeerMessagesTyped == TypeOK => PeerMessages \subseteq Message
<1> SUFFICES ASSUME TypeOK PROVE PeerMessages \subseteq Message
  OBVIOUS
<1> USE NamesTyped, MessageTyped
<1>1. HelloMessages \subseteq Message
  <2>1. ASSUME NEW t \in {"server_hello", "hello_retry_request"}, NEW g \in Groups, NEW n \in 0..1
        PROVE  Msg(t, g, n) \in Message
    <3>1. t \in HandshakeTypes
      OBVIOUS
    <3>2. g \in Values
      OBVIOUS
    <3>3. n \in Nat
      BY ONLY n \in 0..1
    <3> QED
      BY ONLY <3>1, <3>2, <3>3, MessageTyped
  <2>2. Hellos \subseteq Message
    BY ONLY <2>1 DEF Hellos
  <2>3. ASSUME NEW v \in {"unsupported", "malformed", "bad_sid"}
        PROVE  Msg("server_hello", v, 0) \in Message
    OBVIOUS
  <2>4. BrokenHellos \subseteq Message
    BY ONLY <2>3 DEF BrokenHellos
  <2>5. Msg("encrypted_extensions", "none", 0) \in Message
    OBVIOUS
  <2> QED
    BY ONLY <2>2, <2>4, <2>5 DEF HelloMessages
<1>2. FlightMessages \subseteq Message
  <2>1. Overs \subseteq Seq(Entry)
    BY EmptySeq DEF TypeOK, Overs
  <2>2. ASSUME NEW v \in {"server", "malformed"}, NEW th \in Overs
        PROVE  Covering("finished", v, th) \in Message
    BY <2>1
  <2>3. Finisheds \subseteq Message
    BY ONLY <2>2 DEF Finisheds
  <2>4. ASSUME NEW c \in Chains \cup {"malformed"}, NEW th \in Overs
        PROVE  Covering("certificate_verify", c, th) \in Message
    BY <2>1
  <2>5. CertificateVerifies \subseteq Message
    BY ONLY <2>4 DEF CertificateVerifies
  <2>6. Msg("key_update", "none", 0) \in Message
    OBVIOUS
  <2>7. ASSUME NEW v \in {"none", "alpn", "malformed"}
        PROVE  Msg("encrypted_extensions", v, 0) \in Message
    OBVIOUS
  <2>8. Extensions \subseteq Message
    BY ONLY <2>7 DEF Extensions
  <2>9. ASSUME NEW c \in Chains \cup {"malformed", "too_long"}
        PROVE  Msg("certificate", c, 0) \in Message
    OBVIOUS
  <2>10. Certificates \subseteq Message
    BY ONLY <2>9 DEF Certificates
  <2> QED
    BY ONLY <2>3, <2>5, <2>6, <2>8, <2>10 DEF FlightMessages
<1>3. PostMessages \subseteq Message
  <2>1. Msg("new_session_ticket", "none", 0) \in Message /\ Msg("other", "none", 0) \in Message
    OBVIOUS
  <2>2. Msg("key_update", "malformed", 0) \in Message
    OBVIOUS
  <2>3. ASSUME NEW req \in BOOLEAN PROVE KeyUpdateMsg(req) \in Message
    BY DEF KeyUpdateMsg
  <2> QED
    BY ONLY <2>1, <2>2, <2>3 DEF PostMessages
<1> QED
  BY ONLY <1>1, <1>2, <1>3 DEF PeerMessages

LEMMA PeerRecordsTyped == TypeOK => PeerRecords \subseteq Record
<1> SUFFICES ASSUME TypeOK PROVE PeerRecords \subseteq Record
  OBVIOUS
<1>1. PeerFragments \subseteq Seq(Fragment)
  <2>1. Trailers \subseteq Fragment
    <3>1. Whole(Msg("new_session_ticket", "none", 0)) \in Fragment
      BY NamesTyped, MessageTyped
    <3>2. Cut(KeyUpdateMsg(FALSE), "head") \in Fragment
      BY NamesTyped, MessageTyped DEF KeyUpdateMsg
    <3> QED
      BY ONLY <3>1, <3>2 DEF Trailers
  <2>2. NextFragments \subseteq Fragment
    <3>1. CASE buf # <<>> /\ buf[Len(buf)].part = "head"
      <4>1. Len(buf) \in 1..Len(buf)
        <5>1. Len(buf) \in Nat \ {0}
          BY <3>1, EmptySeq DEF TypeOK
        <5> QED
          BY <5>1
      <4>2. buf[Len(buf)] \in Fragment
        BY <4>1, ElementOfSeq DEF TypeOK
      <4>3. buf[Len(buf)].msg \in Message
        BY <4>2 DEF Fragment
      <4> QED
        BY <3>1, <4>3, MessageTyped DEF NextFragments
    <3>2. CASE ~(buf # <<>> /\ buf[Len(buf)].part = "head")
      <4>1. ASSUME NEW m \in PeerMessages, NEW p \in {"whole", "head"}
            PROVE  Cut(m, p) \in Fragment
        BY PeerMessagesTyped, MessageTyped
      <4> QED
        BY ONLY <3>2, <4>1 DEF NextFragments
    <3> QED
      BY <3>1, <3>2
  <2>3. <<>> \in Seq(Fragment)
    BY EmptySeq
  <2>4. ASSUME NEW f \in Enders, NEW g \in Trailers
        PROVE  <<f, g>> \in Seq(Fragment)
    <3>1. f \in Fragment /\ g \in Fragment
      BY <2>1, <2>2 DEF Enders
    <3> QED
      BY ONLY <3>1
  <2>5. Pairs \subseteq Seq(Fragment)
    BY ONLY <2>4, SMTT(30) DEF Pairs
  <2>6. ASSUME NEW f \in NextFragments PROVE <<f>> \in Seq(Fragment)
    BY <2>2
  <2>7. {<<f>> : f \in NextFragments} \subseteq Seq(Fragment)
    BY ONLY <2>6
  <2> QED
    BY ONLY <2>3, <2>5, <2>7 DEF PeerFragments
<1>2. ReadKey \in Key
  BY DEF TypeOK, ReadKey, Slots
<1>3. PeerData \subseteq Seq(Nat)
  <2>1. <<>> \in Seq(Nat) /\ <<1>> \in Seq(Nat) /\ <<1, 2>> \in Seq(Nat)
    OBVIOUS
  <2> QED
    BY <2>1 DEF PeerData
<1>4. \A i \in {"none", "invalid"} :
        [Blank EXCEPT !.outer = "change_cipher_spec", !.inner = i] \in Record
  BY RecordTyped DEF Record
<1>5. \A a \in Alerts : [Blank EXCEPT !.outer = "alert", !.alert = a] \in Record
  BY RecordTyped DEF Record
<1>6. \A i \in {"invalid", "change_cipher_spec"} :
        [Blank EXCEPT !.key = ReadKey, !.inner = i] \in Record
  BY RecordTyped, <1>2 DEF Record
<1> QED
  BY <1>1, <1>2, <1>3, <1>4, <1>5, <1>6, RecordTyped DEF PeerRecords

-----------------------------------------------------------------------------
(* Type correctness *)

LEMMA CallTyped ==
    /\ NoCall \in Call
    /\ \A c \in Call, l \in Loops : [c EXCEPT !.loop = l] \in Call
    /\ \A c \in Call, l \in Loops, n \in Nat :
         /\ [c EXCEPT !.loop = l, !.want = n] \in Call
         /\ [c EXCEPT !.loop = l, !.todo = n] \in Call
    /\ \A c \in Call, n \in Nat : [c EXCEPT !.todo = n] \in Call
    /\ \A c \in Call, x \in Chains : [c EXCEPT !.cert = x] \in Call
    /\ \A c \in Call, b \in BOOLEAN : [c EXCEPT !.hadHrr = b] \in Call
  BY DEF Call, NoCall, Loops

LEMMA FailTyped ==
    ASSUME NEW e \in Errors, Fail(e)
    PROVE  /\ state' \in States /\ keys' \in [Slots -> Key] /\ share' \in Groups \cup {"zero"}
           /\ streamOpen' \in BOOLEAN /\ call' \in Call /\ result' \in Errors
  BY KeyTyped, CallTyped DEF Fail, States

LEMMA NoteAlertTyped ==
    ASSUME TypeOK, NEW a, NoteAlert(a)
    PROVE  lastAlert' \in {"none", "close_notify", "other"}
  BY DEF TypeOK, NoteAlert

LEMMA KeysTyped ==
    ASSUME NEW ks \in [Slots -> Key], NEW s \in Slots
    PROVE  /\ [ks EXCEPT ![s] = Used(@)] \in [Slots -> Key]
           /\ [ks EXCEPT ![s] = Updated(@)] \in [Slots -> Key]
           /\ \A th \in Seq(Entry) : [ks EXCEPT ![s] = Derive(s, th)] \in [Slots -> Key]
  BY KeyTyped

LEMMA FirstHelloTyped ==
    ASSUME NEW g \in Groups, NEW n \in Nat
    PROVE  /\ Msg("client_hello", g, n) \in Message
           /\ EntryOf(Msg("client_hello", g, n)) \in Entry
           /\ PlainHandshake(<<Whole(Msg("client_hello", g, n))>>) \in Record
<1>1. Msg("client_hello", g, n) \in Message
  BY NamesTyped, MessageTyped
<1>3. <<Whole(Msg("client_hello", g, n))>> \in Seq(Fragment)
  BY <1>1, OneMessageTyped
<1> QED
  BY <1>1, <1>3, MessageTyped, RecordTyped

LEMMA InitTyped == Init => TypeOK
<1> SUFFICES ASSUME Init PROVE TypeOK
  OBVIOUS
<1>1. transcript \in Seq(Entry) /\ buf \in Seq(Fragment) /\ out \in Seq(Record)
  BY EmptySeq DEF Init
<1>2. pending \in Seq(Nat) /\ got \in Seq(Nat)
  BY EmptySeq DEF Init
<1>3. keys \in [Slots -> Key] /\ call \in Call
  BY KeyTyped, CallTyped DEF Init
<1> QED
  BY <1>1, <1>2, <1>3 DEF Init, TypeOK, States, Errors


LEMMA FailKeepsTypes ==
    ASSUME TypeOK, NEW e \in Errors, Fail(e),
           UNCHANGED <<noteVars, handshakeVars, dataVars, out>>
    PROVE  TypeOK'
  BY FailTyped DEF TypeOK, noteVars, handshakeVars, dataVars

LEMMA ReturnKeepsTypes ==
    ASSUME TypeOK, NEW e \in Errors, Return(e),
           UNCHANGED <<noteVars, handshakeVars, dataVars, out>>
    PROVE  TypeOK'
  BY CallTyped DEF Return, TypeOK, ownVars, noteVars, handshakeVars, dataVars

LEMMA GoToKeepsTypes ==
    ASSUME TypeOK, call' \in Call, UNCHANGED <<result, ownVars, noteVars, handshakeVars, dataVars, out>>
    PROVE  TypeOK'
  BY DEF TypeOK, ownVars, noteVars, handshakeVars, dataVars

LEMMA RefusedKeepsTypes ==
    ASSUME TypeOK, ConnectRefused \/ RecvRefused \/ SendRefused \/ KeyUpdateRefused \/ SendDone
    PROVE  TypeOK'
<1>1. "INVALID_ARGUMENT" \in Errors /\ "CLOSED" \in Errors /\ "OK" \in Errors
  BY DEF Errors
<1> QED
  BY <1>1, ReturnKeepsTypes
     DEF ConnectRefused, RecvRefused, SendRefused, KeyUpdateRefused, SendDone, NotConnected

LEMMA ConnectKeepsTypes ==
    ASSUME TypeOK, \/ \E e \in ConnectErrors : ConnectFails(e)
                   \/ \E g \in Groups : Connect(g)
    PROVE  TypeOK'
<1>1. <<>> \in Seq(Entry) /\ <<>> \in Seq(Record) /\ <<>> \in Seq(Fragment) /\ <<>> \in Seq(Nat)
  BY EmptySeq
<1>0. conn + 1 \in Nat
  <2>1. conn \in Nat
    BY DEF TypeOK
  <2> QED
    BY ONLY <2>1
<1>2. BeginConnect => /\ conn' \in Nat /\ authentic' \in Chains \cup {"none"}
                      /\ buf' \in Seq(Fragment) /\ alpn' \in {"none", "alpn"}
                      /\ lastAlert' \in {"none", "close_notify", "other"}
                      /\ pending' \in Seq(Nat) /\ got' \in Seq(Nat) /\ accepted' \in Nat
  <2>1. BeginConnect => conn' \in Nat
    BY <1>0 DEF BeginConnect
  <2>2. BeginConnect => buf' \in Seq(Fragment) /\ pending' \in Seq(Nat) /\ got' \in Seq(Nat)
    BY <1>1 DEF BeginConnect
  <2>3. BeginConnect => /\ authentic' \in Chains \cup {"none"} /\ alpn' \in {"none", "alpn"}
                        /\ lastAlert' \in {"none", "close_notify", "other"}
    BY Zenon DEF BeginConnect
  <2>4. BeginConnect => accepted' \in Nat
    BY ONLY 0 \in Nat DEF BeginConnect
  <2> QED
    BY <2>1, <2>2, <2>3, <2>4
<1>3. ASSUME NEW e \in ConnectErrors, ConnectFails(e) PROVE TypeOK'
  <2>1. e \in Errors
    BY ErrorsTyped
  <2>2. BeginConnect /\ Fail(e) /\ transcript' \in Seq(Entry) /\ out' \in Seq(Record)
    BY <1>1, <1>3 DEF ConnectFails
  <2> QED
    BY <1>2, <2>1, <2>2, FailTyped DEF TypeOK
<1>4. ASSUME NEW g \in Groups, Connect(g) PROVE TypeOK'
  <2>2. EntryOf(FirstHello(g)) \in Entry /\ PlainHandshake(<<Whole(FirstHello(g))>>) \in Record
    BY <1>0, FirstHelloTyped DEF FirstHello
  <2>3. transcript' \in Seq(Entry) /\ out' \in Seq(Record)
    BY <1>4, <2>2 DEF Connect
  <2>4. call' \in Call
    BY <1>4, CallTyped DEF Connect, GoTo, TypeOK, Loops
  <2>5. state' \in States /\ share' \in Groups \cup {"zero"} /\ streamOpen' \in BOOLEAN
    BY <1>4 DEF Connect, States
  <2>6. BeginConnect /\ UNCHANGED <<result, keys>>
    BY <1>4 DEF Connect
  <2> QED
    BY <1>2, <2>3, <2>4, <2>5, <2>6 DEF TypeOK
<1> QED
  BY <1>3, <1>4

\* What read_record() returned, once it is one of the records a peer can send.
LEMMA RecordFields ==
    ASSUME TypeOK, NEW r \in Record
    PROVE  /\ buf \o r.hs \in Seq(Fragment)
           /\ r.data \in Seq(Nat)
<1>1. r.hs \in Seq(Fragment) /\ r.data \in Seq(Nat)
  BY DEF Record
<1>2. buf \in Seq(Fragment)
  BY DEF TypeOK
<1>3. buf \o r.hs \in Seq(Fragment)
  BY ONLY <1>1, <1>2, ConcatProperties
<1> QED
  BY <1>1, <1>3

\* An error inside a read loop after which only last_alert_description_ may differ.
LEMMA FailWithAlertKeepsTypes ==
    ASSUME TypeOK, NEW e \in Errors, Fail(e),
           lastAlert' \in {"none", "close_notify", "other"},
           UNCHANGED <<conn, alpn, handshakeVars, dataVars, out>>
    PROVE  TypeOK'
  BY FailTyped DEF TypeOK, handshakeVars, dataVars

LEMMA HelloRecordKeepsTypes ==
    ASSUME TypeOK, NEW r \in Record, HelloRecord(r)
    PROVE  TypeOK'
<1>1. {"BAD_RECORD", "BAD_HANDSHAKE", "BUFFER_TOO_SMALL", AlertError(r.alert)} \subseteq Errors
  BY ErrorsTyped DEF Errors
<1>2. UNCHANGED <<conn, alpn, transcript, authentic, dataVars, out>>
  BY DEF HelloRecord
<1>3. lastAlert \in {"none", "close_notify", "other"}
  BY DEF TypeOK
<1>4. ASSUME NEW e \in Errors, Fail(e), UNCHANGED buf, NoteAlert(r.alert) \/ UNCHANGED lastAlert
      PROVE  TypeOK'
  <2>1. lastAlert' \in {"none", "close_notify", "other"}
    BY <1>3, <1>4, NoteAlertTyped
  <2>2. UNCHANGED <<conn, alpn, handshakeVars, dataVars, out>>
    BY <1>2, <1>4 DEF handshakeVars
  <2> QED
    BY <1>4, <2>1, <2>2, FailWithAlertKeepsTypes
<1>5. ASSUME UNCHANGED <<call, result, ownVars, lastAlert>>,
             buf' = buf \/ buf' = buf \o r.hs
      PROVE  TypeOK'
  <2>1. buf' \in Seq(Fragment)
    BY <1>5, RecordFields DEF TypeOK
  <2> QED
    BY <1>2, <1>5, <2>1 DEF TypeOK, ownVars, dataVars
<1> QED
  BY <1>1, <1>4, <1>5 DEF HelloRecord

LEMMA FlightRecordKeepsTypes ==
    ASSUME TypeOK, NEW r \in Record, FlightRecord(r)
    PROVE  TypeOK'
<1>1. {"BAD_RECORD", "BAD_HANDSHAKE", "BUFFER_TOO_SMALL", AlertError(r.alert),
       OpenError("server_hs", r)} \subseteq Errors
  BY ErrorsTyped DEF Errors
<1>2. UNCHANGED <<conn, alpn, transcript, authentic, dataVars, out>>
  BY DEF FlightRecord
<1>3. lastAlert \in {"none", "close_notify", "other"}
  BY DEF TypeOK
<1>4. ASSUME NEW e \in Errors, Fail(e), UNCHANGED buf, NoteAlert(r.alert) \/ UNCHANGED lastAlert
      PROVE  TypeOK'
  <2>1. lastAlert' \in {"none", "close_notify", "other"}
    BY <1>3, <1>4, NoteAlertTyped
  <2>2. UNCHANGED <<conn, alpn, handshakeVars, dataVars, out>>
    BY <1>2, <1>4 DEF handshakeVars
  <2> QED
    BY <1>4, <2>1, <2>2, FailWithAlertKeepsTypes
<1>5. CASE UNCHANGED <<call, result, ownVars, lastAlert, buf>>
  BY <1>2, <1>5 DEF TypeOK, ownVars, dataVars
<1>6. CASE /\ keys' = Opened("server_hs") /\ buf' = buf \o r.hs
           /\ UNCHANGED <<call, result, state, share, streamOpen, lastAlert>>
  <2>1. buf' \in Seq(Fragment)
    BY <1>6, RecordFields
  <2>2. keys' \in [Slots -> Key]
    BY <1>6, KeysTyped DEF TypeOK, Opened, Slots
  <2> QED
    BY <1>2, <1>6, <2>1, <2>2 DEF TypeOK, dataVars
<1> QED
  BY <1>1, <1>4, <1>5, <1>6 DEF FlightRecord

LEMMA DeliverTyped ==
    ASSUME TypeOK, NEW plain \in Seq(Nat), NEW n \in 0..Len(plain), Deliver(plain, n)
    PROVE  got' \in Seq(Nat) /\ pending' \in Seq(Nat)
<1>1. SubSeq(plain, 1, n) \in Seq(Nat)
  BY SubSeqProperties
<1>2. SubSeq(plain, n + 1, Len(plain)) \in Seq(Nat)
  BY SubSeqProperties
<1>3. got \in Seq(Nat)
  BY DEF TypeOK
<1>4. got \o SubSeq(plain, 1, n) \in Seq(Nat)
  BY ONLY <1>1, <1>3, ConcatProperties
<1> QED
  BY <1>2, <1>4 DEF Deliver

LEMMA LeastTyped ==
    ASSUME NEW n \in Nat, NEW s \in Seq(Nat)
    PROVE  Least(n, Len(s)) \in 0..Len(s)
<1>1. Len(s) \in Nat
  OBVIOUS
<1> QED
  BY ONLY <1>1, n \in Nat DEF Least

LEMMA RecvRecordKeepsTypes ==
    ASSUME TypeOK, NEW r \in Record, RecvRecord(r)
    PROVE  TypeOK'
<1>1. {"BAD_RECORD", "CLOSED", "BUFFER_TOO_SMALL", AlertError(r.alert),
       OpenError("server_app", r)} \subseteq Errors
  BY ErrorsTyped DEF Errors
<1>2. UNCHANGED <<conn, alpn, transcript, authentic, accepted, out>>
  BY DEF RecvRecord
<1>3. lastAlert \in {"none", "close_notify", "other"}
  BY DEF TypeOK
<1>4. ASSUME NEW e \in Errors, Fail(e), UNCHANGED <<buf, pending, got>>,
             NoteAlert(r.alert) \/ UNCHANGED lastAlert
      PROVE  TypeOK'
  <2>1. lastAlert' \in {"none", "close_notify", "other"}
    BY <1>3, <1>4, NoteAlertTyped
  <2>2. UNCHANGED <<conn, alpn, handshakeVars, dataVars, out>>
    BY <1>2, <1>4 DEF handshakeVars, dataVars
  <2> QED
    BY <1>4, <2>1, <2>2, FailWithAlertKeepsTypes
<1>5. ASSUME UNCHANGED <<call, result, ownVars, lastAlert, buf, pending, got>>
      PROVE  TypeOK'
  BY <1>2, <1>5 DEF TypeOK, ownVars
<1>6. ASSUME Deliver(r.data, Least(call.want, Len(r.data))), keys' = Opened("server_app"),
             call' = NoCall, result' = "OK",
             UNCHANGED <<state, share, streamOpen, lastAlert, buf>>
      PROVE  TypeOK'
  <2>1. call.want \in Nat
    BY DEF TypeOK, Call
  <2>2. got' \in Seq(Nat) /\ pending' \in Seq(Nat)
    BY <1>6, <2>1, RecordFields, LeastTyped, DeliverTyped
  <2>3. keys' \in [Slots -> Key]
    BY <1>6, KeysTyped DEF TypeOK, Opened, Slots
  <2>4. call' \in Call /\ result' \in Errors
    BY <1>6, CallTyped DEF Errors
  <2> QED
    BY <1>2, <1>6, <2>2, <2>3, <2>4 DEF TypeOK
<1>7. ASSUME RemoteClose, NoteAlert(r.alert), UNCHANGED <<buf, pending, got>> PROVE TypeOK'
  <2>1. /\ state' \in States /\ keys' \in [Slots -> Key] /\ share' \in Groups \cup {"zero"}
        /\ streamOpen' \in BOOLEAN /\ call' \in Call /\ result' \in Errors
    BY <1>7, KeyTyped, CallTyped DEF RemoteClose, States, Errors
  <2> QED
    BY <1>2, <1>7, <2>1, NoteAlertTyped DEF TypeOK
<1>8. ASSUME keys' = Opened("server_app"), buf' = buf \o r.hs, GoTo("post"),
             UNCHANGED <<state, result, share, streamOpen, lastAlert, pending, got>>
      PROVE  TypeOK'
  <2>1. buf' \in Seq(Fragment)
    BY <1>8, RecordFields
  <2>2. keys' \in [Slots -> Key]
    BY <1>8, KeysTyped DEF TypeOK, Opened, Slots
  <2>3. call' \in Call
    BY <1>8, CallTyped DEF TypeOK, GoTo, Loops
  <2> QED
    BY <1>2, <1>8, <2>1, <2>2, <2>3 DEF TypeOK
<1> QED
  BY <1>1, <1>4, <1>5, <1>6, <1>7, <1>8 DEF RecvRecord

LEMMA HandshakeStepKeepsTypes ==
    ASSUME TypeOK, \/ HelloRejected \/ ServerHello \/ FlightRejected
                   \/ EncryptedExtensions \/ Certificate \/ CertificateVerify
                   \/ \E ok \in BOOLEAN : HelloRetry(ok) \/ Finished(ok)
    PROVE  TypeOK'
<1> DEFINE m == First(buf)
<1> HIDE DEF m
<1>1. Complete(buf) /\ m \in Message /\ Rest(buf) \in Seq(Fragment)
  <2>1. buf \in Seq(Fragment)
    BY DEF TypeOK
  <2>2. Complete(buf)
    BY DEF HelloRejected, ServerHello, FlightRejected, EncryptedExtensions, Certificate,
           CertificateVerify, HelloRetry, Finished, AtHello, AtFlight
  <2> QED
    BY <2>1, <2>2, BufferTyped DEF m
<1>2. EntryOf(m) \in Entry /\ transcript \in Seq(Entry) /\ out \in Seq(Record)
  BY <1>1, MessageTyped DEF TypeOK
<1>3. Append(transcript, EntryOf(m)) \in Seq(Entry)
  BY ONLY <1>2, AppendProperties
<1>4. CASE HelloRejected \/ FlightRejected
  <2>1. HelloError(m) \in Errors /\ FlightError(m) \in Errors
    BY ErrorsTyped
  <2> QED
    BY <1>4, <2>1, FailKeepsTypes DEF HelloRejected, FlightRejected, m
<1>5. CASE ServerHello
  <2>1. transcript' \in Seq(Entry)
    BY <1>3, <1>5 DEF ServerHello, m
  <2>2. buf' \in Seq(Fragment)
    BY <1>5, EmptySeq DEF ServerHello
  <2>3. keys' \in [Slots -> Key]
    <3>1. Derive("client_hs", transcript') \in Key /\ Derive("server_hs", transcript') \in Key
      BY <2>1, KeyTyped DEF Slots
    <3>2. keys' = [keys EXCEPT !["client_hs"] = Derive("client_hs", transcript'),
                               !["server_hs"] = Derive("server_hs", transcript')]
      BY <1>5 DEF ServerHello
    <3> QED
      BY <3>1, <3>2 DEF TypeOK
  <2>4. call' \in Call
    BY <1>5, CallTyped DEF ServerHello, GoTo, TypeOK, Loops
  <2>5. UNCHANGED <<state, result, share, streamOpen, noteVars, authentic, dataVars, out>>
    BY <1>5 DEF ServerHello
  <2> QED
    BY <2>1, <2>2, <2>3, <2>4, <2>5 DEF TypeOK, noteVars, dataVars
<1>6. ASSUME FlightGoesOn, call' \in Call, alpn' \in {"none", "alpn"}, authentic' \in Chains \cup {"none"}
      PROVE  TypeOK'
  <2>1. transcript' \in Seq(Entry) /\ buf' \in Seq(Fragment)
    BY <1>1, <1>3, <1>6 DEF FlightGoesOn, Hashed, m
  <2>2. UNCHANGED <<result, ownVars, conn, lastAlert, dataVars, out>>
    BY <1>6 DEF FlightGoesOn
  <2> QED
    BY <1>6, <2>1, <2>2 DEF TypeOK, ownVars, dataVars
<1>7. call \in Call /\ alpn \in {"none", "alpn"} /\ authentic \in Chains \cup {"none"}
  BY DEF TypeOK
<1>8. CASE EncryptedExtensions
  <2>1. alpn' \in {"none", "alpn"} /\ FlightGoesOn /\ UNCHANGED <<call, authentic>>
    BY <1>7, <1>8 DEF EncryptedExtensions
  <2> QED
    BY <1>6, <1>7, <2>1
<1>9. CASE Certificate
  <2>1. First(buf).type = "certificate" /\ FlightError(First(buf)) = "OK"
    BY <1>9 DEF Certificate, AtFlight
  <2>2. WellFormed(First(buf))
    BY <2>1 DEF FlightError
  <2>3. First(buf).val \in Chains
    BY <2>1, <2>2 DEF WellFormed
  <2>4. call' \in Call
    BY <1>7, <1>9, <2>3, CallTyped DEF Certificate
  <2>5. FlightGoesOn /\ UNCHANGED <<alpn, authentic>>
    BY <1>9 DEF Certificate
  <2> QED
    BY <1>6, <1>7, <2>4, <2>5
<1>10. CASE CertificateVerify
  <2>1. authentic' \in Chains \cup {"none"}
    BY <1>7, <1>10 DEF CertificateVerify, Call
  <2>2. FlightGoesOn /\ UNCHANGED <<call, alpn>>
    BY <1>10 DEF CertificateVerify
  <2> QED
    BY <1>6, <1>7, <2>1, <2>2
<1>11. CASE \E ok \in BOOLEAN : HelloRetry(ok)
  <2>1. PICK ok \in BOOLEAN : HelloRetry(ok)
    BY <1>11
  <2> DEFINE hello == ClientHello(m.val)
  <2> HIDE DEF hello
  <2>2. buf' \in Seq(Fragment) /\ UNCHANGED <<noteVars, authentic, dataVars>>
    BY <2>1, EmptySeq DEF HelloRetry
  <2>3. CASE ok
    <3>1. HelloError(m) = "OK"
      BY <2>1 DEF HelloRetry, m
    <3>2. m.val \in Groups
      BY <3>1 DEF HelloError
    <3>3. EntryOf(hello) \in Entry /\ PlainHandshake(<<Whole(hello)>>) \in Record
      BY <3>2, FirstHelloTyped DEF ClientHello, TypeOK, hello
    <3>4. <<EntryOf(m), EntryOf(hello)>> \in Seq(Entry)
      BY ONLY <3>3, <1>2
    <3>5. transcript \o <<EntryOf(m), EntryOf(hello)>> \in Seq(Entry)
      BY ONLY <1>2, <3>4, ConcatProperties
    <3>6. Append(out, PlainHandshake(<<Whole(hello)>>)) \in Seq(Record)
      BY ONLY <1>2, <3>3, AppendProperties
    <3>7. /\ transcript' = transcript \o <<EntryOf(m), EntryOf(hello)>>
          /\ out' = Append(out, PlainHandshake(<<Whole(hello)>>))
          /\ call' = [call EXCEPT !.hadHrr = TRUE]
          /\ share' = m.val
          /\ UNCHANGED <<state, result, keys, streamOpen>>
      BY <2>1, <2>3 DEF HelloRetry, m, hello
    <3>8. call' \in Call
      BY <1>7, <3>7, CallTyped
    <3> QED
      BY <2>2, <3>2, <3>5, <3>6, <3>7, <3>8 DEF TypeOK, noteVars, dataVars
  <2>4. CASE ~ok
    <3>1. FailWith(RetryErrors) /\ UNCHANGED <<transcript, out>>
      BY <2>1, <2>4 DEF HelloRetry
    <3>2. PICK e \in RetryErrors : Fail(e)
      BY <3>1 DEF FailWith
    <3>3. e \in Errors
      BY ErrorsTyped
    <3> QED
      BY <2>2, <3>1, <3>2, <3>3, FailTyped DEF TypeOK, noteVars, dataVars
  <2> QED
    BY <2>3, <2>4
<1>12. CASE \E ok \in BOOLEAN : Finished(ok)
  <2>1. PICK ok \in BOOLEAN : Finished(ok)
    BY <1>12
  <2> DEFINE th  == ThroughServerFinished(m)
             fin == ClientFinished(th)
  <2>2. th \in Seq(Entry)
    BY <1>3 DEF ThroughServerFinished
  <2> HIDE DEF th
  <2>3. fin \in Message
    BY <2>2, NamesTyped, MessageTyped DEF ClientFinished
  <2> HIDE DEF fin
  <2>4. buf' \in Seq(Fragment) /\ UNCHANGED <<noteVars, authentic, dataVars>>
    BY <1>1, <2>1 DEF Finished
  <2>5. CASE ok
    <3>1. Append(th, EntryOf(fin)) \in Seq(Entry)
      BY ONLY <2>2, <2>3, MessageTyped, AppendProperties
    <3>2. <<Whole(fin)>> \in Seq(Fragment)
      BY <2>3, OneMessageTyped
    <3>3. keys["client_hs"] \in Key
      BY DEF TypeOK, Slots
    <3>4. ProtectedHandshake(keys["client_hs"], <<Whole(fin)>>) \in Record
      BY <3>2, <3>3, RecordTyped
    <3>5. Append(out, ProtectedHandshake(keys["client_hs"], <<Whole(fin)>>)) \in Seq(Record)
      BY ONLY <1>2, <3>4, AppendProperties
    <3>6. /\ transcript' = Append(th, EntryOf(fin))
          /\ out' = Append(out, ProtectedHandshake(keys["client_hs"], <<Whole(fin)>>))
          /\ keys' = [keys EXCEPT !["client_app"] = Derive("client_app", th),
                                  !["server_app"] = Derive("server_app", th),
                                  !["client_hs"] = Used(@)]
          /\ state' = "CONNECTED" /\ call' = NoCall /\ result' = "OK"
          /\ UNCHANGED <<share, streamOpen>>
      BY <2>1, <2>5 DEF Finished, th, fin, m
    <3>7. keys' \in [Slots -> Key]
      <4>1. /\ Derive("client_app", th) \in Key /\ Derive("server_app", th) \in Key
            /\ Used(keys["client_hs"]) \in Key
        BY <2>2, <3>3, KeyTyped DEF Slots
      <4> QED
        BY <3>6, <4>1 DEF TypeOK, Slots
    <3>8. state' \in States /\ call' \in Call /\ result' \in Errors
      BY <3>6, CallTyped DEF States, Errors
    <3> QED
      BY <2>4, <3>1, <3>5, <3>6, <3>7, <3>8 DEF TypeOK, noteVars, dataVars
  <2>6. CASE ~ok
    <3>1. FailWith(SendErrors) /\ UNCHANGED <<transcript, out>>
      BY <2>1, <2>6 DEF Finished
    <3>2. PICK e \in SendErrors : Fail(e)
      BY <3>1 DEF FailWith
    <3>3. e \in Errors
      BY ErrorsTyped
    <3> QED
      BY <2>4, <3>1, <3>2, <3>3, FailTyped DEF TypeOK, noteVars, dataVars
  <2> QED
    BY <2>5, <2>6
<1> QED
  BY <1>4, <1>5, <1>8, <1>9, <1>10, <1>11, <1>12

LEMMA PostStepKeepsTypes ==
    ASSUME TypeOK, \/ PostDone \/ NewSessionTicket \/ PostRejected
                   \/ PeerKeyUpdate \/ PeerKeyUpdateRequested \/ PeerKeyUpdateFails
    PROVE  TypeOK'
<1>1. /\ "client_app" \in Slots /\ "server_app" \in Slots
      /\ keys \in [Slots -> Key] /\ out \in Seq(Record)
  BY DEF Slots, TypeOK
<1>2. {"UNSUPPORTED", "BAD_HANDSHAKE"} \cup SendErrors \subseteq Errors
  BY DEF Errors, SendErrors
<1>3. CASE PostDone
  <2>1. call' \in Call
    BY <1>3, CallTyped DEF PostDone, GoTo, TypeOK, Loops
  <2> QED
    BY <1>3, <2>1, GoToKeepsTypes DEF PostDone
<1>4. ASSUME AtPost, PostGoesOn, keys' \in [Slots -> Key], out' \in Seq(Record)
      PROVE  TypeOK'
  <2>1. buf' \in Seq(Fragment)
    BY <1>4, BufferTyped DEF AtPost, PostGoesOn, TypeOK
  <2>2. UNCHANGED <<call, result, state, share, streamOpen, noteVars, transcript, authentic,
                    dataVars>>
    BY <1>4 DEF PostGoesOn
  <2> QED
    BY <1>4, <2>1, <2>2 DEF TypeOK, noteVars, dataVars
<1>5. CASE NewSessionTicket
  <2>1. AtPost /\ PostGoesOn /\ UNCHANGED <<keys, out>>
    BY <1>5 DEF NewSessionTicket
  <2> QED
    BY <1>1, <1>4, <2>1
<1>6. CASE PostRejected \/ PeerKeyUpdateFails
  BY <1>2, <1>6, FailKeepsTypes DEF PostRejected, PeerKeyUpdateFails, FailWith
<1>7. CASE PeerKeyUpdate
  <2>1. AtPost /\ PostGoesOn /\ UNCHANGED out
    BY <1>7 DEF PeerKeyUpdate, AtKeyUpdate
  <2>2. keys' \in [Slots -> Key]
    BY <1>1, <1>7, KeysTyped DEF PeerKeyUpdate
  <2> QED
    BY <1>1, <1>4, <2>1, <2>2
<1>8. CASE PeerKeyUpdateRequested
  <2>1. AtPost /\ PostGoesOn
    BY <1>8 DEF PeerKeyUpdateRequested, AtKeyUpdate
  <2>2. keys' \in [Slots -> Key]
    <3>1. Updated(keys["client_app"]) \in Key /\ Updated(keys["server_app"]) \in Key
      BY <1>1, KeyTyped
    <3> QED
      BY <1>1, <1>8, <3>1 DEF PeerKeyUpdateRequested
  <2>3. out' \in Seq(Record)
    <3>1. KeyUpdateMsg(FALSE) \in Message
      BY NamesTyped, MessageTyped DEF KeyUpdateMsg
    <3>2. <<Whole(KeyUpdateMsg(FALSE))>> \in Seq(Fragment)
      BY <3>1, OneMessageTyped
    <3>3. ProtectedHandshake(keys["client_app"], <<Whole(KeyUpdateMsg(FALSE))>>) \in Record
      BY <1>1, <3>2, RecordTyped
    <3> QED
      BY <1>1, <1>8, <3>3, AppendProperties DEF PeerKeyUpdateRequested
  <2> QED
    BY <1>4, <2>1, <2>2, <2>3
<1> QED
  BY <1>3, <1>5, <1>6, <1>7, <1>8

LEMMA DataCallKeepsTypes ==
    ASSUME TypeOK, \/ \E n \in 0..2 : RecvPending(n) \/ RecvStart(n) \/ Send(n)
                   \/ \E ok \in BOOLEAN : SendChunk(ok)
    PROVE  TypeOK'
<1>1. 0..2 \subseteq Nat
  OBVIOUS
<1>2. /\ call \in Call /\ pending \in Seq(Nat) /\ accepted \in Nat /\ out \in Seq(Record)
      /\ keys \in [Slots -> Key] /\ "client_app" \in Slots
  BY DEF TypeOK, Slots
<1>3. ASSUME NEW n \in 0..2, RecvPending(n) PROVE TypeOK'
  <2>1. Deliver(pending, Least(n, Len(pending)))
    BY <1>3 DEF RecvPending
  <2>2. got' \in Seq(Nat) /\ pending' \in Seq(Nat)
    BY <1>1, <1>2, <2>1, LeastTyped, DeliverTyped
  <2>3. Return("OK") /\ UNCHANGED <<noteVars, handshakeVars, accepted, out>>
    BY <1>3 DEF RecvPending
  <2>4. result' \in Errors /\ call' \in Call /\ UNCHANGED ownVars
    BY <2>3, CallTyped DEF Return, Errors
  <2> QED
    BY <2>2, <2>3, <2>4 DEF TypeOK, ownVars, noteVars, handshakeVars
<1>4. ASSUME NEW n \in 0..2, RecvStart(n) PROVE TypeOK'
  <2>1. call' \in Call
    BY <1>1, <1>2, <1>4, CallTyped DEF RecvStart, Loops
  <2> QED
    BY <1>4, <2>1, GoToKeepsTypes DEF RecvStart
<1>5. ASSUME NEW n \in 0..2, Send(n) PROVE TypeOK'
  <2>1. call' \in Call
    BY <1>1, <1>2, <1>5, CallTyped DEF Send, Loops
  <2> QED
    BY <1>5, <2>1, GoToKeepsTypes DEF Send
<1>6. ASSUME NEW ok \in BOOLEAN, SendChunk(ok) PROVE TypeOK'
  <2>1. UNCHANGED <<noteVars, handshakeVars, pending, got>>
    BY <1>6 DEF SendChunk
  <2>2. CASE ok
    <3>1. call.todo \in Nat /\ call.todo > 0
      BY <1>2, <1>6 DEF Call, SendChunk
    <3>2. call.todo - 1 \in Nat /\ accepted + 1 \in Nat
      BY ONLY <1>2, <3>1
    <3>3. call' \in Call
      <4>1. call' = [call EXCEPT !.todo = call.todo - 1]
        BY <1>6, <2>2 DEF SendChunk
      <4>2. call \in Call
        BY <1>2
      <4> QED
        BY ONLY <3>2, <4>1, <4>2 DEF Call
    <3>4. <<accepted + 1>> \in Seq(Nat)
      BY ONLY <3>2
    <3>5. ProtectedData(keys["client_app"], <<accepted + 1>>) \in Record
      BY <1>2, <3>4, RecordTyped
    <3>6. Append(out, ProtectedData(keys["client_app"], <<accepted + 1>>)) \in Seq(Record)
      BY ONLY <1>2, <3>5, AppendProperties
    <3>9. out' \in Seq(Record)
      BY <1>6, <2>2, <3>6 DEF SendChunk
    <3>7. keys' \in [Slots -> Key]
      <4>1. keys' = [keys EXCEPT !["client_app"] = Used(@)]
        BY <1>6, <2>2 DEF SendChunk
      <4> QED
        BY <1>2, <4>1, KeysTyped
    <3>8. accepted' \in Nat /\ UNCHANGED <<result, state, share, streamOpen>>
      BY <1>6, <2>2, <3>2 DEF SendChunk
    <3> QED
      BY <2>1, <3>3, <3>7, <3>8, <3>9 DEF TypeOK, noteVars, handshakeVars
  <2>3. CASE ~ok
    <3>1. FailWith(SendErrors) /\ UNCHANGED <<out, accepted>>
      BY <1>6, <2>3 DEF SendChunk
    <3>2. PICK e \in SendErrors : Fail(e)
      BY <3>1 DEF FailWith
    <3>3. e \in Errors
      BY ErrorsTyped
    <3> QED
      BY <2>1, <3>1, <3>2, <3>3, FailKeepsTypes DEF dataVars
  <2> QED
    BY <2>2, <2>3
<1> QED
  BY <1>3, <1>4, <1>5, <1>6

LEMMA ControlCallKeepsTypes ==
    ASSUME TypeOK, \/ \E request, ok \in BOOLEAN : KeyUpdate(request, ok)
                   \/ \E ok \in BOOLEAN : Close(ok)
                   \/ Reset
    PROVE  TypeOK'
<1>1. /\ out \in Seq(Record) /\ keys \in [Slots -> Key] /\ "client_app" \in Slots
      /\ keys["client_app"] \in Key
  BY DEF TypeOK, Slots
<1>2. ASSUME NEW request \in BOOLEAN, NEW ok \in BOOLEAN, KeyUpdate(request, ok) PROVE TypeOK'
  <2>1. UNCHANGED <<noteVars, handshakeVars, dataVars>>
    BY <1>2 DEF KeyUpdate
  <2>2. CASE ok
    <3>1. KeyUpdateMsg(request) \in Message
      BY NamesTyped, MessageTyped DEF KeyUpdateMsg
    <3>2. <<Whole(KeyUpdateMsg(request))>> \in Seq(Fragment)
      BY <3>1, OneMessageTyped
    <3>3. ProtectedHandshake(keys["client_app"], <<Whole(KeyUpdateMsg(request))>>) \in Record
      BY <1>1, <3>2, RecordTyped
    <3>4. out' \in Seq(Record)
      BY <1>1, <1>2, <2>2, <3>3, AppendProperties DEF KeyUpdate
    <3>5. keys' \in [Slots -> Key]
      BY <1>1, <1>2, <2>2, KeysTyped DEF KeyUpdate
    <3>6. result' \in Errors /\ UNCHANGED <<call, state, share, streamOpen>>
      BY <1>2, <2>2 DEF KeyUpdate, Errors
    <3> QED
      BY <2>1, <3>4, <3>5, <3>6 DEF TypeOK, noteVars, handshakeVars, dataVars
  <2>3. CASE ~ok
    <3>1. FailWith(SendErrors) /\ UNCHANGED out
      BY <1>2, <2>3 DEF KeyUpdate
    <3>2. PICK e \in SendErrors : Fail(e)
      BY <3>1 DEF FailWith
    <3>3. e \in Errors
      BY ErrorsTyped
    <3> QED
      BY <2>1, <3>1, <3>2, <3>3, FailKeepsTypes
  <2> QED
    BY <2>2, <2>3
<1>3. ASSUME NEW ok \in BOOLEAN, Close(ok) PROVE TypeOK'
  <2>1. UNCHANGED <<call, noteVars, handshakeVars, dataVars>> /\ result' \in Errors
    BY <1>3 DEF Close, Errors
  <2>2. /\ state' \in States /\ share' \in Groups \cup {"zero"} /\ streamOpen' \in BOOLEAN
        /\ keys' \in [Slots -> Key]
    BY <1>3, KeyTyped DEF Close, States, TypeOK, ownVars
  <2>3. ProtectedAlert(keys["client_app"], "close_notify") \in Record
    BY <1>1, RecordTyped DEF Alerts
  <2>4. Append(out, ProtectedAlert(keys["client_app"], "close_notify")) \in Seq(Record)
    BY ONLY <1>1, <2>3, AppendProperties
  <2>5. out' \in Seq(Record)
    BY <1>1, <1>3, <2>4 DEF Close
  <2> QED
    BY <2>1, <2>2, <2>5 DEF TypeOK, noteVars, handshakeVars, dataVars
<1>4. CASE Reset
  <2>1. transcript' \in Seq(Entry) /\ buf' \in Seq(Fragment) /\ pending' \in Seq(Nat)
    BY <1>4, EmptySeq DEF Reset
  <2>2. /\ state' \in States /\ share' \in Groups \cup {"zero"} /\ streamOpen' \in BOOLEAN
        /\ keys' \in [Slots -> Key] /\ result' \in Errors
        /\ alpn' \in {"none", "alpn"} /\ lastAlert' \in {"none", "close_notify", "other"}
    BY <1>4, KeyTyped DEF Reset, States, Errors
  <2>3. UNCHANGED <<call, conn, authentic, got, accepted, out>>
    BY <1>4 DEF Reset
  <2> QED
    BY <2>1, <2>2, <2>3 DEF TypeOK
<1> QED
  BY <1>2, <1>3, <1>4

LEMMA ReadFailsKeepsTypes ==
    ASSUME TypeOK, NEW e \in {"CLOSED", "IO", "BAD_RECORD"}, ReadFails(e)
    PROVE  TypeOK'
<1>1. e \in Errors
  BY DEF Errors
<1> QED
  BY <1>1, FailKeepsTypes DEF ReadFails

LEMMA StutterKeepsTypes ==
    ASSUME TypeOK, UNCHANGED vars
    PROVE  TypeOK'
  BY DEF TypeOK, vars, ownVars, noteVars, handshakeVars, dataVars

\* Every variable keeps its type: whatever the peer sends and wherever a call fails, the
\* state, the deframer, the key slots and the records written stay well formed.
THEOREM TypeCorrect == Spec => []TypeOK
<1>1. TypeOK /\ [Next]_vars => TypeOK'
  <2> SUFFICES ASSUME TypeOK, [Next]_vars PROVE TypeOK'
    OBVIOUS
  <2>1. CASE AppCall
    BY <2>1, RefusedKeepsTypes, ConnectKeepsTypes, DataCallKeepsTypes, ControlCallKeepsTypes
       DEF AppCall
  <2>2. CASE LocalStep
    BY <2>2, HandshakeStepKeepsTypes, PostStepKeepsTypes, DataCallKeepsTypes, RefusedKeepsTypes
       DEF LocalStep
  <2>3. ASSUME NEW r \in PeerRecords, Receive(r) PROVE TypeOK'
    BY <2>3, PeerRecordsTyped, HelloRecordKeepsTypes, FlightRecordKeepsTypes,
       RecvRecordKeepsTypes DEF Receive
  <2>4. ASSUME NEW e \in {"CLOSED", "IO", "BAD_RECORD"}, ReadFails(e) PROVE TypeOK'
    BY <2>4, ReadFailsKeepsTypes
  <2>5. CASE UNCHANGED vars
    BY <2>5, StutterKeepsTypes
  <2> QED
    BY <2>1, <2>2, <2>3, <2>4, <2>5 DEF Next
<1> QED
  BY <1>1, InitTyped, PTL DEF Spec

-----------------------------------------------------------------------------
(* Secrets do not outlive a connection, and blocking calls nest *)

\* The wiping of secrets is inductive only together with the nesting of calls: it is the
\* loop a call is in that tells in which state keys are installed.
Lifecycle == SecretsWiped /\ CallsNest

LEMMA LoopOf ==
    ASSUME NEW c \in Call
    PROVE  /\ c.loop \in Loops /\ NoCall.loop = "none"
           /\ \A l \in Loops : [c EXCEPT !.loop = l].loop = l
           /\ \A x \in Chains : [c EXCEPT !.cert = x].loop = c.loop
           /\ [c EXCEPT !.hadHrr = TRUE].loop = c.loop
  BY DEF Call, NoCall

LEMMA FailEnds == \A e : Fail(e) => Lifecycle'
  BY DEF Fail, Lifecycle, SecretsWiped, CallsNest, Live, NoCall

\* A step that leaves ownVars alone and ends the call, or stays in a loop of its phase.
LEMMA OwnVarsKept ==
    ASSUME Lifecycle, UNCHANGED ownVars,
           \/ UNCHANGED call
           \/ ~(call.loop \in {"hello", "flight"}) /\ call' = NoCall
           \/ call'.loop = call.loop
           \/ state = "CONNECTED" /\ call'.loop \in {"recv", "post", "send"}
    PROVE  Lifecycle'
  BY DEF Lifecycle, SecretsWiped, CallsNest, Live, ownVars, NoCall

\* A step inside a live connection that stays in it.
LEMMA StaysLive ==
    ASSUME Lifecycle, Live, UNCHANGED state,
           \/ UNCHANGED call
           \/ call'.loop = call.loop
           \/ state = "HANDSHAKING" /\ call'.loop \in {"hello", "flight"}
           \/ state = "CONNECTED" /\ call'.loop \in {"none", "recv", "post", "send"}
    PROVE  Lifecycle'
  BY DEF Lifecycle, SecretsWiped, CallsNest, Live

LEMMA CallStepsKeepLifecycle ==
    ASSUME TypeOK, Lifecycle, AppCall
    PROVE  Lifecycle'
<1>1. CASE ConnectRefused \/ RecvRefused \/ SendRefused \/ KeyUpdateRefused
  BY <1>1, OwnVarsKept
     DEF ConnectRefused, RecvRefused, SendRefused, KeyUpdateRefused, NotConnected, At, Return
<1>2. ASSUME NEW e, ConnectFails(e) PROVE Lifecycle'
  BY <1>2, FailEnds DEF ConnectFails
<1>3. ASSUME NEW g \in Groups, Connect(g) PROVE Lifecycle'
  <2>1. call'.loop = "hello"
    BY <1>3, LoopOf DEF Connect, GoTo, TypeOK, Loops
  <2>2. state' = "HANDSHAKING"
    BY <1>3 DEF Connect
  <2> QED
    BY <2>1, <2>2 DEF Lifecycle, SecretsWiped, CallsNest, Live
<1>4. ASSUME NEW n, RecvPending(n) PROVE Lifecycle'
  BY <1>4, OwnVarsKept DEF RecvPending, Return, At
<1>5. ASSUME NEW n \in 0..2, RecvStart(n) \/ Send(n) PROVE Lifecycle'
  <2>1. n \in Nat
    OBVIOUS
  <2>2. call'.loop \in {"recv", "send"}
    <3>1. call \in Call /\ "recv" \in Loops /\ "send" \in Loops
      BY DEF TypeOK, Loops
    <3>2. \/ call' = [call EXCEPT !.loop = "recv", !.want = n]
          \/ call' = [call EXCEPT !.loop = "send", !.todo = n]
      BY <1>5 DEF RecvStart, Send
    <3> QED
      BY ONLY <3>1, <3>2 DEF Call
  <2>3. state = "CONNECTED" /\ UNCHANGED ownVars
    BY <1>5 DEF RecvStart, Send
  <2> QED
    BY <2>2, <2>3, OwnVarsKept
<1>6. ASSUME NEW request, NEW ok \in BOOLEAN, KeyUpdate(request, ok) PROVE Lifecycle'
  <2>1. state = "CONNECTED" /\ (FailWith(SendErrors) \/ UNCHANGED <<state, call>>)
    BY <1>6 DEF KeyUpdate
  <2> QED
    BY <2>1, FailEnds, StaysLive DEF FailWith, Live
<1>7. ASSUME NEW ok, Close(ok) PROVE Lifecycle'
  <2>1. call.loop = "none" /\ UNCHANGED call
    BY <1>7 DEF Close, At
  <2>2. CASE state = "CLOSED"
    BY <1>7, <2>1, <2>2, OwnVarsKept DEF Close
  <2>3. CASE state # "CLOSED"
    BY <1>7, <2>1, <2>3 DEF Close, Lifecycle, SecretsWiped, CallsNest, Live
  <2> QED
    BY <2>2, <2>3
<1>8. CASE Reset
  BY <1>8 DEF Reset, At, Lifecycle, SecretsWiped, CallsNest, Live
<1> QED
  BY <1>1, <1>2, <1>3, <1>4, <1>5, <1>6, <1>7, <1>8 DEF AppCall

LEMMA LocalStepsKeepLifecycle ==
    ASSUME TypeOK, Lifecycle, LocalStep
    PROVE  Lifecycle'
<1>1. call \in Call
  BY DEF TypeOK
<1>2. /\ call.loop \in {"hello", "flight"} => state = "HANDSHAKING"
      /\ call.loop \in {"post", "send", "recv"} => state = "CONNECTED"
  BY DEF Lifecycle, CallsNest
<1>3. CASE HelloRejected \/ FlightRejected \/ PostRejected \/ PeerKeyUpdateFails
  BY <1>3, FailEnds DEF HelloRejected, FlightRejected, PostRejected, PeerKeyUpdateFails, FailWith
<1>4. ASSUME NEW ok \in BOOLEAN, HelloRetry(ok) PROVE Lifecycle'
  <2>1. FailWith(RetryErrors) \/ (call' = [call EXCEPT !.hadHrr = TRUE] /\ UNCHANGED state)
    BY <1>4 DEF HelloRetry
  <2>2. Live
    BY <1>2, <1>4 DEF HelloRetry, AtHello, At, Live
  <2> QED
    BY <1>1, <2>1, <2>2, FailEnds, StaysLive, LoopOf DEF FailWith
<1>5. CASE ServerHello
  <2>1. state = "HANDSHAKING" /\ UNCHANGED state
    BY <1>2, <1>5 DEF ServerHello, AtHello, At
  <2>2. call'.loop = "flight"
    BY <1>1, <1>5, LoopOf DEF ServerHello, GoTo, Loops
  <2> QED
    BY <2>1, <2>2, StaysLive DEF Live
<1>6. CASE EncryptedExtensions \/ CertificateVerify
  <2>1. UNCHANGED ownVars /\ UNCHANGED call
    BY <1>6 DEF EncryptedExtensions, CertificateVerify, FlightGoesOn
  <2> QED
    BY <2>1, OwnVarsKept
<1>7. CASE Certificate
  <2>1. UNCHANGED ownVars
    BY <1>7 DEF Certificate, FlightGoesOn
  <2>2. First(buf).val \in Chains
    BY <1>7 DEF Certificate, AtFlight, FlightError, WellFormed
  <2>3. call'.loop = call.loop
    BY <1>1, <1>7, <2>2, LoopOf DEF Certificate
  <2> QED
    BY <2>1, <2>3, OwnVarsKept
<1>8. ASSUME NEW ok \in BOOLEAN, Finished(ok) PROVE Lifecycle'
  <2>1. FailWith(SendErrors) \/ (state' = "CONNECTED" /\ call' = NoCall)
    BY <1>8 DEF Finished
  <2> QED
    BY <2>1, FailEnds DEF FailWith, Lifecycle, SecretsWiped, CallsNest, Live, NoCall
<1>9. CASE PostDone
  <2>1. state = "CONNECTED" /\ UNCHANGED ownVars
    BY <1>2, <1>9 DEF PostDone, At
  <2>2. call'.loop = "recv"
    BY <1>1, <1>9, LoopOf DEF PostDone, GoTo, Loops
  <2> QED
    BY <2>1, <2>2, OwnVarsKept
<1>10. CASE NewSessionTicket \/ PeerKeyUpdate \/ PeerKeyUpdateRequested
  <2>1. state = "CONNECTED" /\ UNCHANGED <<state, call>>
    BY <1>2, <1>10
       DEF NewSessionTicket, PeerKeyUpdate, PeerKeyUpdateRequested, AtKeyUpdate, AtPost, At,
           PostGoesOn
  <2> QED
    BY <2>1, StaysLive DEF Live
<1>11. ASSUME NEW ok \in BOOLEAN, SendChunk(ok) PROVE Lifecycle'
  <2>1. state = "CONNECTED"
    BY <1>2, <1>11 DEF SendChunk, At
  <2>2. CASE ~ok
    BY <1>11, <2>2, FailEnds DEF SendChunk, FailWith
  <2>3. CASE ok
    <3>1. call' = [call EXCEPT !.todo = call.todo - 1] /\ UNCHANGED state
      BY <1>11, <2>3 DEF SendChunk
    <3>2. call'.loop = call.loop
      BY <1>1, <3>1 DEF Call
    <3> QED
      BY <2>1, <3>1, <3>2, StaysLive DEF Live
  <2> QED
    BY <2>2, <2>3
<1>12. CASE SendDone
  <2>1. ~(call.loop \in {"hello", "flight"}) /\ call' = NoCall /\ UNCHANGED ownVars
    BY <1>12 DEF SendDone, At, Return
  <2> QED
    BY <2>1, OwnVarsKept
<1> QED
  BY <1>3, <1>4, <1>5, <1>6, <1>7, <1>8, <1>9, <1>10, <1>11, <1>12 DEF LocalStep

LEMMA RecordsKeepLifecycle ==
    ASSUME TypeOK, Lifecycle, NEW r, Receive(r)
    PROVE  Lifecycle'
<1>1. CASE HelloRecord(r)
  <2>1. \/ \E e : Fail(e)
        \/ UNCHANGED ownVars /\ UNCHANGED call
    BY <1>1 DEF HelloRecord
  <2> QED
    BY <2>1, FailEnds, OwnVarsKept
<1>2. CASE FlightRecord(r)
  <2>1. \/ \E e : Fail(e)
        \/ UNCHANGED ownVars /\ UNCHANGED call
        \/ UNCHANGED <<state, call>>
    BY <1>2 DEF FlightRecord
  <2>2. Live
    BY <1>2 DEF FlightRecord, At, Lifecycle, CallsNest, Live
  <2> QED
    BY <2>1, <2>2, FailEnds, OwnVarsKept, StaysLive
<1>3. CASE RecvRecord(r)
  <2>1. state = "CONNECTED"
    BY <1>3 DEF RecvRecord, At, Lifecycle, CallsNest
  <2>2. \/ \E e : Fail(e)
        \/ UNCHANGED ownVars /\ UNCHANGED call
        \/ RemoteClose
        \/ UNCHANGED state /\ call' = NoCall
        \/ UNCHANGED state /\ GoTo("post")
    BY <1>3 DEF RecvRecord
  <2>3. RemoteClose => Lifecycle'
    BY DEF RemoteClose, Lifecycle, SecretsWiped, CallsNest, Live, NoCall
  <2>4. GoTo("post") => call'.loop = "post"
    <3>1. call \in Call
      BY DEF TypeOK
    <3> QED
      BY <3>1, LoopOf DEF GoTo, Loops
  <2>5. NoCall.loop = "none"
    BY DEF NoCall
  <2> QED
    BY <2>1, <2>2, <2>3, <2>4, <2>5, FailEnds, OwnVarsKept, StaysLive DEF Live
<1> QED
  BY <1>1, <1>2, <1>3 DEF Receive

LEMMA LifecycleInvariant == Spec => []Lifecycle
<1>1. Init => Lifecycle
  <2>1. Init => /\ state = "IDLE" /\ call = NoCall
                /\ keys = Wiped /\ share = "zero" /\ ~streamOpen
    BY Zenon DEF Init
  <2>2. NoCall.loop = "none"
    BY DEF NoCall
  <2> QED
    BY <2>1, <2>2 DEF Lifecycle, SecretsWiped, CallsNest, Live
<1>2. TypeOK /\ Lifecycle /\ [Next]_vars => Lifecycle'
  <2> SUFFICES ASSUME TypeOK, Lifecycle, [Next]_vars PROVE Lifecycle'
    OBVIOUS
  <2>1. CASE Next
    <3>1. ASSUME NEW e, ReadFails(e) PROVE Lifecycle'
      BY <3>1, FailEnds DEF ReadFails
    <3> QED
      BY <2>1, <3>1, CallStepsKeepLifecycle, LocalStepsKeepLifecycle, RecordsKeepLifecycle
         DEF Next
  <2>2. CASE UNCHANGED vars
    <3>1. UNCHANGED ownVars /\ UNCHANGED call
      BY <2>2 DEF vars
    <3> QED
      BY <3>1, OwnVarsKept
  <2> QED
    BY <2>1, <2>2
<1> QED
  BY <1>1, <1>2, TypeCorrect, PTL DEF Spec

\* Once a connection has ended, by fail(), a close_notify of the peer, close() or reset(),
\* no traffic key, no key-exchange private key and no open stream of it is left.
THEOREM SecretsAreWiped == Spec => []SecretsWiped
<1>1. Lifecycle => SecretsWiped
  BY DEF Lifecycle
<1> QED
  BY <1>1, LifecycleInvariant, PTL

\* connect() never returns in HANDSHAKING, so the guard of reset() on that state never
\* refuses, and recv() and send() go on only while CONNECTED.
THEOREM BlockingCallsNest == Spec => []CallsNest
<1>1. Lifecycle => CallsNest
  BY DEF Lifecycle
<1> QED
  BY <1>1, LifecycleInvariant, PTL

-----------------------------------------------------------------------------
(* No AES-GCM nonce protects two records *)

\* A key that protected a record is spent: it is a handshake key, or an application key
\* of an earlier generation, or of this one with an earlier sequence number.
Spent(k, current) ==
    \/ k.label = "client_hs"
    \/ /\ k.label = "client_app"
       /\ k.gen < current.gen \/ (k.gen = current.gen /\ k.seq < current.seq)

NothingProtected == \A i \in 1..Len(out) : ~IsProtected(out[i])
AllSpent         == \A i \in 1..Len(out) :
                        IsProtected(out[i]) => Spent(out[i].key, keys["client_app"])

\* NonceUnique says nothing of the key the next record will use.  It is inductive with:
\* nothing is protected before the client Finished, the only record under a handshake
\* key, and every key in the stream is spent in respect of the current one.
NoncesSpent ==
    /\ NonceUnique
    /\ state = "HANDSHAKING" => NothingProtected
    /\ call.loop = "flight" => keys["client_hs"].label = "client_hs"
    /\ state = "CONNECTED" => keys["client_app"].label = "client_app" /\ AllSpent

LEMMA SpentFacts ==
    ASSUME NEW cur \in Key, cur.label = "client_app"
    PROVE  /\ ~Spent(cur, cur)
           /\ Used(cur).label = "client_app" /\ Updated(cur).label = "client_app"
           /\ Spent(cur, Used(cur)) /\ Spent(cur, Updated(cur))
           /\ \A k \in Key : Spent(k, cur) => Spent(k, Used(cur)) /\ Spent(k, Updated(cur))
<1>1. cur.gen \in Nat /\ cur.seq \in Nat
  BY DEF Key
<1>2. /\ Used(cur).label = "client_app" /\ Updated(cur).label = "client_app"
      /\ Used(cur).gen = cur.gen /\ Used(cur).seq = cur.seq + 1
      /\ Updated(cur).gen = cur.gen + 1
  BY DEF Key, Used, Updated
<1>3. ~Spent(cur, cur)
  BY <1>1 DEF Spent
<1>4. Spent(cur, Used(cur)) /\ Spent(cur, Updated(cur))
  BY <1>1, <1>2 DEF Spent
<1>5. ASSUME NEW k \in Key, Spent(k, cur) PROVE Spent(k, Used(cur)) /\ Spent(k, Updated(cur))
  <2>1. k.gen \in Nat /\ k.seq \in Nat
    BY DEF Key
  <2> QED
    BY <1>1, <1>2, <1>5, <2>1 DEF Spent
<1> QED
  BY <1>2, <1>3, <1>4, <1>5

LEMMA OutElements ==
    ASSUME TypeOK
    PROVE  \A i \in 1..Len(out) : out[i] \in Record /\ out[i].key \in Key
<1>1. out \in Seq(Record)
  BY DEF TypeOK
<1>2. \A i \in 1..Len(out) : out[i] \in Record
  BY ONLY <1>1, ElementOfSeq
<1> QED
  BY ONLY <1>2 DEF Record

LEMMA OutAppended ==
    ASSUME TypeOK, NEW r, out' = Append(out, r)
    PROVE  /\ Len(out) \in Nat /\ Len(out') = Len(out) + 1
           /\ out'[Len(out) + 1] = r
           /\ \A i \in 1..Len(out) : out'[i] = out[i]
           /\ \A i \in 1..Len(out') : i \in 1..Len(out) \/ i = Len(out) + 1
<1>1. out \in Seq(Record)
  BY DEF TypeOK
<1>2. Len(out) \in Nat /\ Len(out') = Len(out) + 1
  BY <1>1
<1>3. out'[Len(out) + 1] = r /\ \A i \in 1..Len(out) : out'[i] = out[i]
  BY <1>1
<1>4. \A i \in 1..Len(out') : i \in 1..Len(out) \/ i = Len(out) + 1
  BY ONLY <1>2
<1> QED
  BY <1>2, <1>3, <1>4

\* A record protected with a key that differs from all used before keeps nonces unique.
LEMMA FreshKeyKeepsUnique ==
    ASSUME TypeOK, NonceUnique, NEW r, out' = Append(out, r),
           \A i \in 1..Len(out) : IsProtected(out[i]) => out[i].key # r.key
    PROVE  NonceUnique'
<1> SUFFICES ASSUME NEW i \in 1..Len(out'), NEW j \in 1..Len(out'), i # j,
                    IsProtected(out'[i]), IsProtected(out'[j])
             PROVE  out'[i].key # out'[j].key
  BY DEF NonceUnique, IsProtected
<1>1. CASE i \in 1..Len(out) /\ j \in 1..Len(out)
  BY <1>1, OutAppended DEF NonceUnique
<1>2. CASE i \in 1..Len(out) /\ j = Len(out) + 1
  BY <1>2, OutAppended
<1>3. CASE i = Len(out) + 1 /\ j \in 1..Len(out)
  BY <1>3, OutAppended
<1> QED
  BY <1>1, <1>2, <1>3, OutAppended

\* A record written under the current application key, which is then used or updated.
LEMMA AppRecordKeepsSpent ==
    ASSUME TypeOK, NoncesSpent, state = "CONNECTED", NEW r,
           r.key = keys["client_app"], out' = Append(out, r),
           UNCHANGED state,
           \/ keys'["client_app"] = Used(keys["client_app"])
           \/ keys'["client_app"] = Updated(keys["client_app"]),
           call'.loop # "flight"
    PROVE  NoncesSpent'
<1> DEFINE cur == keys["client_app"]
<1>1. cur \in Key /\ cur.label = "client_app" /\ NonceUnique /\ AllSpent
  BY DEF TypeOK, Slots, NoncesSpent
<1>2. NonceUnique'
  <2>1. \A i \in 1..Len(out) : IsProtected(out[i]) => out[i].key # r.key
    BY <1>1, SpentFacts DEF AllSpent
  <2> QED
    BY <1>1, <2>1, FreshKeyKeepsUnique
<1>3. keys'["client_app"].label = "client_app"
  BY <1>1, SpentFacts
<1>4. AllSpent'
  <2> SUFFICES ASSUME NEW i \in 1..Len(out'), IsProtected(out'[i])
               PROVE  Spent(out'[i].key, keys'["client_app"])
    BY DEF AllSpent, IsProtected, Spent
  <2>1. CASE i \in 1..Len(out)
    <3>1. out'[i] = out[i] /\ out[i].key \in Key
      BY <2>1, OutAppended, OutElements
    <3>2. Spent(out[i].key, cur)
      BY <1>1, <2>1, <3>1 DEF AllSpent
    <3> QED
      BY <1>1, <3>1, <3>2, SpentFacts
  <2>2. CASE i = Len(out) + 1
    BY <1>1, <2>2, OutAppended, SpentFacts
  <2> QED
    BY <2>1, <2>2, OutAppended
<1> QED
  BY <1>2, <1>3, <1>4 DEF NoncesSpent

\* Steps that write nothing: they end the connection, or keep the write keys.
LEMMA SilentStepKeepsSpent ==
    ASSUME NoncesSpent, UNCHANGED out,
           \/ state' \notin {"HANDSHAKING", "CONNECTED"} /\ call'.loop # "flight"
           \/ /\ UNCHANGED <<state, keys>>
              /\ call'.loop = "flight" => call.loop = "flight"
    PROVE  NoncesSpent'
  BY DEF NoncesSpent, NonceUnique, NothingProtected, AllSpent

LEMMA FailKeepsSpent ==
    ASSUME NoncesSpent, NEW e, Fail(e), UNCHANGED out
    PROVE  NoncesSpent'
<1>1. state' = "FAILED" /\ call'.loop # "flight"
  BY DEF Fail, NoCall
<1> QED
  BY <1>1, SilentStepKeepsSpent

\* Steps that write nothing and touch only the read keys, or advance the write key.
LEMMA ReadKeyStepKeepsSpent ==
    ASSUME TypeOK, NoncesSpent, UNCHANGED <<out, state>>,
           NEW s \in {"server_hs", "server_app"}, NEW k, keys' = [keys EXCEPT ![s] = k],
           call'.loop = "flight" => call.loop = "flight"
    PROVE  NoncesSpent'
<1>1. keys'["client_app"] = keys["client_app"] /\ keys'["client_hs"] = keys["client_hs"]
  BY DEF TypeOK, Slots
<1> QED
  BY <1>1 DEF NoncesSpent, NonceUnique, NothingProtected, AllSpent

LEMMA CallsKeepSpent ==
    ASSUME TypeOK, Lifecycle, NoncesSpent, AppCall
    PROVE  NoncesSpent'
<1>1. NoCall.loop = "none" /\ call \in Call
  BY DEF NoCall, TypeOK
<1>2. CASE ConnectRefused \/ RecvRefused \/ SendRefused \/ KeyUpdateRefused
           \/ \E n \in 0..2 : RecvPending(n)
  <2>1. UNCHANGED <<out, state, keys>> /\ call' = NoCall
    BY <1>2 DEF ConnectRefused, RecvRefused, SendRefused, KeyUpdateRefused, NotConnected,
                RecvPending, Return, ownVars
  <2> QED
    BY <1>1, <2>1, SilentStepKeepsSpent
<1>3. ASSUME NEW e, ConnectFails(e) PROVE NoncesSpent'
  <2>1. out' = <<>> /\ state' = "FAILED" /\ call' = NoCall
    BY <1>3 DEF ConnectFails, Fail
  <2> QED
    BY <1>1, <2>1 DEF NoncesSpent, NonceUnique
<1>4. ASSUME NEW g \in Groups, Connect(g) PROVE NoncesSpent'
  <2>1. out' = <<PlainHandshake(<<Whole(FirstHello(g))>>)>> /\ state' = "HANDSHAKING"
    BY <1>4 DEF Connect
  <2>2. \A i \in 1..Len(out') : i = 1 /\ ~IsProtected(out'[i])
    <3>1. ~IsProtected(PlainHandshake(<<Whole(FirstHello(g))>>))
      BY DEF PlainHandshake, Blank, IsProtected
    <3>2. Len(out') = 1 /\ out'[1] = PlainHandshake(<<Whole(FirstHello(g))>>)
      BY <2>1
    <3>3. \A i \in 1..Len(out') : i = 1
      BY ONLY <3>2
    <3> QED
      BY <3>1, <3>2, <3>3
  <2>3. call'.loop = "hello"
    BY <1>1, <1>4, LoopOf DEF Connect, GoTo, Loops
  <2> QED
    BY <2>1, <2>2, <2>3 DEF NoncesSpent, NonceUnique, NothingProtected, IsProtected
<1>5. ASSUME NEW n \in 0..2, RecvStart(n) \/ Send(n) PROVE NoncesSpent'
  <2>1. UNCHANGED <<out, state, keys>>
    BY <1>5 DEF RecvStart, Send, ownVars
  <2>2. \/ call' = [call EXCEPT !.loop = "recv", !.want = n]
        \/ call' = [call EXCEPT !.loop = "send", !.todo = n]
    BY <1>5 DEF RecvStart, Send
  <2>3. call'.loop # "flight"
    BY ONLY <1>1, <2>2 DEF Call
  <2> QED
    BY <2>1, <2>3, SilentStepKeepsSpent
<1>6. ASSUME NEW request, NEW ok \in BOOLEAN, KeyUpdate(request, ok) PROVE NoncesSpent'
  <2>1. CASE ok
    <3> DEFINE r == ProtectedHandshake(keys["client_app"], <<Whole(KeyUpdateMsg(request))>>)
    <3>1. /\ out' = Append(out, r) /\ keys' = [keys EXCEPT !["client_app"] = Updated(@)]
          /\ UNCHANGED <<call, state>> /\ state = "CONNECTED" /\ call.loop = "none"
      BY <1>6, <2>1 DEF KeyUpdate, At
    <3>2. r.key = keys["client_app"]
      BY DEF ProtectedHandshake, Blank
    <3>3. keys'["client_app"] = Updated(keys["client_app"])
      BY <3>1 DEF TypeOK, Slots
    <3> HIDE DEF r
    <3> QED
      BY <3>1, <3>2, <3>3, AppRecordKeepsSpent
  <2>2. CASE ~ok
    BY <1>6, <2>2, FailKeepsSpent DEF KeyUpdate, FailWith
  <2> QED
    BY <2>1, <2>2
<1>7. ASSUME NEW ok \in BOOLEAN, Close(ok) PROVE NoncesSpent'
  <2> DEFINE r == ProtectedAlert(keys["client_app"], "close_notify")
  <2>1. state' = "CLOSED" /\ call'.loop = "none"
    BY <1>7 DEF Close, At, ownVars
  <2>2. CASE out' = out
    BY <2>1, <2>2, SilentStepKeepsSpent
  <2>3. CASE state = "CONNECTED" /\ out' = Append(out, r)
    <3>1. r.key = keys["client_app"]
      BY DEF ProtectedAlert, Blank
    <3>2. keys["client_app"] \in Key /\ keys["client_app"].label = "client_app"
      BY <2>3 DEF TypeOK, Slots, NoncesSpent
    <3> HIDE DEF r
    <3>3. \A i \in 1..Len(out) : IsProtected(out[i]) => out[i].key # r.key
      BY <2>3, <3>1, <3>2, SpentFacts DEF NoncesSpent, AllSpent
    <3>4. NonceUnique'
      BY <2>3, <3>3, FreshKeyKeepsUnique DEF NoncesSpent
    <3> QED
      BY <2>1, <3>4 DEF NoncesSpent
  <2> QED
    BY <1>7, <2>2, <2>3 DEF Close
<1>8. CASE Reset
  <2>1. state' = "IDLE" /\ UNCHANGED <<out, call>> /\ call.loop = "none"
    BY <1>8 DEF Reset, At
  <2> QED
    BY <2>1, SilentStepKeepsSpent
<1> QED
  BY <1>2, <1>3, <1>4, <1>5, <1>6, <1>7, <1>8 DEF AppCall

LEMMA LocalStepsKeepSpent ==
    ASSUME TypeOK, Lifecycle, NoncesSpent, LocalStep
    PROVE  NoncesSpent'
<1>1. NoCall.loop = "none" /\ call \in Call /\ keys \in [Slots -> Key]
  BY DEF NoCall, TypeOK
<1>2. /\ call.loop \in {"hello", "flight"} => state = "HANDSHAKING"
      /\ call.loop \in {"post", "send", "recv"} => state = "CONNECTED"
  BY DEF Lifecycle, CallsNest
<1>3. CASE HelloRejected \/ FlightRejected \/ PostRejected \/ PeerKeyUpdateFails
  BY <1>3, FailKeepsSpent DEF HelloRejected, FlightRejected, PostRejected, PeerKeyUpdateFails, FailWith
<1>4. ASSUME NEW ok \in BOOLEAN, HelloRetry(ok) PROVE NoncesSpent'
  <2> DEFINE r == PlainHandshake(<<Whole(ClientHello(First(buf).val))>>)
  <2>1. CASE ~ok
    BY <1>4, <2>1, FailKeepsSpent DEF HelloRetry, FailWith
  <2>2. CASE ok
    <3>1. /\ out' = Append(out, r) /\ UNCHANGED <<state, keys>>
          /\ call' = [call EXCEPT !.hadHrr = TRUE] /\ call.loop = "hello"
      BY <1>4, <2>2 DEF HelloRetry, AtHello, At
    <3>2. ~IsProtected(r)
      BY DEF PlainHandshake, Blank, IsProtected
    <3> HIDE DEF r
    <3>3. NothingProtected /\ state = "HANDSHAKING"
      BY <1>2, <3>1 DEF NoncesSpent
    <3>4. \A i \in 1..Len(out') : ~IsProtected(out'[i])
      BY <3>1, <3>2, <3>3, OutAppended DEF NothingProtected
    <3>5. call'.loop # "flight"
      BY <1>1, <3>1 DEF Call
    <3> QED
      BY <3>1, <3>3, <3>4, <3>5 DEF NoncesSpent, NonceUnique, NothingProtected, IsProtected
  <2> QED
    BY <2>1, <2>2
<1>5. CASE ServerHello
  <2> DEFINE th == Append(transcript, EntryOf(First(buf)))
  <2>1. /\ keys' = [keys EXCEPT !["client_hs"] = Derive("client_hs", th),
                                !["server_hs"] = Derive("server_hs", th)]
        /\ UNCHANGED <<state, out>> /\ call.loop = "hello"
    BY <1>5 DEF ServerHello, AtHello, At
  <2>2. keys'["client_hs"].label = "client_hs"
    BY <1>1, <2>1 DEF Derive, Slots
  <2> QED
    BY <1>2, <2>1, <2>2 DEF NoncesSpent, NonceUnique, NothingProtected
<1>6. CASE EncryptedExtensions \/ CertificateVerify \/ Certificate
  <2>1. UNCHANGED <<out, state, keys>> /\ call.loop = "flight"
    BY <1>6 DEF EncryptedExtensions, CertificateVerify, Certificate, FlightGoesOn, AtFlight, At,
                ownVars
  <2> QED
    BY <2>1, SilentStepKeepsSpent
<1>7. ASSUME NEW ok \in BOOLEAN, Finished(ok) PROVE NoncesSpent'
  <2>1. CASE ~ok
    BY <1>7, <2>1, FailKeepsSpent DEF Finished, FailWith
  <2>2. CASE ok
    <3> DEFINE th == ThroughServerFinished(First(buf))
               r  == ProtectedHandshake(keys["client_hs"], <<Whole(ClientFinished(th))>>)
    <3>1. /\ out' = Append(out, r) /\ state' = "CONNECTED" /\ call' = NoCall
          /\ keys' = [keys EXCEPT !["client_app"] = Derive("client_app", th),
                                  !["server_app"] = Derive("server_app", th),
                                  !["client_hs"] = Used(@)]
      BY <1>7, <2>2 DEF Finished
    <3>2. r.key = keys["client_hs"]
      BY DEF ProtectedHandshake, Blank
    <3>3. keys'["client_app"].label = "client_app"
      BY <1>1, <3>1 DEF Slots, Derive
    <3>4. call.loop = "flight"
      BY <1>7 DEF Finished, AtFlight, At
    <3> HIDE DEF r
    <3>5. NothingProtected /\ keys["client_hs"].label = "client_hs"
      BY <1>2, <3>4 DEF NoncesSpent
    <3>6. NonceUnique'
      BY <3>1, <3>5, FreshKeyKeepsUnique DEF NothingProtected, NoncesSpent
    <3>7. AllSpent'
      <4> SUFFICES ASSUME NEW i \in 1..Len(out'), IsProtected(out'[i])
                   PROVE  Spent(out'[i].key, keys'["client_app"])
        BY DEF AllSpent, IsProtected, Spent
      <4>1. CASE i \in 1..Len(out)
        BY <3>1, <3>5, <4>1, OutAppended DEF NothingProtected
      <4>2. CASE i = Len(out) + 1
        BY <3>1, <3>2, <3>5, <4>2, OutAppended DEF Spent
      <4> QED
        BY <3>1, <4>1, <4>2, OutAppended
    <3> QED
      BY <1>1, <3>1, <3>3, <3>6, <3>7 DEF NoncesSpent
  <2> QED
    BY <2>1, <2>2
<1>8. CASE PostDone
  <2>1. UNCHANGED <<out, state, keys>> /\ call'.loop = "recv"
    BY <1>1, <1>8, LoopOf DEF PostDone, GoTo, Loops, ownVars
  <2> QED
    BY <2>1, SilentStepKeepsSpent
<1>9. CASE NewSessionTicket
  <2>1. UNCHANGED <<out, state, keys, call>>
    BY <1>9 DEF NewSessionTicket, PostGoesOn
  <2> QED
    BY <2>1, SilentStepKeepsSpent
<1>10. CASE PeerKeyUpdate
  <2>1. UNCHANGED <<out, state, call>> /\ keys' = [keys EXCEPT !["server_app"] = Updated(@)]
    BY <1>10 DEF PeerKeyUpdate, PostGoesOn
  <2> QED
    BY <2>1, ReadKeyStepKeepsSpent
<1>11. CASE PeerKeyUpdateRequested
  <2> DEFINE r == ProtectedHandshake(keys["client_app"], <<Whole(KeyUpdateMsg(FALSE))>>)
  <2>1. /\ out' = Append(out, r) /\ UNCHANGED <<call, state>> /\ call.loop = "post"
        /\ keys' = [keys EXCEPT !["server_app"] = Updated(@), !["client_app"] = Updated(@)]
    BY <1>11 DEF PeerKeyUpdateRequested, AtKeyUpdate, AtPost, At, PostGoesOn
  <2>2. r.key = keys["client_app"]
    BY DEF ProtectedHandshake, Blank
  <2>3. keys'["client_app"] = Updated(keys["client_app"])
    BY <1>1, <2>1 DEF Slots
  <2> HIDE DEF r
  <2> QED
    BY <1>2, <2>1, <2>2, <2>3, AppRecordKeepsSpent
<1>12. ASSUME NEW ok \in BOOLEAN, SendChunk(ok) PROVE NoncesSpent'
  <2>1. CASE ~ok
    BY <1>12, <2>1, FailKeepsSpent DEF SendChunk, FailWith
  <2>2. CASE ok
    <3> DEFINE r == ProtectedData(keys["client_app"], <<accepted + 1>>)
    <3>1. /\ out' = Append(out, r) /\ UNCHANGED state /\ call.loop = "send"
          /\ keys' = [keys EXCEPT !["client_app"] = Used(@)]
          /\ call' = [call EXCEPT !.todo = @ - 1]
      BY <1>12, <2>2 DEF SendChunk, At
    <3>2. r.key = keys["client_app"]
      BY DEF ProtectedData, Blank
    <3>3. keys'["client_app"] = Used(keys["client_app"])
      BY <1>1, <3>1 DEF Slots
    <3>4. call'.loop # "flight"
      BY <1>1, <3>1 DEF Call
    <3> HIDE DEF r
    <3> QED
      BY <1>2, <3>1, <3>2, <3>3, <3>4, AppRecordKeepsSpent
  <2> QED
    BY <2>1, <2>2
<1>13. CASE SendDone
  <2>1. UNCHANGED <<out, state, keys>> /\ call' = NoCall
    BY <1>13 DEF SendDone, Return, ownVars
  <2> QED
    BY <1>1, <2>1, SilentStepKeepsSpent
<1> QED
  BY <1>3, <1>4, <1>5, <1>6, <1>7, <1>8, <1>9, <1>10, <1>11, <1>12, <1>13 DEF LocalStep

LEMMA RecordsKeepSpent ==
    ASSUME TypeOK, Lifecycle, NoncesSpent, NEW r, Receive(r)
    PROVE  NoncesSpent'
<1>1. UNCHANGED out
  BY DEF Receive, HelloRecord, FlightRecord, RecvRecord
<1>2. NoCall.loop = "none"
  BY DEF NoCall
<1>3. ASSUME RemoteClose PROVE NoncesSpent'
  BY <1>1, <1>2, <1>3, SilentStepKeepsSpent DEF RemoteClose
<1>4. \/ \E e : Fail(e)
      \/ RemoteClose
      \/ UNCHANGED <<state, keys, call>>
      \/ UNCHANGED <<state, call>> /\ keys' = Opened("server_hs")
      \/ UNCHANGED state /\ keys' = Opened("server_app") /\ (call' = NoCall \/ GoTo("post"))
  BY DEF Receive, HelloRecord, FlightRecord, RecvRecord, ownVars
<1>5. CASE UNCHANGED <<state, keys, call>>
  BY <1>1, <1>5, SilentStepKeepsSpent
<1>6. CASE UNCHANGED <<state, call>> /\ keys' = Opened("server_hs")
  BY <1>1, <1>6, ReadKeyStepKeepsSpent DEF Opened
<1>7. CASE UNCHANGED state /\ keys' = Opened("server_app") /\ (call' = NoCall \/ GoTo("post"))
  <2>1. [call EXCEPT !.loop = "post"].loop = "post"
    <3>1. call \in Call
      BY DEF TypeOK
    <3> QED
      BY <3>1, LoopOf DEF Loops
  <2>2. ASSUME call' = NoCall PROVE call'.loop # "flight"
    BY <1>2, <2>2
  <2>3. ASSUME GoTo("post") PROVE call'.loop # "flight"
    BY <2>1, <2>3 DEF GoTo
  <2>4. call'.loop # "flight"
    BY <1>7, <2>2, <2>3
  <2> QED
    BY <1>1, <1>7, <2>4, ReadKeyStepKeepsSpent DEF Opened
<1> QED
  BY <1>1, <1>3, <1>4, <1>5, <1>6, <1>7, FailKeepsSpent

\* No two records of a connection are protected under one key and sequence number: not
\* across the switch of send_protected() from the handshake to the application key, nor
\* across key updates of either side.
THEOREM NoncesAreUnique == Spec => []NonceUnique
<1>1. Init => NoncesSpent
  <2>1. Init => out = <<>> /\ state = "IDLE" /\ call = NoCall
    BY Zenon DEF Init
  <2>2. NoCall.loop = "none"
    BY DEF NoCall
  <2> QED
    BY <2>1, <2>2 DEF NoncesSpent, NonceUnique
<1>2. TypeOK /\ Lifecycle /\ NoncesSpent /\ [Next]_vars => NoncesSpent'
  <2> SUFFICES ASSUME TypeOK, Lifecycle, NoncesSpent, [Next]_vars PROVE NoncesSpent'
    OBVIOUS
  <2>1. CASE Next
    <3>1. ASSUME NEW e, ReadFails(e) PROVE NoncesSpent'
      BY <3>1, FailKeepsSpent DEF ReadFails
    <3> QED
      BY <2>1, <3>1, CallsKeepSpent, LocalStepsKeepSpent, RecordsKeepSpent DEF Next
  <2>2. CASE UNCHANGED vars
    BY <2>2, SilentStepKeepsSpent DEF vars, ownVars
  <2> QED
    BY <2>1, <2>2
<1>3. NoncesSpent => NonceUnique
  BY DEF NoncesSpent
<1> QED
  BY <1>1, <1>2, <1>3, TypeCorrect, LifecycleInvariant, PTL DEF Spec

-----------------------------------------------------------------------------
(* One connection.  Every step has one of eight effects on the keys, the                *)
(* authentication, the transcript and the records of a connection, and each invariant   *)
(* is shown to survive each effect.                                                      *)

\* Outside process_server_handshake() there is no certificate.
NoCert  == call.loop # "flight" => call.cert = "none"
Dropped == /\ call'.loop # "flight"
           /\ call'.cert = "none" \/ (call.loop # "flight" /\ call'.cert = call.cert)

\* Only the read keys in use may have opened records or been updated.
KeysKept == \A s \in Slots :
               \/ keys'[s] = keys[s]
               \/ /\ \/ s = "server_hs" /\ call.loop = "flight"
                     \/ s = "server_app" /\ state = "CONNECTED"
                  /\ keys'[s].th = keys[s].th

NotesKept == state' = "HANDSHAKING" => UNCHANGED <<pending, lastAlert>>

\* The effects: the connection is over, has begun, or goes on with ...
Ended ==
    /\ ~Live' /\ Dropped
    /\ \/ out' = out \/ out' = <<>>
       \/ /\ state = "CONNECTED"
          /\ out' = Append(out, ProtectedAlert(keys["client_app"], "close_notify"))
Began(g) ==
    /\ state' = "HANDSHAKING" /\ keys' = Wiped /\ authentic' = "none" /\ conn' = conn + 1
    /\ call'.loop = "hello" /\ Dropped
    /\ transcript' = <<EntryOf(FirstHello(g))>>
    /\ out' = <<PlainHandshake(<<Whole(FirstHello(g))>>)>>
    /\ pending' = <<>> /\ lastAlert' = "none"
\* ... nothing hashed and nothing written;
Kept ==
    /\ Live /\ UNCHANGED <<state, conn, transcript, share, authentic, out>>
    /\ KeysKept /\ NotesKept
    /\ \/ call.loop = "flight" /\ call'.loop = "flight" /\ call'.cert = call.cert
       \/ call.loop # "flight" /\ Dropped
\* ... a second ClientHello;
Retried(e, f, r) ==
    /\ call.loop = "hello" /\ call'.loop = "hello" /\ Dropped
    /\ transcript' = transcript \o <<e, f>> /\ e \in Entry /\ f \in Entry
    /\ out' = Append(out, PlainHandshake(r))
    /\ UNCHANGED <<state, conn, keys, authentic, pending, lastAlert>>
\* ... the handshake keys;
Answered(e) ==
    /\ call.loop = "hello" /\ call'.loop = "flight" /\ call'.cert = call.cert
    /\ e \in Entry /\ e.type = "server_hello" /\ e.val = share
    /\ transcript' = Append(transcript, e)
    /\ keys' = [keys EXCEPT !["client_hs"] = Derive("client_hs", transcript'),
                            !["server_hs"] = Derive("server_hs", transcript')]
    /\ UNCHANGED <<state, conn, share, authentic, out, pending, lastAlert>>
\* ... a message of the server's flight;
FlightHashed(e) ==
    /\ call.loop = "flight" /\ call'.loop = "flight"
    /\ e \in Entry /\ transcript' = Append(transcript, e)
    /\ \/ e.type = "encrypted_extensions" /\ call'.cert = call.cert /\ UNCHANGED authentic
       \/ e.type = "certificate" /\ call'.cert = e.val /\ UNCHANGED authentic
       \/ /\ e.type = "certificate_verify" /\ e.val = call.cert /\ call.cert \in Trusted
          /\ call'.cert = call.cert /\ authentic' = call.cert
    /\ UNCHANGED <<state, conn, share, keys, out, pending, lastAlert>>
\* ... the application keys;
Established(e, th) ==
    /\ call.loop = "flight" /\ state' = "CONNECTED" /\ Dropped
    /\ e \in Entry /\ e.type = "finished" /\ e.val = "server" /\ th = Append(transcript, e)
    /\ transcript' = Append(th, EntryOf(ClientFinished(th)))
    /\ keys' = [keys EXCEPT !["client_app"] = Derive("client_app", th),
                            !["server_app"] = Derive("server_app", th),
                            !["client_hs"] = Used(@)]
    /\ out' = Append(out, ProtectedHandshake(keys["client_hs"], <<Whole(ClientFinished(th))>>))
    /\ UNCHANGED <<conn, share, authentic>>
\* ... a record under the application key.
Wrote(r) ==
    /\ state = "CONNECTED" /\ UNCHANGED <<state, conn, transcript, share, authentic>>
    /\ call.loop # "flight" /\ Dropped
    /\ out' = Append(out, r) /\ r.key = keys["client_app"]
    /\ \/ /\ r.inner = "handshake" /\ r.hs[1].msg.type = "key_update"
          /\ keys'["client_app"] = Updated(keys["client_app"])
       \/ r.inner = "application_data" /\ keys'["client_app"] = Used(keys["client_app"])
    /\ \A s \in Slots : keys'[s].th = keys[s].th

Effect ==
    \/ Ended \/ Kept
    \/ \E g \in Groups : Began(g)
    \/ \E e, f, r : Retried(e, f, r)
    \/ \E e : Answered(e) \/ FlightHashed(e)
    \/ \E e, th : Established(e, th)
    \/ \E r : Wrote(r)

LEMMA KeyChanges == \A k \in Key : Used(k).th = k.th /\ Updated(k).th = k.th
  BY DEF Used, Updated, Key

LEMMA CallChanges ==
    /\ NoCall.loop = "none" /\ NoCall.cert = "none"
    /\ \A c \in Call : /\ \A l \in Loops : /\ [c EXCEPT !.loop = l].loop = l
                                           /\ [c EXCEPT !.loop = l].cert = c.cert
                       /\ [c EXCEPT !.hadHrr = TRUE].loop = c.loop
                       /\ [c EXCEPT !.hadHrr = TRUE].cert = c.cert
                       /\ [c EXCEPT !.todo = @ - 1].loop = c.loop
                       /\ [c EXCEPT !.todo = @ - 1].cert = c.cert
                       /\ \A x : /\ [c EXCEPT !.cert = x].loop = c.loop
                                 /\ [c EXCEPT !.cert = x].cert = x
                                 /\ [c EXCEPT !.loop = "recv", !.want = x].loop = "recv"
                                 /\ [c EXCEPT !.loop = "recv", !.want = x].cert = c.cert
                                 /\ [c EXCEPT !.loop = "send", !.todo = x].loop = "send"
                                 /\ [c EXCEPT !.loop = "send", !.todo = x].cert = c.cert
  BY DEF NoCall, Call

LEMMA FailEffect == ASSUME NEW e, Fail(e), UNCHANGED out PROVE Effect
  BY CallChanges DEF Fail, Effect, Ended, Dropped, Live

\* A call that returns and leaves the rest alone.
LEMMA ReturnEffect ==
    ASSUME Lifecycle, NoCert, call.loop \notin {"hello", "flight"}, call' = NoCall,
           UNCHANGED <<state, conn, transcript, share, authentic, out, keys>>
    PROVE  Effect
<1>1. Dropped
  BY CallChanges DEF Dropped
<1>2. KeysKept
  BY DEF KeysKept
<1>3. state # "HANDSHAKING"
  BY DEF Lifecycle, CallsNest
<1> QED
  BY <1>1, <1>2, <1>3 DEF Effect, Kept, Ended, Live, NotesKept

LEMMA StutterEffect == ASSUME Lifecycle, UNCHANGED vars PROVE Effect
<1>1. ~Live => call.loop # "flight"
  BY DEF Lifecycle, CallsNest, Live
<1> QED
  BY <1>1 DEF vars, ownVars, noteVars, handshakeVars, dataVars, Effect, Kept, Ended, Dropped,
              KeysKept, NotesKept, Live

LEMMA ConnectEffect == ASSUME TypeOK, Lifecycle, NEW g \in Groups, Connect(g) PROVE Effect
<1>1. call \in Call /\ call.loop = "none" /\ "hello" \in Loops /\ keys = Wiped
  BY DEF TypeOK, Loops, Connect, BeginConnect, At, Lifecycle, SecretsWiped, Live
<1>2. call'.loop = "hello" /\ call'.cert = call.cert
  BY <1>1, CallChanges DEF Connect, GoTo
<1>3. Dropped
  BY <1>1, <1>2 DEF Dropped
<1>4. Began(g)
  BY <1>1, <1>2, <1>3 DEF Connect, BeginConnect, Began
<1> QED
  BY <1>4 DEF Effect

LEMMA CallEffects == ASSUME TypeOK, Lifecycle, NoCert, AppCall PROVE Effect
<1>0. call \in Call /\ keys \in [Slots -> Key]
  BY DEF TypeOK
<1>1. CASE ConnectRefused \/ RecvRefused \/ SendRefused \/ KeyUpdateRefused
           \/ \E n \in 0..2 : RecvPending(n)
  <2>1. call' = NoCall /\ call.loop = "none" /\ UNCHANGED <<ownVars, noteVars, handshakeVars, out>>
    BY <1>1 DEF ConnectRefused, RecvRefused, SendRefused, KeyUpdateRefused, NotConnected,
                RecvPending, Return, At
  <2> QED
    BY <2>1, ReturnEffect DEF ownVars, noteVars, handshakeVars
<1>2. ASSUME NEW e, ConnectFails(e) PROVE Effect
  BY <1>2, CallChanges DEF ConnectFails, Fail, Effect, Ended, Dropped, Live
<1>3. ASSUME NEW n \in 0..2, RecvStart(n) \/ Send(n) PROVE Effect
  <2>1. call'.loop # "flight" /\ call'.cert = call.cert /\ call.loop = "none"
    <3>1. \/ call' = [call EXCEPT !.loop = "recv", !.want = n]
          \/ call' = [call EXCEPT !.loop = "send", !.todo = n]
      BY <1>3 DEF RecvStart, Send
    <3>2. call'.loop # "flight" /\ call'.cert = call.cert
      <4>1. CASE call' = [call EXCEPT !.loop = "recv", !.want = n]
        BY <1>0, <4>1 DEF Call
      <4>2. CASE call' = [call EXCEPT !.loop = "send", !.todo = n]
        BY <1>0, <4>2 DEF Call
      <4> QED
        BY <3>1, <4>1, <4>2
    <3> QED
      BY <1>3, <3>2 DEF RecvStart, Send, At
  <2>2. state = "CONNECTED" /\ UNCHANGED <<ownVars, noteVars, handshakeVars, dataVars, out>>
    BY <1>3 DEF RecvStart, Send
  <2> QED
    BY <2>1, <2>2 DEF ownVars, noteVars, handshakeVars, Effect, Kept, Dropped, KeysKept,
                      NotesKept, Live
<1>4. ASSUME NEW request \in BOOLEAN, NEW ok \in BOOLEAN, KeyUpdate(request, ok) PROVE Effect
  <2>1. CASE ok
    <3> DEFINE r == ProtectedHandshake(keys["client_app"], <<Whole(KeyUpdateMsg(request))>>)
    <3>1. r.key = keys["client_app"] /\ r.inner = "handshake" /\ r.hs[1].msg.type = "key_update"
      BY DEF ProtectedHandshake, Blank, Whole, KeyUpdateMsg, Msg
    <3>2. /\ keys' = [keys EXCEPT !["client_app"] = Updated(@)] /\ out' = Append(out, r)
          /\ UNCHANGED <<call, state, share>> /\ UNCHANGED <<noteVars, handshakeVars>>
          /\ state = "CONNECTED" /\ call.loop = "none"
      BY <1>4, <2>1 DEF KeyUpdate, At
    <3>3. keys'["client_app"] = Updated(keys["client_app"])
      BY <1>0, <3>2 DEF Slots
    <3>4. \A s \in Slots : keys'[s].th = keys[s].th
      BY <1>0, <3>2, KeyChanges DEF Slots
    <3>5. Dropped
      BY <3>2 DEF Dropped
    <3> HIDE DEF r
    <3>6. Wrote(r)
      BY <3>1, <3>2, <3>3, <3>4, <3>5 DEF Wrote, noteVars, handshakeVars
    <3> QED
      BY <3>6 DEF Effect
  <2>2. CASE ~ok
    BY <1>4, <2>2, FailEffect DEF KeyUpdate, FailWith
  <2> QED
    BY <2>1, <2>2
<1>5. ASSUME NEW ok \in BOOLEAN, Close(ok) PROVE Effect
  <2>1. state' = "CLOSED" /\ call' = call /\ call.loop = "none"
    BY <1>5 DEF Close, At, ownVars
  <2>2. \/ out' = out
        \/ /\ state = "CONNECTED"
           /\ out' = Append(out, ProtectedAlert(keys["client_app"], "close_notify"))
    BY <1>5 DEF Close
  <2> QED
    BY <2>1, <2>2 DEF Effect, Ended, Dropped, Live
<1>6. CASE Reset
  BY <1>6 DEF Reset, At, Effect, Ended, Dropped, Live
<1> QED
  BY <1>1, <1>2, <1>3, <1>4, <1>5, <1>6, ConnectEffect DEF AppCall

LEMMA HandshakeEffects ==
    ASSUME TypeOK, Lifecycle, NoCert,
           \/ HelloRejected \/ FlightRejected \/ \E ok \in BOOLEAN : HelloRetry(ok)
           \/ ServerHello \/ EncryptedExtensions \/ Certificate \/ CertificateVerify
           \/ \E ok \in BOOLEAN : Finished(ok)
    PROVE  Effect
<1>0. call \in Call /\ keys \in [Slots -> Key] /\ "flight" \in Loops
  BY DEF TypeOK, Loops
<1>a. Complete(buf) => First(buf) \in Message /\ EntryOf(First(buf)) \in Entry
  BY BufferTyped, MessageTyped DEF TypeOK
<1>1. CASE HelloRejected \/ FlightRejected
  BY <1>1, FailEffect DEF HelloRejected, FlightRejected
<1>2. ASSUME NEW ok \in BOOLEAN, HelloRetry(ok) PROVE Effect
  <2> DEFINE m == First(buf)  h == ClientHello(m.val)
  <2>1. CASE ok
    <3>1. /\ transcript' = transcript \o <<EntryOf(m), EntryOf(h)>>
          /\ out' = Append(out, PlainHandshake(<<Whole(h)>>))
          /\ call' = [call EXCEPT !.hadHrr = TRUE] /\ call.loop = "hello" /\ Complete(buf)
          /\ m.val \in Groups
      BY <1>2, <2>1 DEF HelloRetry, AtHello, At, HelloError
    <3>2. UNCHANGED <<state, conn, keys, authentic, pending, lastAlert>>
      BY <1>2, <2>1 DEF HelloRetry, noteVars, dataVars
    <3>3. EntryOf(m) \in Entry /\ EntryOf(h) \in Entry
      <4>1. conn \in Nat
        BY DEF TypeOK
      <4> QED
        BY <1>a, <3>1, <4>1, FirstHelloTyped DEF ClientHello
    <3>4. call'.loop = "hello" /\ call'.cert = call.cert
      BY <1>0, <3>1, CallChanges
    <3>5. Dropped
      BY <3>1, <3>4 DEF Dropped
    <3> HIDE DEF m, h
    <3>6. Retried(EntryOf(m), EntryOf(h), <<Whole(h)>>)
      BY <3>1, <3>2, <3>3, <3>4, <3>5 DEF Retried
    <3> QED
      BY <3>6 DEF Effect
  <2>2. CASE ~ok
    BY <1>2, <2>2, FailEffect DEF HelloRetry, FailWith
  <2> QED
    BY <2>1, <2>2
<1>3. CASE ServerHello
  <2> DEFINE e == EntryOf(First(buf))
  <2>1. /\ transcript' = Append(transcript, e) /\ call.loop = "hello" /\ GoTo("flight")
        /\ keys' = [keys EXCEPT !["client_hs"] = Derive("client_hs", transcript'),
                                !["server_hs"] = Derive("server_hs", transcript')]
        /\ UNCHANGED <<state, conn, share, authentic, out, pending, lastAlert>>
    BY <1>3 DEF ServerHello, AtHello, At, noteVars, dataVars
  <2>2. e \in Entry /\ e.type = "server_hello"
    BY <1>a, <1>3 DEF ServerHello, AtHello, EntryOf
  <2>3. e.val = share
    BY <1>3 DEF ServerHello, HelloError, EntryOf
  <2>4. call'.loop = "flight" /\ call'.cert = call.cert
    BY <1>0, <2>1, CallChanges DEF GoTo
  <2> HIDE DEF e
  <2>5. Answered(e)
    BY <2>1, <2>2, <2>3, <2>4 DEF Answered
  <2> QED
    BY <2>5 DEF Effect
<1>4. CASE EncryptedExtensions \/ Certificate \/ CertificateVerify
  <2> DEFINE m == First(buf)  e == EntryOf(m)
  <2>1. /\ transcript' = Append(transcript, e) /\ call.loop = "flight" /\ Complete(buf)
        /\ UNCHANGED <<state, conn, share, keys, out, pending, lastAlert>>
    BY <1>4 DEF EncryptedExtensions, Certificate, CertificateVerify, FlightGoesOn, Hashed,
                AtFlight, At, ownVars, dataVars
  <2>2. e \in Entry /\ e.type = m.type /\ e.val = m.val
    BY <1>a, <2>1 DEF EntryOf
  <2>3. call'.loop = "flight"
    <3>1. call' = call \/ call' = [call EXCEPT !.cert = m.val]
      BY <1>4 DEF EncryptedExtensions, Certificate, CertificateVerify
    <3>2. [call EXCEPT !.cert = m.val].loop = call.loop
      BY <1>0 DEF Call
    <3> QED
      BY <2>1, <3>1, <3>2
  <2>4. \/ m.type = "encrypted_extensions" /\ call'.cert = call.cert /\ UNCHANGED authentic
        \/ m.type = "certificate" /\ call'.cert = m.val /\ UNCHANGED authentic
        \/ /\ m.type = "certificate_verify" /\ m.val = call.cert /\ call.cert \in Trusted
           /\ call'.cert = call.cert /\ authentic' = call.cert
    <3>1. CASE EncryptedExtensions
      BY <3>1 DEF EncryptedExtensions, AtFlight
    <3>2. CASE Certificate
      BY <1>0, <3>2, CallChanges DEF Certificate, AtFlight
    <3>3. CASE CertificateVerify
      <4>1. m.type = "certificate_verify" /\ authentic' = call.cert /\ call' = call
        BY <3>3 DEF CertificateVerify, AtFlight
      <4>2. Authenticates(m)
        BY <3>3, <4>1 DEF CertificateVerify, FlightError
      <4> QED
        BY <4>1, <4>2 DEF Authenticates
    <3> QED
      BY <1>4, <3>1, <3>2, <3>3
  <2> HIDE DEF e, m
  <2>5. FlightHashed(e)
    BY <2>1, <2>2, <2>3, <2>4 DEF FlightHashed
  <2> QED
    BY <2>5 DEF Effect
<1>5. ASSUME NEW ok \in BOOLEAN, Finished(ok) PROVE Effect
  <2> DEFINE e == EntryOf(First(buf))  th == ThroughServerFinished(First(buf))
  <2>1. CASE ok
    <3>1. /\ th = Append(transcript, e) /\ call.loop = "flight" /\ Complete(buf)
          /\ First(buf).type = "finished"
      BY <1>5 DEF Finished, AtFlight, At, ThroughServerFinished
    <3>2. /\ transcript' = Append(th, EntryOf(ClientFinished(th)))
          /\ state' = "CONNECTED" /\ call' = NoCall
          /\ keys' = [keys EXCEPT !["client_app"] = Derive("client_app", th),
                                  !["server_app"] = Derive("server_app", th),
                                  !["client_hs"] = Used(@)]
          /\ out' = Append(out, ProtectedHandshake(keys["client_hs"],
                                                   <<Whole(ClientFinished(th))>>))
          /\ UNCHANGED <<conn, share, authentic>>
      BY <1>5, <2>1 DEF Finished, noteVars
    <3>3. e \in Entry /\ e.type = "finished"
      BY <1>a, <3>1 DEF EntryOf
    <3>4. e.val = "server"
      <4>1. Verifies(First(buf))
        BY <1>5, <3>1 DEF Finished, FlightError
      <4> QED
        BY <4>1 DEF Verifies, EntryOf
    <3>5. Dropped
      BY <3>2, CallChanges DEF Dropped
    <3> HIDE DEF e, th
    <3>6. Established(e, th)
      BY <3>1, <3>2, <3>3, <3>4, <3>5 DEF Established
    <3> QED
      BY <3>6 DEF Effect
  <2>2. CASE ~ok
    BY <1>5, <2>2, FailEffect DEF Finished, FailWith
  <2> QED
    BY <2>1, <2>2
<1> QED
  BY <1>1, <1>2, <1>3, <1>4, <1>5

LEMMA ConnectedEffects ==
    ASSUME TypeOK, Lifecycle, NoCert,
           \/ PostDone \/ NewSessionTicket \/ PostRejected \/ PeerKeyUpdate
           \/ PeerKeyUpdateRequested \/ PeerKeyUpdateFails
           \/ SendDone \/ \E ok \in BOOLEAN : SendChunk(ok)
    PROVE  Effect
<1>0. call \in Call /\ keys \in [Slots -> Key] /\ "recv" \in Loops
  BY DEF TypeOK, Loops
<1>a. call.loop \in {"post", "send"} => state = "CONNECTED"
  BY DEF Lifecycle, CallsNest
<1>1. CASE PostDone
  <2>1. call.loop = "post" /\ GoTo("recv")
        /\ UNCHANGED <<state, conn, transcript, share, authentic, out, keys, pending, lastAlert>>
    BY <1>1 DEF PostDone, At, ownVars, noteVars, handshakeVars, dataVars
  <2>2. call'.loop = "recv" /\ call'.cert = call.cert
    BY <1>0, <2>1, CallChanges DEF GoTo
  <2> QED
    BY <1>a, <2>1, <2>2 DEF Effect, Kept, Dropped, KeysKept, NotesKept, Live
<1>2. CASE NewSessionTicket
  <2>1. call.loop = "post" /\ UNCHANGED <<call, state, conn, transcript, share, authentic, out,
                                          keys, pending, lastAlert>>
    BY <1>2 DEF NewSessionTicket, AtPost, At, PostGoesOn, noteVars, dataVars
  <2> QED
    BY <1>a, <2>1 DEF Effect, Kept, Dropped, KeysKept, NotesKept, Live
<1>3. CASE PostRejected \/ PeerKeyUpdateFails
  BY <1>3, FailEffect DEF PostRejected, PeerKeyUpdateFails, FailWith
<1>4. CASE PeerKeyUpdate
  <2>1. /\ call.loop = "post" /\ keys' = [keys EXCEPT !["server_app"] = Updated(@)]
        /\ UNCHANGED <<call, state, conn, transcript, share, authentic, out, pending, lastAlert>>
    BY <1>4 DEF PeerKeyUpdate, AtKeyUpdate, AtPost, At, PostGoesOn, noteVars, dataVars
  <2>2. KeysKept
    BY <1>0, <1>a, <2>1, KeyChanges DEF KeysKept, Slots
  <2> QED
    BY <1>a, <2>1, <2>2 DEF Effect, Kept, Dropped, NotesKept, Live
<1>5. CASE PeerKeyUpdateRequested
  <2> DEFINE r == ProtectedHandshake(keys["client_app"], <<Whole(KeyUpdateMsg(FALSE))>>)
  <2>1. r.key = keys["client_app"] /\ r.inner = "handshake" /\ r.hs[1].msg.type = "key_update"
    BY DEF ProtectedHandshake, Blank, Whole, KeyUpdateMsg, Msg
  <2>2. /\ keys' = [keys EXCEPT !["server_app"] = Updated(@), !["client_app"] = Updated(@)]
        /\ out' = Append(out, r) /\ call.loop = "post"
        /\ UNCHANGED <<call, state, conn, transcript, share, authentic>>
    BY <1>5 DEF PeerKeyUpdateRequested, AtKeyUpdate, AtPost, At, PostGoesOn, noteVars
  <2>3. keys'["client_app"] = Updated(keys["client_app"])
    BY <1>0, <2>2 DEF Slots
  <2>4. \A s \in Slots : keys'[s].th = keys[s].th
    BY <1>0, <2>2, KeyChanges DEF Slots
  <2>5. Dropped
    BY <2>2 DEF Dropped
  <2> HIDE DEF r
  <2>6. Wrote(r)
    BY <1>a, <2>1, <2>2, <2>3, <2>4, <2>5 DEF Wrote
  <2> QED
    BY <2>6 DEF Effect
<1>6. ASSUME NEW ok \in BOOLEAN, SendChunk(ok) PROVE Effect
  <2>1. CASE ok
    <3> DEFINE r == ProtectedData(keys["client_app"], <<accepted + 1>>)
    <3>1. r.key = keys["client_app"] /\ r.inner = "application_data"
      BY DEF ProtectedData, Blank
    <3>2. /\ keys' = [keys EXCEPT !["client_app"] = Used(@)]
          /\ out' = Append(out, r) /\ call.loop = "send" /\ call' = [call EXCEPT !.todo = @ - 1]
          /\ UNCHANGED <<state, conn, transcript, share, authentic>>
      BY <1>6, <2>1 DEF SendChunk, At, noteVars, handshakeVars
    <3>3. keys'["client_app"] = Used(keys["client_app"])
      BY <1>0, <3>2 DEF Slots
    <3>4. \A s \in Slots : keys'[s].th = keys[s].th
      BY <1>0, <3>2, KeyChanges DEF Slots
    <3>5. Dropped
      BY <1>0, <3>2, CallChanges DEF Dropped
    <3> HIDE DEF r
    <3>6. Wrote(r)
      BY <1>a, <3>1, <3>2, <3>3, <3>4, <3>5 DEF Wrote
    <3> QED
      BY <3>6 DEF Effect
  <2>2. CASE ~ok
    BY <1>6, <2>2, FailEffect DEF SendChunk, FailWith
  <2> QED
    BY <2>1, <2>2
<1>7. CASE SendDone
  <2>1. call' = NoCall /\ call.loop = "send"
        /\ UNCHANGED <<ownVars, noteVars, handshakeVars, dataVars, out>>
    BY <1>7 DEF SendDone, Return, At
  <2> QED
    BY <2>1, ReturnEffect DEF ownVars, noteVars, handshakeVars
<1> QED
  BY <1>1, <1>2, <1>3, <1>4, <1>5, <1>6, <1>7

LEMMA ReadEffects ==
    ASSUME TypeOK, Lifecycle, NoCert,
           \/ \E r : Receive(r)
           \/ \E e \in {"CLOSED", "IO", "BAD_RECORD"} : ReadFails(e)
    PROVE  Effect
<1>0. call \in Call /\ keys \in [Slots -> Key] /\ "post" \in Loops
  BY DEF TypeOK, Loops
<1>a. /\ call.loop \in {"hello", "flight"} => state = "HANDSHAKING"
      /\ call.loop = "recv" => state = "CONNECTED"
  BY DEF Lifecycle, CallsNest
<1>1. ASSUME NEW e, ReadFails(e) PROVE Effect
  BY <1>1, FailEffect DEF ReadFails
<1>2. ASSUME NEW r, HelloRecord(r) PROVE Effect
  <2>1. call.loop = "hello" /\ UNCHANGED <<conn, transcript, authentic, pending, out>>
    BY <1>2 DEF HelloRecord, At, dataVars
  <2>2. \/ \E e : Fail(e)
        \/ UNCHANGED <<call, state, share, keys, lastAlert>>
    BY <1>2 DEF HelloRecord, ownVars
  <2>3. CASE UNCHANGED <<call, state, share, keys, lastAlert>>
    BY <1>a, <2>1, <2>3 DEF Effect, Kept, Dropped, KeysKept, NotesKept, Live
  <2> QED
    BY <2>1, <2>2, <2>3, FailEffect
<1>3. ASSUME NEW r, FlightRecord(r) PROVE Effect
  <2>1. call.loop = "flight" /\ UNCHANGED <<conn, transcript, authentic, pending, out>>
    BY <1>3 DEF FlightRecord, At, dataVars
  <2>2. \/ \E e : Fail(e)
        \/ /\ UNCHANGED <<call, state, share, lastAlert>>
           /\ keys' = keys \/ keys' = Opened("server_hs")
    BY <1>3 DEF FlightRecord, ownVars
  <2>3. ASSUME keys' = keys \/ keys' = Opened("server_hs") PROVE KeysKept
    BY <1>0, <2>1, <2>3, KeyChanges DEF KeysKept, Opened, Slots
  <2> QED
    BY <1>a, <2>1, <2>2, <2>3, FailEffect DEF Effect, Kept, NotesKept, Live
<1>4. ASSUME NEW r, RecvRecord(r) PROVE Effect
  <2>1. call.loop = "recv" /\ UNCHANGED <<conn, transcript, authentic, out>>
    BY <1>4 DEF RecvRecord, At
  <2>2. \/ \E e : Fail(e)
        \/ RemoteClose
        \/ /\ UNCHANGED <<state, share>>
           /\ keys' = keys \/ keys' = Opened("server_app")
           /\ UNCHANGED call \/ call' = NoCall \/ GoTo("post")
    BY <1>4 DEF RecvRecord, ownVars
  <2>3. ASSUME keys' = keys \/ keys' = Opened("server_app") PROVE KeysKept
    BY <1>0, <1>a, <2>1, <2>3, KeyChanges DEF KeysKept, Opened, Slots
  <2>4. ASSUME UNCHANGED call \/ call' = NoCall \/ GoTo("post") PROVE Dropped
    <3>1. [call EXCEPT !.loop = "post"].loop = "post" /\ [call EXCEPT !.loop = "post"].cert = call.cert
      BY ONLY <1>0, CallChanges, ZenonT(30)
    <3> QED
      BY <2>1, <2>4, <3>1, CallChanges DEF Dropped, GoTo
  <2>5. CASE RemoteClose
    BY <2>1, <2>5, CallChanges DEF RemoteClose, Effect, Ended, Dropped, Live
  <2> QED
    BY <1>a, <2>1, <2>2, <2>3, <2>4, <2>5, FailEffect DEF Effect, Kept, NotesKept, Live
<1> QED
  BY <1>1, <1>2, <1>3, <1>4 DEF Receive

LEMMA StepEffects == ASSUME TypeOK, Lifecycle, NoCert, [Next]_vars PROVE Effect
  BY CallEffects, HandshakeEffects, ConnectedEffects, ReadEffects, StutterEffect
     DEF Next, LocalStep

-----------------------------------------------------------------------------
(* Lemmas about the transcript *)

Extends(u, t) == /\ Len(t) \in Nat /\ Len(u) \in Nat /\ Len(t) <= Len(u)
                 /\ \A i \in 1..Len(t) : u[i] = t[i]

LEMMA Growing ==
    ASSUME NEW t \in Seq(Entry), NEW e \in Entry, NEW f \in Entry
    PROVE  /\ Append(t, e) \in Seq(Entry) /\ Extends(Append(t, e), t)
           /\ Len(Append(t, e)) = Len(t) + 1 /\ Append(t, e)[Len(t) + 1] = e
           /\ t \o <<e, f>> \in Seq(Entry) /\ Extends(t \o <<e, f>>, t)
<1>1. Len(t) \in Nat
  OBVIOUS
<1>2. Append(t, e) \in Seq(Entry) /\ Len(Append(t, e)) = Len(t) + 1
      /\ Append(t, e)[Len(t) + 1] = e /\ \A i \in 1..Len(t) : Append(t, e)[i] = t[i]
  OBVIOUS
<1>3. <<e, f>> \in Seq(Entry) /\ Len(<<e, f>>) = 2
  OBVIOUS
<1>4. t \o <<e, f>> \in Seq(Entry) /\ Len(t \o <<e, f>>) = Len(t) + 2
      /\ \A i \in 1..Len(t) : (t \o <<e, f>>)[i] = t[i]
  BY <1>3, ConcatProperties
<1> QED
  BY <1>1, <1>2, <1>4 DEF Extends

LEMMA ClientFinishedTyped ==
    \A th : LET f == EntryOf(ClientFinished(th))
            IN  f \in Entry /\ f.type = "finished" /\ f.val = "client"
  BY DEF ClientFinished, Covering, EntryOf, Entry, HandshakeTypes, Values

\* What each effect that hashes something does to the transcript.
LEMMA TranscriptGrows ==
    ASSUME TypeOK
    PROVE  /\ \A e, f, r : Retried(e, f, r) => Extends(transcript', transcript)
           /\ \A e : Answered(e) \/ FlightHashed(e) => Extends(transcript', transcript)
           /\ \A e, th : Established(e, th) =>
                 /\ Extends(transcript', transcript) /\ Extends(transcript', th)
                 /\ Extends(th, transcript) /\ th \in Seq(Entry)
                 /\ Len(th) = Len(transcript) + 1 /\ th[Len(th)] = e
                 /\ Len(transcript') = Len(th) + 1
                 /\ transcript'[Len(transcript')] = EntryOf(ClientFinished(th))
<1>0. transcript \in Seq(Entry)
  BY DEF TypeOK
<1>1. ASSUME NEW e, NEW f, NEW r, Retried(e, f, r) PROVE Extends(transcript', transcript)
  BY <1>0, <1>1, Growing DEF Retried
<1>2. ASSUME NEW e, Answered(e) \/ FlightHashed(e) PROVE Extends(transcript', transcript)
  BY <1>0, <1>2, Growing DEF Answered, FlightHashed
<1>3. ASSUME NEW e, NEW th, Established(e, th)
      PROVE  /\ Extends(transcript', transcript) /\ Extends(transcript', th)
             /\ Extends(th, transcript) /\ th \in Seq(Entry)
             /\ Len(th) = Len(transcript) + 1 /\ th[Len(th)] = e
             /\ Len(transcript') = Len(th) + 1
             /\ transcript'[Len(transcript')] = EntryOf(ClientFinished(th))
  <2>1. e \in Entry /\ th = Append(transcript, e)
        /\ transcript' = Append(th, EntryOf(ClientFinished(th)))
    BY <1>3 DEF Established
  <2>2. /\ th \in Seq(Entry) /\ Extends(th, transcript)
        /\ Len(th) = Len(transcript) + 1 /\ th[Len(th)] = e
    BY <1>0, <2>1, Growing
  <2>3. /\ Extends(transcript', th) /\ Len(transcript') = Len(th) + 1
        /\ transcript'[Len(transcript')] = EntryOf(ClientFinished(th))
    BY <2>1, <2>2, Growing, ClientFinishedTyped
  <2>4. Extends(transcript', transcript)
    <3>1. 1..Len(transcript) \subseteq 1..Len(th) /\ Len(transcript) <= Len(transcript')
      BY <2>2, <2>3 DEF Extends
    <3> QED
      BY <2>2, <2>3, <3>1 DEF Extends
  <2> QED
    BY <2>2, <2>3, <2>4
<1> QED
  BY <1>1, <1>2, <1>3

-----------------------------------------------------------------------------
(* A connection has nothing of an earlier one *)

OutIsFresh == \A i \in 1..Len(out) : IsProtected(out[i]) => OfThisConnection(out[i].key.th)

\* ConnectionIsFresh says of keys that are not zero that they are this connection's.  It
\* is inductive with: which keys are zero in each phase of the handshake.
Fresh ==
    /\ Live => OfThisConnection(transcript) /\ OutIsFresh
    /\ call.loop = "hello" => keys = Wiped
    /\ call.loop = "flight" =>
          /\ OfThisConnection(keys["client_hs"].th) /\ OfThisConnection(keys["server_hs"].th)
          /\ keys["client_app"] = Zero /\ keys["server_app"] = Zero
    /\ state = "CONNECTED" => \A s \in Slots : OfThisConnection(keys[s].th)
    /\ state = "HANDSHAKING" => pending = <<>> /\ lastAlert = "none"

LEMMA StillFresh ==
    ASSUME NEW t \in Seq(Entry), NEW u, Extends(u, t), OfThisConnection(t)
    PROVE  OfThisConnection(u)
<1>1. Len(t) >= 1
  BY DEF OfThisConnection
<1>2. u[1] = t[1] /\ u # <<>>
  BY <1>1 DEF Extends
<1> QED
  BY <1>2 DEF OfThisConnection

LEMMA RecordFresh ==
    ASSUME TypeOK, OutIsFresh, UNCHANGED conn, NEW r, out' = Append(out, r),
           IsProtected(r) => OfThisConnection(r.key.th)
    PROVE  OutIsFresh'
<1> SUFFICES ASSUME NEW i \in 1..Len(out'), IsProtected(out'[i])
             PROVE  OfThisConnection(out'[i].key.th)
  BY DEF OutIsFresh, OfThisConnection, IsProtected
<1> QED
  BY OutAppended DEF OutIsFresh

LEMMA EffectKeepsFresh ==
    ASSUME TypeOK, TypeOK', Lifecycle, Lifecycle', Fresh, Effect
    PROVE  Fresh'
<1>0. keys \in [Slots -> Key] /\ transcript \in Seq(Entry)
  BY DEF TypeOK
<1>a. /\ call.loop \in {"hello", "flight"} <=> state = "HANDSHAKING"
      /\ call'.loop \in {"hello", "flight"} <=> state' = "HANDSHAKING"
  BY DEF Lifecycle, CallsNest
<1>1. CASE Ended
  BY <1>a, <1>1 DEF Ended, Live, Fresh
<1>2. ASSUME NEW g \in Groups, Began(g) PROVE Fresh'
  <2>1. OfThisConnection(transcript)'
    BY <1>2 DEF Began, FirstHello, Msg, EntryOf, OfThisConnection
  <2>2. OutIsFresh'
    <3> DEFINE r == PlainHandshake(<<Whole(FirstHello(g))>>)
    <3>1. ~IsProtected(r)
      BY DEF PlainHandshake, Blank, IsProtected
    <3> HIDE DEF r
    <3>2. out' = <<r>>
      BY <1>2 DEF Began, r
    <3>3. \A i \in 1..Len(out') : out'[i] = r
      BY <3>2
    <3> QED
      BY <3>1, <3>3 DEF OutIsFresh, IsProtected
  <2> QED
    BY <1>2, <2>1, <2>2 DEF Began, Fresh
<1>3. CASE Kept
  <2>1. OfThisConnection(transcript)' /\ OutIsFresh'
    BY <1>3 DEF Kept, Fresh, OfThisConnection, OutIsFresh
  <2>2. \A s \in Slots : keys'[s].th = keys[s].th
    BY <1>3 DEF Kept, KeysKept
  <2>3. call'.loop = "hello" => keys' = Wiped
    <3> SUFFICES ASSUME call'.loop = "hello" PROVE keys' = Wiped
      OBVIOUS
    <3>1. call.loop = "hello" /\ state = "HANDSHAKING"
      BY <1>a, <1>3 DEF Kept
    <3>2. \A s \in Slots : keys'[s] = keys[s]
      BY <1>3, <3>1 DEF Kept, KeysKept
    <3>3. keys = Wiped /\ keys' \in [Slots -> Key]
      BY <3>1 DEF Fresh, TypeOK
    <3> QED
      BY <3>2, <3>3 DEF Wiped
  <2>4. call'.loop = "flight" => /\ call.loop = "flight" /\ state = "HANDSHAKING"
                                 /\ keys'["client_app"] = keys["client_app"]
                                 /\ keys'["server_app"] = keys["server_app"]
    BY <1>a, <1>3 DEF Kept, Dropped, KeysKept, Slots
  <2> QED
    BY <1>3, <2>1, <2>2, <2>3, <2>4 DEF Kept, NotesKept, Fresh, OfThisConnection, Slots
<1>4. ASSUME NEW e, NEW f, NEW r, Retried(e, f, r) PROVE Fresh'
  <2>1. OfThisConnection(transcript')
    BY <1>0, <1>a, <1>4, TranscriptGrows, StillFresh DEF Retried, Fresh, Live
  <2>2. OutIsFresh'
    <3>1. ~IsProtected(PlainHandshake(r))
      BY DEF PlainHandshake, Blank, IsProtected
    <3> QED
      BY <1>a, <1>4, <3>1, RecordFresh DEF Retried, Fresh, Live
  <2> QED
    BY <1>4, <1>a, <2>1, <2>2 DEF Retried, Fresh, OfThisConnection
<1>5. ASSUME NEW e, Answered(e) PROVE Fresh'
  <2>1. OfThisConnection(transcript')
    BY <1>0, <1>a, <1>5, TranscriptGrows, StillFresh DEF Answered, Fresh, Live
  <2>2. /\ keys'["client_hs"].th = transcript' /\ keys'["server_hs"].th = transcript'
        /\ keys'["client_app"] = keys["client_app"] /\ keys'["server_app"] = keys["server_app"]
    BY <1>0, <1>5 DEF Answered, Slots, Derive
  <2>3. keys["client_app"] = Zero /\ keys["server_app"] = Zero
    BY <1>5 DEF Answered, Fresh, Wiped, Slots
  <2>4. OutIsFresh'
    BY <1>a, <1>5 DEF Answered, Fresh, Live, OutIsFresh, OfThisConnection
  <2> QED
    BY <1>5, <1>a, <2>1, <2>2, <2>3, <2>4 DEF Answered, Fresh, OfThisConnection
<1>6. ASSUME NEW e, FlightHashed(e) PROVE Fresh'
  <2>1. OfThisConnection(transcript')
    BY <1>0, <1>a, <1>6, TranscriptGrows, StillFresh DEF FlightHashed, Fresh, Live
  <2>2. OutIsFresh'
    BY <1>a, <1>6 DEF FlightHashed, Fresh, Live, OutIsFresh, OfThisConnection
  <2> QED
    BY <1>6, <1>a, <2>1, <2>2 DEF FlightHashed, Fresh, OfThisConnection
<1>7. ASSUME NEW e, NEW th, Established(e, th) PROVE Fresh'
  <2>1. OfThisConnection(transcript') /\ OfThisConnection(th)
    BY <1>0, <1>a, <1>7, TranscriptGrows, StillFresh DEF Established, Fresh, Live
  <2>2. \A s \in Slots : OfThisConnection(keys'[s].th)
    <3>1. /\ keys'["client_app"].th = th /\ keys'["server_app"].th = th
          /\ keys'["client_hs"].th = keys["client_hs"].th
          /\ keys'["server_hs"].th = keys["server_hs"].th
      BY <1>0, <1>7, KeyChanges DEF Established, Slots, Derive
    <3> QED
      BY <1>7, <2>1, <3>1 DEF Established, Fresh, Slots
  <2>3. OutIsFresh'
    <3> DEFINE r == ProtectedHandshake(keys["client_hs"], <<Whole(ClientFinished(th))>>)
    <3>1. r.key = keys["client_hs"]
      BY DEF ProtectedHandshake, Blank
    <3> HIDE DEF r
    <3>2. out' = Append(out, r) /\ conn' = conn /\ OutIsFresh /\ OfThisConnection(keys["client_hs"].th)
      BY <1>a, <1>7 DEF Established, Fresh, Live, r
    <3> QED
      BY <3>1, <3>2, RecordFresh
  <2> QED
    BY <1>7, <1>a, <2>1, <2>2, <2>3 DEF Established, Fresh, OfThisConnection
<1>8. ASSUME NEW r, Wrote(r) PROVE Fresh'
  <2>1. OfThisConnection(r.key.th)
    BY <1>8 DEF Wrote, Fresh, Slots
  <2>2. OutIsFresh'
    BY <1>8, <2>1, RecordFresh DEF Wrote, Fresh, Live
  <2> QED
    BY <1>8, <1>a, <2>2 DEF Wrote, Fresh, Live, OfThisConnection
<1> QED
  BY <1>1, <1>2, <1>3, <1>4, <1>5, <1>6, <1>7, <1>8 DEF Effect

LEMMA EffectsInvariant == Spec => []NoCert
<1>1. Init => NoCert
  BY CallChanges, Zenon DEF Init, NoCert
<1>2. TypeOK /\ Lifecycle /\ NoCert /\ [Next]_vars => NoCert'
  <2> SUFFICES ASSUME TypeOK, Lifecycle, NoCert, [Next]_vars PROVE NoCert'
    OBVIOUS
  <2>1. Effect
    BY StepEffects
  <2>2. CASE Dropped
    BY <2>2 DEF Dropped, NoCert
  <2>3. CASE call'.loop = "flight"
    BY <2>3 DEF NoCert
  <2> QED
    BY <2>1, <2>2, <2>3
       DEF Effect, Ended, Began, Kept, Retried, Answered, FlightHashed, Established, Wrote
<1> QED
  BY <1>1, <1>2, TypeCorrect, LifecycleInvariant, PTL DEF Spec

LEMMA LongerKeepsNegotiated ==
    ASSUME NegotiatedHere, UNCHANGED alpn, Extends(transcript', transcript)
    PROVE  NegotiatedHere'
<1> SUFFICES ASSUME alpn # "none"
             PROVE  \E i \in 1..Len(transcript') : /\ transcript'[i].type = "encrypted_extensions"
                                                   /\ transcript'[i].val = alpn
  BY DEF NegotiatedHere
<1>1. PICK i \in 1..Len(transcript) :
         transcript[i].type = "encrypted_extensions" /\ transcript[i].val = alpn
  BY DEF NegotiatedHere
<1>2. i \in 1..Len(transcript') /\ transcript'[i] = transcript[i]
  BY DEF Extends
<1> QED
  BY <1>1, <1>2

LEMMA HandshakeKeepsNegotiated ==
    ASSUME TypeOK, NegotiatedHere,
           \/ \E ok \in BOOLEAN : HelloRetry(ok) \/ Finished(ok)
           \/ ServerHello \/ EncryptedExtensions \/ Certificate \/ CertificateVerify
    PROVE  NegotiatedHere'
<1> DEFINE m == First(buf)  h == ClientHello(m.val)  th == Append(transcript, EntryOf(m))
<1>0. transcript \in Seq(Entry) /\ conn \in Nat
  BY DEF TypeOK
<1>a. Complete(buf) => EntryOf(m) \in Entry
  BY BufferTyped, MessageTyped DEF TypeOK
<1>b. Complete(buf) => /\ th \in Seq(Entry) /\ Extends(th, transcript)
                       /\ Len(th) = Len(transcript) + 1 /\ th[Len(transcript) + 1] = EntryOf(m)
  BY <1>0, <1>a, Growing
<1>1. ASSUME NEW ok \in BOOLEAN, HelloRetry(ok) PROVE NegotiatedHere'
  <2>1. CASE ok
    <3>1. /\ transcript' = transcript \o <<EntryOf(m), EntryOf(h)>> /\ UNCHANGED alpn
          /\ Complete(buf) /\ m.val \in Groups
      BY <1>1, <2>1 DEF HelloRetry, AtHello, At, HelloError, noteVars
    <3>2. EntryOf(h) \in Entry
      BY <1>0, <3>1, FirstHelloTyped DEF ClientHello
    <3> HIDE DEF m, h
    <3>3. Extends(transcript', transcript)
      BY <1>0, <1>a, <3>1, <3>2, Growing
    <3> QED
      BY <3>1, <3>3, LongerKeepsNegotiated
  <2>2. CASE ~ok
    BY <1>1, <2>2 DEF HelloRetry, noteVars, NegotiatedHere
  <2> QED
    BY <2>1, <2>2
<1>2. CASE ServerHello \/ Certificate \/ CertificateVerify
  <2>1. transcript' = th /\ Complete(buf) /\ UNCHANGED alpn
    BY <1>2 DEF ServerHello, AtHello, Certificate, CertificateVerify, AtFlight, FlightGoesOn, Hashed,
                noteVars
  <2> HIDE DEF th
  <2> QED
    BY <1>b, <2>1, LongerKeepsNegotiated
<1>3. CASE EncryptedExtensions
  <2>1. /\ transcript' = th /\ Complete(buf) /\ m.type = "encrypted_extensions"
        /\ alpn' = IF m.val = "alpn" THEN "alpn" ELSE alpn
    BY <1>3 DEF EncryptedExtensions, AtFlight, FlightGoesOn, Hashed
  <2>2. CASE m.val = "alpn"
    <3>1. EntryOf(m).type = "encrypted_extensions" /\ EntryOf(m).val = "alpn"
      BY <2>1, <2>2 DEF EntryOf
    <3> HIDE DEF th, m
    <3>2. Len(transcript) + 1 \in 1..Len(transcript')
      BY <1>0, <1>b, <2>1
    <3>3. alpn' = "alpn" /\ transcript'[Len(transcript) + 1] = EntryOf(m)
      BY <1>b, <2>1, <2>2
    <3> QED
      BY <3>1, <3>2, <3>3 DEF NegotiatedHere
  <2>3. CASE m.val # "alpn"
    <3> HIDE DEF th
    <3> QED
      BY <1>b, <2>1, <2>3, LongerKeepsNegotiated
  <2> QED
    BY <2>2, <2>3
<1>4. ASSUME NEW ok \in BOOLEAN, Finished(ok) PROVE NegotiatedHere'
  <2>1. UNCHANGED alpn
    BY <1>4 DEF Finished, noteVars
  <2>2. CASE ok
    <3>1. Complete(buf) /\ transcript' = Append(th, EntryOf(ClientFinished(th)))
      BY <1>4, <2>2 DEF Finished, AtFlight, ThroughServerFinished
    <3> HIDE DEF th
    <3>2. Extends(transcript', th)
      BY <1>b, <3>1, Growing, ClientFinishedTyped
    <3>3. Extends(transcript', transcript)
      BY <1>b, <3>1, <3>2 DEF Extends
    <3> QED
      BY <2>1, <3>3, LongerKeepsNegotiated
  <2>3. CASE ~ok
    BY <1>4, <2>3 DEF Finished, noteVars, NegotiatedHere
  <2> QED
    BY <2>2, <2>3
<1> QED
  BY <1>1, <1>2, <1>3, <1>4

\* Elsewhere the protocol is cleared, or neither it nor the transcript changes.
LEMMA StepKeepsNegotiated ==
    ASSUME TypeOK, NegotiatedHere, [Next]_vars PROVE NegotiatedHere'
<1>1. CASE UNCHANGED vars
  BY <1>1 DEF vars, noteVars, handshakeVars, NegotiatedHere
<1>2. CASE AppCall
  <2>1. ASSUME NEW e, ConnectFails(e) PROVE NegotiatedHere'
    BY <2>1 DEF ConnectFails, BeginConnect, NegotiatedHere
  <2>2. ASSUME NEW g, Connect(g) PROVE NegotiatedHere'
    BY <2>2 DEF Connect, BeginConnect, NegotiatedHere
  <2>3. CASE Reset
    BY <2>3 DEF Reset, NegotiatedHere
  <2>4. CASE \/ ConnectRefused \/ RecvRefused \/ SendRefused \/ KeyUpdateRefused
             \/ \E n \in 0..2 : RecvPending(n) \/ RecvStart(n) \/ Send(n)
             \/ \E request, ok \in BOOLEAN : KeyUpdate(request, ok)
             \/ \E ok \in BOOLEAN : Close(ok)
    <3>1. UNCHANGED <<alpn, transcript>>
      BY <2>4 DEF ConnectRefused, RecvRefused, SendRefused, KeyUpdateRefused, NotConnected,
                  RecvPending, RecvStart, Send, KeyUpdate, Close, noteVars, handshakeVars
    <3> QED
      BY <3>1 DEF NegotiatedHere
  <2> QED
    BY <1>2, <2>1, <2>2, <2>3, <2>4 DEF AppCall
<1>3. CASE LocalStep
  <2>1. CASE \/ HelloRejected \/ FlightRejected \/ PostDone \/ NewSessionTicket \/ PostRejected
             \/ PeerKeyUpdate \/ PeerKeyUpdateRequested \/ PeerKeyUpdateFails \/ SendDone
             \/ \E ok \in BOOLEAN : SendChunk(ok)
    <3>1. UNCHANGED <<alpn, transcript>>
      BY <2>1 DEF HelloRejected, FlightRejected, PostDone, NewSessionTicket, PostRejected,
                  PeerKeyUpdate, PeerKeyUpdateRequested, PeerKeyUpdateFails, SendDone, SendChunk,
                  PostGoesOn, noteVars, handshakeVars
    <3> QED
      BY <3>1 DEF NegotiatedHere
  <2> QED
    BY <1>3, <2>1, HandshakeKeepsNegotiated DEF LocalStep
<1>4. CASE \/ \E r \in PeerRecords : Receive(r)
           \/ \E e \in {"CLOSED", "IO", "BAD_RECORD"} : ReadFails(e)
  <2>1. UNCHANGED <<alpn, transcript>>
    <3>1. ASSUME NEW r, Receive(r) PROVE UNCHANGED <<alpn, transcript>>
      BY <3>1 DEF Receive, HelloRecord, FlightRecord, RecvRecord
    <3>2. ASSUME NEW e, ReadFails(e) PROVE UNCHANGED <<alpn, transcript>>
      BY <3>2 DEF ReadFails, noteVars, handshakeVars
    <3> QED
      BY <1>4, <3>1, <3>2
  <2> QED
    BY <2>1 DEF NegotiatedHere
<1> QED
  BY <1>1, <1>2, <1>3, <1>4 DEF Next

\* Every live connection starts from its own ClientHello, and neither a key in any slot,
\* nor a record protected, nor data, an alert or a protocol kept is left from an earlier one.
THEOREM ConnectionsAreFresh == Spec => []ConnectionIsFresh
<1>1. Init => Fresh
  <2>1. Init => state = "IDLE" /\ call.loop = "none"
    BY CallChanges, Zenon DEF Init
  <2> QED
    BY <2>1 DEF Fresh, Live
<1>2. /\ TypeOK /\ TypeOK' /\ Lifecycle /\ Lifecycle' /\ NoCert /\ Fresh /\ [Next]_vars
      => Fresh'
  BY StepEffects, EffectKeepsFresh
<1>3. Init => NegotiatedHere
  BY DEF Init, NegotiatedHere
<1>4. TypeOK /\ NegotiatedHere /\ [Next]_vars => NegotiatedHere'
  BY StepKeepsNegotiated
<1>5. Lifecycle /\ Fresh /\ NegotiatedHere => ConnectionIsFresh
  <2> SUFFICES ASSUME Lifecycle, Fresh, NegotiatedHere, Live PROVE ConnectionIsFresh
    BY DEF ConnectionIsFresh
  <2>1. \A s \in Slots : keys[s] # Zero => OfThisConnection(keys[s].th)
    <3>1. CASE state = "CONNECTED"
      BY <3>1 DEF Fresh
    <3>2. CASE call.loop = "hello"
      BY <3>2 DEF Fresh, Wiped
    <3>3. CASE call.loop = "flight"
      BY <3>3 DEF Fresh, Slots
    <3> QED
      BY <3>1, <3>2, <3>3 DEF Live, Lifecycle, CallsNest
  <2> QED
    BY <2>1 DEF ConnectionIsFresh, Fresh, OutIsFresh
<1> QED
  BY <1>1, <1>2, <1>3, <1>4, <1>5, TypeCorrect, LifecycleInvariant, EffectsInvariant, PTL DEF Spec

-----------------------------------------------------------------------------
(* close_notify is the last record *)

\* An alert is written only by the close() of a connected client, which ends the
\* connection: of a live one the stream holds none.
NoAlert     == \A i \in 1..Len(out) : out[i].inner # "alert"
AlertsAtEnd == CloseNotifyIsLast /\ (Live => NoAlert)

LEMMA RecordNoAlert ==
    ASSUME TypeOK, NoAlert, NEW r, out' = Append(out, r)
    PROVE  CloseNotifyIsLast' /\ (r.inner # "alert" => NoAlert')
  BY OutAppended DEF NoAlert, CloseNotifyIsLast

LEMMA EffectKeepsAlertsAtEnd ==
    ASSUME TypeOK, Lifecycle, AlertsAtEnd, Effect
    PROVE  AlertsAtEnd'
<1>0. call.loop \in {"hello", "flight"} => Live
  BY DEF Lifecycle, CallsNest, Live
<1>1. CASE Ended
  <2>1. CASE out' = out \/ out' = <<>>
    BY <1>1, <2>1 DEF Ended, AlertsAtEnd, CloseNotifyIsLast
  <2>2. CASE state = "CONNECTED" /\ out' = Append(out, ProtectedAlert(keys["client_app"], "close_notify"))
    BY <1>1, <2>2, RecordNoAlert DEF Ended, AlertsAtEnd, Live
  <2> QED
    BY <1>1, <2>1, <2>2 DEF Ended
<1>2. ASSUME NEW g \in Groups, Began(g) PROVE AlertsAtEnd'
  <2> DEFINE r == PlainHandshake(<<Whole(FirstHello(g))>>)
  <2>1. r.inner # "alert"
    BY DEF PlainHandshake, Blank
  <2> HIDE DEF r
  <2>2. out' = <<r>>
    BY <1>2 DEF Began, r
  <2>3. \A i \in 1..Len(out') : out'[i] = r
    BY <2>2
  <2> QED
    BY <2>1, <2>3 DEF AlertsAtEnd, NoAlert, CloseNotifyIsLast
<1>3. CASE Kept \/ \E e : Answered(e) \/ FlightHashed(e)
  <2>1. out' = out /\ Live
    BY <1>0, <1>3 DEF Kept, Answered, FlightHashed
  <2> QED
    BY <2>1 DEF AlertsAtEnd, NoAlert, CloseNotifyIsLast
<1>4. ASSUME NEW e, NEW f, NEW r, Retried(e, f, r) PROVE AlertsAtEnd'
  <2>1. PlainHandshake(r).inner # "alert"
    BY DEF PlainHandshake, Blank
  <2> QED
    BY <1>0, <1>4, <2>1, RecordNoAlert DEF Retried, AlertsAtEnd
<1>5. ASSUME NEW e, NEW th, Established(e, th) PROVE AlertsAtEnd'
  <2>1. ProtectedHandshake(keys["client_hs"], <<Whole(ClientFinished(th))>>).inner # "alert"
    BY DEF ProtectedHandshake, Blank
  <2> QED
    BY <1>0, <1>5, <2>1, RecordNoAlert DEF Established, AlertsAtEnd
<1>6. ASSUME NEW r, Wrote(r) PROVE AlertsAtEnd'
  BY <1>6, RecordNoAlert DEF Wrote, AlertsAtEnd, Live
<1> QED
  BY <1>1, <1>2, <1>3, <1>4, <1>5, <1>6 DEF Effect

\* Nothing follows the close_notify of close() on the stream of a connection.
THEOREM CloseNotifyEnds == Spec => []CloseNotifyIsLast
<1>1. Init => AlertsAtEnd
  <2>1. Init => out = <<>>
    BY Zenon DEF Init
  <2> QED
    BY <2>1 DEF AlertsAtEnd, CloseNotifyIsLast, NoAlert
<1>2. TypeOK /\ Lifecycle /\ NoCert /\ AlertsAtEnd /\ [Next]_vars => AlertsAtEnd'
  BY StepEffects, EffectKeepsAlertsAtEnd
<1>3. AlertsAtEnd => CloseNotifyIsLast
  BY DEF AlertsAtEnd
<1> QED
  BY <1>1, <1>2, <1>3, TypeCorrect, LifecycleInvariant, EffectsInvariant, PTL DEF Spec

-----------------------------------------------------------------------------
(* The signature covers the certificate accepted *)

\* c is the certificate of the last Certificate message in th, and a is that of the last
\* one before a CertificateVerify in th, which it signed.
LastCertificate(c, th) ==
    \E i \in 1..Len(th) : /\ th[i].type = "certificate" /\ th[i].val = c
                          /\ \A k \in (i + 1)..Len(th) : th[k].type # "certificate"
Signed(a, th) ==
    \E i, j \in 1..Len(th) :
        /\ i < j
        /\ th[i].type = "certificate" /\ th[i].val = a
        /\ th[j].type = "certificate_verify" /\ th[j].val = a
        /\ \A k \in (i + 1)..(j - 1) : th[k].type # "certificate"
        /\ a \in Trusted

\* have_cert and cert_info of process_server_handshake() are those of the last Certificate
\* hashed: what makes SignatureCoversCertificate inductive.
Authenticity ==
    /\ call.cert # "none" => LastCertificate(call.cert, transcript)
    /\ Live /\ authentic # "none" => Signed(authentic, transcript)

LEMMA StillSigned ==
    ASSUME NEW a, NEW t, NEW u, Extends(u, t), Signed(a, t)
    PROVE  Signed(a, u)
<1>1. PICK i \in 1..Len(t), j \in 1..Len(t) :
          /\ i < j
          /\ t[i].type = "certificate" /\ t[i].val = a
          /\ t[j].type = "certificate_verify" /\ t[j].val = a
          /\ \A k \in (i + 1)..(j - 1) : t[k].type # "certificate"
          /\ a \in Trusted
  BY DEF Signed
<1>2. i \in 1..Len(u) /\ j \in 1..Len(u) /\ u[i] = t[i] /\ u[j] = t[j]
  BY DEF Extends
<1>3. ASSUME NEW k \in (i + 1)..(j - 1) PROVE u[k].type # "certificate"
  <2>1. k \in 1..Len(t)
    BY DEF Extends
  <2> QED
    BY <1>1, <2>1 DEF Extends
<1> QED
  BY <1>1, <1>2, <1>3 DEF Signed

LEMMA CertificateAppended ==
    ASSUME NEW t \in Seq(Entry), NEW e \in Entry, NEW c
    PROVE  /\ e.type = "certificate" => LastCertificate(e.val, Append(t, e))
           /\ e.type # "certificate" /\ LastCertificate(c, t) => LastCertificate(c, Append(t, e))
           /\ /\ e.type = "certificate_verify" /\ e.val = c /\ c \in Trusted
              /\ LastCertificate(c, t)
              => Signed(c, Append(t, e))
<1> DEFINE n == Len(t)  u == Append(t, e)
<1>1. /\ n \in Nat /\ Len(u) = n + 1 /\ u[n + 1] = e /\ \A i \in 1..n : u[i] = t[i]
  OBVIOUS
<1> HIDE DEF n, u
<1>2. ASSUME e.type = "certificate" PROVE LastCertificate(e.val, u)
  <2>1. n + 1 \in 1..Len(u) /\ \A k \in (n + 2)..Len(u) : u[k].type # "certificate"
    BY <1>1
  <2>2. \A k \in ((n + 1) + 1)..Len(u) : u[k].type # "certificate"
    BY <1>1
  <2> QED
    BY <1>1, <1>2, <2>1, <2>2 DEF LastCertificate
<1>3. ASSUME LastCertificate(c, t)
      PROVE  \E i \in 1..n : /\ u[i].type = "certificate" /\ u[i].val = c
                             /\ \A k \in (i + 1)..n : u[k].type # "certificate"
  <2>1. PICK i \in 1..n : /\ t[i].type = "certificate" /\ t[i].val = c
                          /\ \A k \in (i + 1)..n : t[k].type # "certificate"
    BY <1>3 DEF LastCertificate, n
  <2>2. \A k \in (i + 1)..n : k \in 1..n
    BY <1>1
  <2> QED
    BY <1>1, <2>1, <2>2
<1>4. ASSUME e.type # "certificate", LastCertificate(c, t) PROVE LastCertificate(c, u)
  <2>1. PICK i \in 1..n : /\ u[i].type = "certificate" /\ u[i].val = c
                          /\ \A k \in (i + 1)..n : u[k].type # "certificate"
    BY <1>3, <1>4
  <2>2. i \in 1..Len(u) /\ \A k \in (i + 1)..Len(u) : k \in (i + 1)..n \/ k = n + 1
    BY <1>1
  <2> QED
    BY <1>1, <1>4, <2>1, <2>2 DEF LastCertificate
<1>5. ASSUME e.type = "certificate_verify", e.val = c, c \in Trusted, LastCertificate(c, t)
      PROVE  Signed(c, u)
  <2>1. PICK i \in 1..n : /\ u[i].type = "certificate" /\ u[i].val = c
                          /\ \A k \in (i + 1)..n : u[k].type # "certificate"
    BY <1>3, <1>5
  <2>2. /\ i \in 1..Len(u) /\ n + 1 \in 1..Len(u) /\ i < n + 1
        /\ \A k \in (i + 1)..((n + 1) - 1) : k \in (i + 1)..n
    BY <1>1
  <2> QED
    BY <1>1, <1>5, <2>1, <2>2 DEF Signed
<1> QED
  BY <1>2, <1>4, <1>5 DEF u

LEMMA EffectKeepsAuthenticity ==
    ASSUME TypeOK, Lifecycle, NoCert, NoCert', Authenticity, Effect
    PROVE  Authenticity'
<1>0. transcript \in Seq(Entry) /\ "none" \notin Chains
  BY ClientAssumption DEF TypeOK, ClientAssumption
<1>a. call.loop \in {"hello", "flight"} => Live
  BY DEF Lifecycle, CallsNest, Live
<1>b. call'.loop # "flight" => call'.cert = "none"
  BY DEF NoCert
<1>1. CASE Ended
  BY <1>1, <1>b DEF Ended, Dropped, Live, Authenticity
<1>2. ASSUME NEW g \in Groups, Began(g) PROVE Authenticity'
  BY <1>2, <1>b DEF Began, Dropped, Authenticity
<1>3. CASE Kept
  BY <1>3, <1>b DEF Kept, Dropped, Authenticity
<1>4. ASSUME NEW e, NEW f, NEW r, Retried(e, f, r) PROVE Authenticity'
  BY <1>4, <1>a, <1>b, TranscriptGrows, StillSigned DEF Retried, Authenticity
<1>5. ASSUME NEW e, Answered(e) PROVE Authenticity'
  <2>1. call'.cert = "none"
    BY <1>5 DEF Answered, NoCert
  <2> QED
    BY <1>5, <1>a, <2>1, TranscriptGrows, StillSigned DEF Answered, Authenticity
<1>6. ASSUME NEW e, FlightHashed(e) PROVE Authenticity'
  <2>1. e \in Entry /\ transcript' = Append(transcript, e) /\ Live /\ state' = state
    BY <1>6, <1>a DEF FlightHashed
  <2>2. call'.cert # "none" => LastCertificate(call'.cert, transcript')
    <3>1. CASE e.type = "certificate"
      BY <1>0, <1>6, <2>1, <3>1, CertificateAppended DEF FlightHashed
    <3>2. CASE e.type # "certificate" /\ call'.cert = call.cert
      BY <1>0, <2>1, <3>2, CertificateAppended DEF Authenticity
    <3> QED
      BY <1>6, <3>1, <3>2 DEF FlightHashed
  <2>3. authentic' # "none" => Signed(authentic', transcript')
    <3>1. CASE authentic' = authentic
      BY <1>6, <2>1, <3>1, TranscriptGrows, StillSigned DEF Authenticity
    <3>2. CASE e.type = "certificate_verify"
      <4>1. e.val = call.cert /\ call.cert \in Trusted /\ authentic' = call.cert
        BY <1>6, <3>2 DEF FlightHashed
      <4> QED
        BY <1>0, <2>1, <3>2, <4>1, CertificateAppended DEF Authenticity
    <3> QED
      BY <1>6, <3>1, <3>2 DEF FlightHashed
  <2> QED
    BY <2>2, <2>3 DEF Authenticity
<1>7. ASSUME NEW e, NEW th, Established(e, th) PROVE Authenticity'
  BY <1>7, <1>a, <1>b, TranscriptGrows, StillSigned DEF Established, Dropped, Authenticity
<1>8. ASSUME NEW r, Wrote(r) PROVE Authenticity'
  BY <1>8, <1>b DEF Wrote, Dropped, Live, Authenticity
<1> QED
  BY <1>1, <1>2, <1>3, <1>4, <1>5, <1>6, <1>7, <1>8 DEF Effect

\* However often the peer sends Certificate and CertificateVerify, the chain the client
\* takes for authentic is trusted and is that of the last Certificate before the
\* CertificateVerify signed with its key.
THEOREM SignaturesCoverCertificates == Spec => []SignatureCoversCertificate
<1>1. Init => Authenticity
  <2>1. Init => state = "IDLE" /\ call.cert = "none"
    BY CallChanges, Zenon DEF Init
  <2> QED
    BY <2>1 DEF Authenticity, Live
<1>2. TypeOK /\ Lifecycle /\ NoCert /\ NoCert' /\ Authenticity /\ [Next]_vars => Authenticity'
  BY StepEffects, EffectKeepsAuthenticity
<1>3. Authenticity => SignatureCoversCertificate
  BY DEF Authenticity, SignatureCoversCertificate, Signed
<1> QED
  BY <1>1, <1>2, <1>3, TypeCorrect, LifecycleInvariant, EffectsInvariant, PTL DEF Spec

-----------------------------------------------------------------------------
(* Keys are bound to the transcript *)

\* th is a transcript up to the ServerHello of this group, and u goes on from it.
ThroughServerHello(th, u) ==
    /\ Len(th) \in 1..Len(u) /\ th = SubSeq(u, 1, Len(th))
    /\ th[Len(th)].type = "server_hello" /\ th[Len(th)].val = share

\* During the flight the handshake keys are bound already.
KeysBound ==
    /\ KeysBindTranscript
    /\ call.loop = "flight" => /\ keys["server_hs"].th = keys["client_hs"].th
                               /\ ThroughServerHello(keys["client_hs"].th, transcript)

LEMMA PrefixOfPrefix ==
    ASSUME NEW t \in Seq(Entry), NEW u \in Seq(Entry), Extends(u, t), NEW n \in 0..Len(t)
    PROVE  SubSeq(u, 1, n) = SubSeq(t, 1, n)
<1>1. n \in 0..Len(u) /\ n \in Nat
  BY DEF Extends
<1>2. \A i \in 1..n : i \in 1..Len(t) /\ u[i] = t[i]
  BY DEF Extends
<1>3. SubSeq(t, 1, n) \in Seq(Entry) /\ Len(SubSeq(t, 1, n)) = n
      /\ \A i \in 1..n : SubSeq(t, 1, n)[i] = t[i]
  OBVIOUS
<1>4. SubSeq(u, 1, n) \in Seq(Entry) /\ Len(SubSeq(u, 1, n)) = n
      /\ \A i \in 1..n : SubSeq(u, 1, n)[i] = u[i]
  BY <1>1
<1> HIDE DEF Entry
<1> QED
  BY <1>2, <1>3, <1>4, SeqEqual

LEMMA StillThrough ==
    ASSUME NEW t \in Seq(Entry), NEW u \in Seq(Entry), Extends(u, t), NEW th,
           ThroughServerHello(th, t)
    PROVE  ThroughServerHello(th, u)
<1>1. Len(th) \in 0..Len(t) /\ Len(th) \in 1..Len(u)
  BY DEF ThroughServerHello, Extends
<1>2. SubSeq(u, 1, Len(th)) = SubSeq(t, 1, Len(th))
  BY <1>1, PrefixOfPrefix
<1> QED
  BY <1>1, <1>2 DEF ThroughServerHello

LEMMA WholeIsPrefix == ASSUME NEW t \in Seq(Entry) PROVE SubSeq(t, 1, Len(t)) = t
<1>1. Len(t) \in Nat /\ SubSeq(t, 1, Len(t)) \in Seq(Entry) /\ Len(SubSeq(t, 1, Len(t))) = Len(t)
      /\ \A i \in 1..Len(t) : SubSeq(t, 1, Len(t))[i] = t[i]
  OBVIOUS
<1> QED
  BY <1>1, SeqEqual

\* The step that connects.
LEMMA EstablishedBindsKeys ==
    ASSUME TypeOK, TypeOK', KeysBound, NEW e, NEW th, Established(e, th)
    PROVE  KeysBindTranscript'
<1> DEFINE n == Len(transcript')  hs == keys["client_hs"].th
<1>0. keys \in [Slots -> Key] /\ transcript \in Seq(Entry) /\ transcript' \in Seq(Entry)
  BY DEF TypeOK
<1>1. /\ Extends(transcript', transcript) /\ Extends(transcript', th) /\ th \in Seq(Entry)
      /\ Len(th) = Len(transcript) + 1 /\ th[Len(th)] = e /\ n = Len(th) + 1
      /\ transcript'[n] = EntryOf(ClientFinished(th))
  BY TranscriptGrows
<1>2. n \in Nat /\ n - 1 = Len(th) /\ n - 1 \in 1..Len(th)
  BY <1>0, <1>1
<1>3. transcript'[n].type = "finished" /\ transcript'[n].val = "client"
  BY <1>1, ClientFinishedTyped
<1>4. transcript'[n - 1].type = "finished" /\ transcript'[n - 1].val = "server"
  BY <1>1, <1>2 DEF Extends, Established
<1>5. SubSeq(transcript', 1, n - 1) = th
  <2>1. Len(th) \in 0..Len(th)
    BY <1>1
  <2>2. SubSeq(transcript', 1, Len(th)) = SubSeq(th, 1, Len(th))
    BY <1>0, <1>1, <2>1, PrefixOfPrefix
  <2> QED
    BY <1>1, <1>2, <2>2, WholeIsPrefix
<1>6. /\ keys'["client_app"].th = th /\ keys'["server_app"].th = th
      /\ keys'["client_hs"].th = hs /\ keys'["server_hs"].th = keys["server_hs"].th
  BY <1>0, KeyChanges DEF Established, Slots, Derive
<1>7. keys["server_hs"].th = hs /\ ThroughServerHello(hs, transcript)
  BY DEF Established, KeysBound
<1>8. hs = SubSeq(transcript', 1, Len(hs))
  <2>1. ThroughServerHello(hs, transcript')
    BY ONLY <1>0, <1>1, <1>7, StillThrough
  <2> QED
    BY <2>1 DEF ThroughServerHello
<1>9. hs[Len(hs)].type = "server_hello" /\ hs[Len(hs)].val = share'
  BY <1>7 DEF ThroughServerHello, Established
<1>10. \E i \in 1..Len(out') : out'[i].hs = <<Whole(ClientFinished(th))>>
  <2> DEFINE r == ProtectedHandshake(keys["client_hs"], <<Whole(ClientFinished(th))>>)
  <2>1. r.hs = <<Whole(ClientFinished(th))>>
    BY DEF ProtectedHandshake, Blank
  <2> HIDE DEF r
  <2>2. out' = Append(out, r)
    BY DEF Established, r
  <2>3. Len(out) + 1 \in 1..Len(out') /\ out'[Len(out) + 1] = r
    BY <2>2, OutAppended
  <2> QED
    BY <2>1, <2>3
<1> HIDE DEF n, hs
<1> QED
  BY <1>3, <1>4, <1>5, <1>6, <1>7, <1>8, <1>9, <1>10 DEF KeysBindTranscript, n

\* A step of a connected client that keeps the transcripts its keys are named by.
LEMMA ConnectedKeepsBound ==
    ASSUME TypeOK, KeysBound, state = "CONNECTED", call'.loop # "flight",
           UNCHANGED <<transcript, share>>, \A s \in Slots : keys'[s].th = keys[s].th,
           UNCHANGED out \/ \E r : out' = Append(out, r)
    PROVE  KeysBound'
<1> DEFINE th == SubSeq(transcript, 1, Len(transcript) - 1)
<1>1. KeysBindTranscript
  BY DEF KeysBound
<1>2. PICK i \in 1..Len(out) : out[i].hs = <<Whole(ClientFinished(th))>>
  BY <1>1 DEF KeysBindTranscript
<1>3. i \in 1..Len(out') /\ out'[i] = out[i]
  BY OutAppended
<1> QED
  BY <1>1, <1>2, <1>3 DEF KeysBound, KeysBindTranscript, Slots

LEMMA EffectKeepsKeysBound ==
    ASSUME TypeOK, TypeOK', Lifecycle, Lifecycle', KeysBound, Effect
    PROVE  KeysBound'
<1>0. keys \in [Slots -> Key] /\ transcript \in Seq(Entry) /\ transcript' \in Seq(Entry)
  BY DEF TypeOK
<1>a. /\ call.loop \in {"hello", "flight"} <=> state = "HANDSHAKING"
      /\ call'.loop \in {"hello", "flight"} <=> state' = "HANDSHAKING"
  BY DEF Lifecycle, CallsNest
<1>1. CASE Ended \/ (\E g \in Groups : Began(g)) \/ \E e, f, r : Retried(e, f, r)
  <2>1. state' # "CONNECTED" /\ call'.loop # "flight"
    BY <1>1, <1>a DEF Ended, Dropped, Began, Retried, Live
  <2> QED
    BY <2>1 DEF KeysBound, KeysBindTranscript
<1>2. CASE Kept
  <2>1. \A s \in Slots : keys'[s].th = keys[s].th
    BY <1>2 DEF Kept, KeysKept
  <2>2. CASE state = "CONNECTED"
    BY <1>a, <1>2, <2>1, <2>2, ConnectedKeepsBound DEF Kept
  <2>3. CASE state # "CONNECTED"
    BY <1>2, <2>1, <2>3 DEF Kept, Dropped, KeysBound, KeysBindTranscript, ThroughServerHello, Slots
  <2> QED
    BY <2>2, <2>3
<1>3. ASSUME NEW e, Answered(e) PROVE KeysBound'
  <2>1. /\ transcript' = Append(transcript, e) /\ e \in Entry
        /\ e.type = "server_hello" /\ e.val = share /\ share' = share
        /\ state' # "CONNECTED"
    BY <1>a, <1>3 DEF Answered
  <2>2. Len(transcript') \in 1..Len(transcript') /\ transcript'[Len(transcript')] = e
    BY <1>0, <2>1, Growing
  <2>3. keys'["client_hs"].th = transcript' /\ keys'["server_hs"].th = transcript'
    BY <1>0, <1>3 DEF Answered, Slots, Derive
  <2>4. ThroughServerHello(transcript', transcript')
    BY <1>0, <2>1, <2>2, WholeIsPrefix DEF ThroughServerHello
  <2> QED
    BY <2>1, <2>3, <2>4 DEF KeysBound, KeysBindTranscript, ThroughServerHello
<1>4. ASSUME NEW e, FlightHashed(e) PROVE KeysBound'
  <2>1. ThroughServerHello(keys["client_hs"].th, transcript')
    BY <1>0, <1>4, TranscriptGrows, StillThrough DEF FlightHashed, KeysBound
  <2> QED
    BY <1>a, <1>4, <2>1 DEF FlightHashed, KeysBound, KeysBindTranscript, ThroughServerHello
<1>5. ASSUME NEW e, NEW th, Established(e, th) PROVE KeysBound'
  <2>1. call'.loop # "flight"
    BY <1>5 DEF Established, Dropped
  <2> QED
    BY <1>5, <2>1, EstablishedBindsKeys DEF KeysBound
<1>6. ASSUME NEW r, Wrote(r) PROVE KeysBound'
  BY <1>6, ConnectedKeepsBound DEF Wrote, Dropped
<1> QED
  BY <1>1, <1>2, <1>3, <1>4, <1>5, <1>6 DEF Effect

\* Of a connected client the application keys are derived from the transcript through the
\* server's Finished, which the client Finished written covers, and the handshake keys
\* from its prefix through the ServerHello of the group of its key share.
THEOREM KeysAreBound == Spec => []KeysBindTranscript
<1>1. Init => KeysBound
  <2>1. Init => state = "IDLE" /\ call.loop = "none"
    BY CallChanges, Zenon DEF Init
  <2> QED
    BY <2>1 DEF KeysBound, KeysBindTranscript
<1>2. /\ TypeOK /\ TypeOK' /\ Lifecycle /\ Lifecycle' /\ NoCert /\ KeysBound /\ [Next]_vars
      => KeysBound'
  BY StepEffects, EffectKeepsKeysBound
<1>3. KeysBound => KeysBindTranscript
  BY DEF KeysBound
<1> QED
  BY <1>1, <1>2, <1>3, TypeCorrect, LifecycleInvariant, EffectsInvariant, PTL DEF Spec

-----------------------------------------------------------------------------
(* Errors end the connection *)

\* How a step may end a call.
EndsRight ==
    \/ call.loop = "none" \/ call'.loop # "none" \/ result' = "OK" \/ state' = "FAILED"
    \/ /\ state' = "CLOSED" /\ call.loop = "recv"
       /\ result' = "CLOSED" /\ lastAlert' = "close_notify"

LEMMA LocalStepsEndRight == ASSUME TypeOK, LocalStep PROVE EndsRight
<1>0. call \in Call /\ Loops = {"none", "hello", "flight", "recv", "post", "send"}
  BY DEF TypeOK, Loops
<1>1. CASE \/ HelloRejected \/ FlightRejected \/ PostRejected \/ PeerKeyUpdateFails \/ SendDone
  BY <1>1 DEF HelloRejected, FlightRejected, PostRejected, PeerKeyUpdateFails, SendDone,
              FailWith, Fail,
              Return, EndsRight
<1>2. ASSUME NEW ok \in BOOLEAN, HelloRetry(ok) PROVE EndsRight
  <2>1. CASE ok
    <3>1. call' = [call EXCEPT !.hadHrr = TRUE] /\ call.loop = "hello"
      BY <1>2, <2>1 DEF HelloRetry, AtHello, At
    <3>2. call'.loop = "hello"
      BY <1>0, <3>1, CallChanges
    <3> QED
      BY <3>2 DEF EndsRight
  <2>2. CASE ~ok
    BY <1>2, <2>2 DEF HelloRetry, FailWith, Fail, EndsRight
  <2> QED
    BY <2>1, <2>2
<1>3. CASE ServerHello \/ PostDone
  <2>1. GoTo("flight") \/ GoTo("recv")
    BY <1>3 DEF ServerHello, PostDone
  <2>2. [call EXCEPT !.loop = "flight"].loop = "flight" /\ [call EXCEPT !.loop = "recv"].loop = "recv"
    BY ONLY <1>0, CallChanges
  <2> QED
    BY <2>1, <2>2 DEF GoTo, EndsRight
<1>4. CASE EncryptedExtensions \/ CertificateVerify \/ Certificate
  <2>1. call.loop = "flight" /\ (call' = call \/ call' = [call EXCEPT !.cert = First(buf).val])
    BY <1>4 DEF EncryptedExtensions, CertificateVerify, Certificate, AtFlight, At
  <2>2. [call EXCEPT !.cert = First(buf).val].loop = call.loop
    BY <1>0 DEF Call
  <2> QED
    BY <2>1, <2>2 DEF EndsRight
<1>5. ASSUME NEW ok \in BOOLEAN, Finished(ok) PROVE EndsRight
  BY <1>5 DEF Finished, FailWith, Fail, EndsRight
<1>6. CASE NewSessionTicket \/ PeerKeyUpdate \/ PeerKeyUpdateRequested
  <2>1. call.loop = "post" /\ call' = call
    BY <1>6 DEF NewSessionTicket, PeerKeyUpdate, PeerKeyUpdateRequested, AtKeyUpdate, AtPost, At,
                PostGoesOn
  <2> QED
    BY <2>1 DEF EndsRight
<1>7. ASSUME NEW ok \in BOOLEAN, SendChunk(ok) PROVE EndsRight
  <2>1. CASE ok
    <3>1. call' = [call EXCEPT !.todo = @ - 1] /\ call.loop = "send"
      BY <1>7, <2>1 DEF SendChunk, At
    <3>2. call'.loop = "send"
      BY <1>0, <3>1, CallChanges
    <3> QED
      BY <3>2 DEF EndsRight
  <2>2. CASE ~ok
    BY <1>7, <2>2 DEF SendChunk, FailWith, Fail, EndsRight
  <2> QED
    BY <2>1, <2>2
<1> QED
  BY <1>1, <1>2, <1>3, <1>4, <1>5, <1>6, <1>7 DEF LocalStep

LEMMA RecordsEndRight == ASSUME TypeOK, NEW r, Receive(r) PROVE EndsRight
<1>0. call \in Call /\ "post" \in Loops
  BY DEF TypeOK, Loops
<1>1. CASE HelloRecord(r) \/ FlightRecord(r)
  <2>1. call' = call \/ \E e : Fail(e)
    BY <1>1 DEF HelloRecord, FlightRecord
  <2> QED
    BY <2>1 DEF Fail, EndsRight
<1>2. CASE RecvRecord(r)
  <2>1. call.loop = "recv"
    BY <1>2 DEF RecvRecord, At
  <2>2. \/ call' = call \/ \E e : Fail(e)
        \/ result' = "OK" \/ GoTo("post")
        \/ NoteAlert(r.alert) /\ AlertError(r.alert) = "CLOSED" /\ RemoteClose
    BY <1>2 DEF RecvRecord
  <2>3. CASE GoTo("post")
    <3>1. [call EXCEPT !.loop = "post"].loop = "post"
      BY ONLY <1>0, CallChanges
    <3> QED
      BY <2>3, <3>1 DEF GoTo, EndsRight
  <2>4. CASE NoteAlert(r.alert) /\ AlertError(r.alert) = "CLOSED" /\ RemoteClose
    <3>1. r.alert = "close_notify"
      BY <2>4 DEF AlertError
    <3> QED
      BY <2>1, <2>4, <3>1 DEF NoteAlert, RemoteClose, EndsRight
  <2> QED
    BY <2>1, <2>2, <2>3, <2>4 DEF Fail, EndsRight
<1> QED
  BY <1>1, <1>2 DEF Receive

\* A call in progress on a live connection that returns an error has ended it, with state
\* CLOSED only for a close_notify the peer protected, and FAILED for all else.
THEOREM ErrorsEndConnections == Spec => ErrorsAreFatal
<1>1. TypeOK /\ [Next]_vars
      => [Live /\ call.loop # "none" /\ call'.loop = "none" /\ result' # "OK" =>
             \/ state' = "FAILED"
             \/ /\ state' = "CLOSED" /\ call.loop = "recv"
                /\ result' = "CLOSED" /\ lastAlert' = "close_notify"]_vars
  <2> SUFFICES ASSUME TypeOK, Next PROVE EndsRight
    BY DEF EndsRight
  <2>1. CASE AppCall
    BY <2>1 DEF AppCall, ConnectRefused, ConnectFails, Connect, BeginConnect, RecvRefused,
                SendRefused, KeyUpdateRefused, NotConnected, RecvPending, RecvStart, Send,
                KeyUpdate, Close, Reset, At, EndsRight
  <2>2. ASSUME NEW e, ReadFails(e) PROVE EndsRight
    BY <2>2 DEF ReadFails, Fail, EndsRight
  <2> QED
    BY <2>1, <2>2, LocalStepsEndRight, RecordsEndRight DEF Next
<1> QED
  BY <1>1, TypeCorrect, PTL DEF Spec, ErrorsAreFatal

-----------------------------------------------------------------------------
(* The peer can decrypt the stream *)

\* The KeyUpdate messages among the first n records of o under the secrets of a label, and
\* the records of one generation.
IsKeyUpdate(r)     == r.inner = "handshake" /\ r.hs[1].msg.type = "key_update"
IsFinished(r)      == r.inner = "handshake" /\ r.hs[1].msg.type = "finished"
Updates(o, l, n)   == {j \in {j \in 1..n : o[j].key.label = l} : IsKeyUpdate(o[j])}
OfGen(o, l, n, g)  == {j \in {j \in 1..n : o[j].key.label = l} : o[j].key.gen = g}

Decrypts(o, i) ==
    LET k == o[i].key
    IN  /\ k.label = IF IsFinished(o[i]) THEN "client_hs" ELSE "client_app"
        /\ k.gen = Cardinality(Updates(o, k.label, i - 1))
        /\ k.seq = Cardinality(OfGen(o, k.label, i - 1, k.gen))
AllDecrypt == \A i \in 1..Len(out) : IsProtected(out[i]) => Decrypts(out, i)

\* PeerCanDecrypt speaks of the records written.  Inductive is that the write key counts
\* them: its generation the KeyUpdates sent, its sequence number the records since.
CountedBy(k) ==
    /\ k.label = "client_app"
    /\ k.gen = Cardinality(Updates(out, "client_app", Len(out)))
    /\ k.seq = Cardinality(OfGen(out, "client_app", Len(out), k.gen))
    /\ \A i \in 1..Len(out) : out[i].key.label = "client_app" => out[i].key.gen <= k.gen
InStep ==
    /\ AllDecrypt
    /\ state = "HANDSHAKING" =>
          \A i \in 1..Len(out) : ~IsProtected(out[i]) /\ out[i].key.label = "zero"
    /\ call.loop = "flight" => /\ keys["client_hs"].label = "client_hs"
                               /\ keys["client_hs"].gen = 0 /\ keys["client_hs"].seq = 0
    /\ state = "CONNECTED" => CountedBy(keys["client_app"])

LEMMA SameCounts ==
    ASSUME NEW o, NEW u, NEW n \in Nat, \A j \in 1..n : u[j] = o[j], NEW l, NEW g
    PROVE  Updates(u, l, n) = Updates(o, l, n) /\ OfGen(u, l, n, g) = OfGen(o, l, n, g)
  BY DEF Updates, OfGen

LEMMA CountsFinite ==
    ASSUME NEW u, NEW n \in Nat, NEW l, NEW g
    PROVE  IsFiniteSet(Updates(u, l, n)) /\ IsFiniteSet(OfGen(u, l, n, g))
<1>1. IsFiniteSet(1..n)
  BY FS_Interval
<1>2. Updates(u, l, n) \in SUBSET (1..n) /\ OfGen(u, l, n, g) \in SUBSET (1..n)
  BY DEF Updates, OfGen
<1> QED
  BY <1>1, <1>2, FS_Subset

\* What one more record adds to the counts.
LEMMA OneMore ==
    ASSUME NEW u, NEW n \in Nat, NEW l, NEW g
    PROVE  /\ u[n + 1].key.label = l /\ IsKeyUpdate(u[n + 1])
              => Cardinality(Updates(u, l, n + 1)) = Cardinality(Updates(u, l, n)) + 1
           /\ ~(u[n + 1].key.label = l /\ IsKeyUpdate(u[n + 1]))
              => Updates(u, l, n + 1) = Updates(u, l, n)
           /\ u[n + 1].key.label = l /\ u[n + 1].key.gen = g
              => Cardinality(OfGen(u, l, n + 1, g)) = Cardinality(OfGen(u, l, n, g)) + 1
           /\ ~(u[n + 1].key.label = l /\ u[n + 1].key.gen = g)
              => OfGen(u, l, n + 1, g) = OfGen(u, l, n, g)
<1>1. \A j : j \in 1..(n + 1) <=> j \in 1..n \/ j = n + 1
  OBVIOUS
<1>2. n + 1 \notin 1..n
  OBVIOUS
<1>3. ASSUME u[n + 1].key.label = l, IsKeyUpdate(u[n + 1])
      PROVE  Cardinality(Updates(u, l, n + 1)) = Cardinality(Updates(u, l, n)) + 1
  <2>1. Updates(u, l, n + 1) = Updates(u, l, n) \cup {n + 1}
    BY <1>1, <1>3 DEF Updates
  <2>2. n + 1 \notin Updates(u, l, n)
    BY <1>2 DEF Updates
  <2> QED
    BY <2>1, <2>2, CountsFinite, FS_AddElement
<1>4. ASSUME ~(u[n + 1].key.label = l /\ IsKeyUpdate(u[n + 1]))
      PROVE  Updates(u, l, n + 1) = Updates(u, l, n)
  BY <1>1, <1>4 DEF Updates
<1>5. ASSUME u[n + 1].key.label = l, u[n + 1].key.gen = g
      PROVE  Cardinality(OfGen(u, l, n + 1, g)) = Cardinality(OfGen(u, l, n, g)) + 1
  <2>1. OfGen(u, l, n + 1, g) = OfGen(u, l, n, g) \cup {n + 1}
    BY <1>1, <1>5 DEF OfGen
  <2>2. n + 1 \notin OfGen(u, l, n, g)
    BY <1>2 DEF OfGen
  <2> QED
    BY <2>1, <2>2, CountsFinite, FS_AddElement
<1>6. ASSUME ~(u[n + 1].key.label = l /\ u[n + 1].key.gen = g)
      PROVE  OfGen(u, l, n + 1, g) = OfGen(u, l, n, g)
  BY <1>1, <1>6 DEF OfGen
<1> QED
  BY <1>3, <1>4, <1>5, <1>6

LEMMA NoneCounted ==
    ASSUME NEW u, NEW n \in Nat, NEW l, NEW g,
           \A j \in 1..n : u[j].key.label = l => u[j].key.gen # g
    PROVE  Cardinality(OfGen(u, l, n, g)) = 0
<1>1. OfGen(u, l, n, g) = {}
  BY DEF OfGen
<1> QED
  BY <1>1, FS_EmptySet

\* The records written before stay decryptable, and the new one is when it counts them.
LEMMA RecordDecrypts ==
    ASSUME TypeOK, AllDecrypt, NEW r, out' = Append(out, r),
           IsProtected(r) =>
              LET k == r.key
              IN  /\ k.label = IF IsFinished(r) THEN "client_hs" ELSE "client_app"
                  /\ k.gen = Cardinality(Updates(out, k.label, Len(out)))
                  /\ k.seq = Cardinality(OfGen(out, k.label, Len(out), k.gen))
    PROVE  AllDecrypt'
<1>0. Len(out) \in Nat /\ \A j \in 1..Len(out) : out'[j] = out[j]
  BY OutAppended
<1>1. ASSUME NEW i \in 1..Len(out), IsProtected(out[i]) PROVE Decrypts(out', i)
  <2>1. Decrypts(out, i) /\ out'[i] = out[i] /\ i - 1 \in Nat
        /\ \A j \in 1..(i - 1) : out'[j] = out[j]
    BY <1>0, <1>1 DEF AllDecrypt
  <2>2. \A l, g : /\ Updates(out', l, i - 1) = Updates(out, l, i - 1)
                  /\ OfGen(out', l, i - 1, g) = OfGen(out, l, i - 1, g)
    BY ONLY <2>1, SameCounts
  <2> QED
    BY <2>1, <2>2 DEF Decrypts
<1>2. ASSUME IsProtected(r) PROVE Decrypts(out', Len(out) + 1)
  <2>1. out'[Len(out) + 1] = r /\ (Len(out) + 1) - 1 = Len(out)
    BY <1>0, OutAppended
  <2>2. \A l, g : /\ Updates(out', l, Len(out)) = Updates(out, l, Len(out))
                  /\ OfGen(out', l, Len(out), g) = OfGen(out, l, Len(out), g)
    BY ONLY <1>0, SameCounts
  <2> QED
    BY <1>2, <2>1, <2>2 DEF Decrypts
<1>3. ASSUME NEW i \in 1..Len(out'), IsProtected(out'[i]) PROVE Decrypts(out', i)
  BY <1>1, <1>2, <1>3, OutAppended
<1> QED
  BY <1>3 DEF AllDecrypt, Decrypts, IsProtected, Updates, OfGen, IsFinished, IsKeyUpdate

LEMMA AppRecordDecrypts ==
    ASSUME TypeOK, AllDecrypt, CountedBy(keys["client_app"]), NEW r, out' = Append(out, r),
           r.key = keys["client_app"], ~IsFinished(r)
    PROVE  AllDecrypt'
  BY RecordDecrypts DEF CountedBy

\* A record under the application key, which is then used or updated.
LEMMA WroteKeepsCount ==
    ASSUME TypeOK, InStep, NEW r, Wrote(r)
    PROVE  CountedBy(keys["client_app"])'
<1> DEFINE n == Len(out)  k == keys["client_app"]  m == keys'["client_app"]
<1>0. k \in Key /\ k.gen \in Nat /\ k.seq \in Nat
  BY DEF TypeOK, Slots, Key
<1>1. /\ k.label = "client_app" /\ k.gen = Cardinality(Updates(out, "client_app", n))
      /\ k.seq = Cardinality(OfGen(out, "client_app", n, k.gen))
      /\ \A i \in 1..n : out[i].key.label = "client_app" => out[i].key.gen <= k.gen
  BY DEF Wrote, InStep, CountedBy
<1>2. /\ n \in Nat /\ Len(out') = n + 1 /\ out'[n + 1] = r /\ \A i \in 1..n : out'[i] = out[i]
      /\ \A i \in 1..Len(out') : i \in 1..n \/ i = n + 1
  BY OutAppended DEF Wrote
<1>3. \A l, g : Updates(out', l, n) = Updates(out, l, n) /\ OfGen(out', l, n, g) = OfGen(out, l, n, g)
  BY ONLY <1>2, SameCounts
<1>4. r.key = k
  BY DEF Wrote
<1>5. \A i \in 1..n : out[i].key \in Key
  BY OutElements
<1> HIDE DEF n, k, m
<1>6. ASSUME IsKeyUpdate(r), m = Updated(k) PROVE CountedBy(keys["client_app"])'
  <2>1. m.label = "client_app" /\ m.gen = k.gen + 1 /\ m.seq = 0
    BY <1>0, <1>1, <1>6 DEF Updated, Key
  <2>2. Cardinality(Updates(out', "client_app", n + 1)) = k.gen + 1
    BY <1>1, <1>2, <1>3, <1>4, <1>6, OneMore
  <2>3. \A i \in 1..(n + 1) : out'[i].key.label = "client_app" => out'[i].key.gen <= k.gen
    BY <1>0, <1>1, <1>2, <1>4
  <2>4. \A i \in 1..(n + 1) : out'[i].key.label = "client_app"
                              => out'[i].key.gen # k.gen + 1 /\ out'[i].key.gen <= k.gen + 1
    <3>1. \A i \in 1..(n + 1) : out'[i].key.gen \in Nat
      BY <1>0, <1>2, <1>4, <1>5 DEF Key
    <3> QED
      BY <1>0, <2>3, <3>1
  <2>5. n + 1 \in Nat
    BY <1>2
  <2>6. Cardinality(OfGen(out', "client_app", n + 1, k.gen + 1)) = 0
    BY <2>4, <2>5, NoneCounted
  <2> QED
    BY <1>2, <2>1, <2>2, <2>4, <2>6 DEF CountedBy, m, Updates, OfGen, IsKeyUpdate
<1>7. ASSUME ~IsKeyUpdate(r), m = Used(k) PROVE CountedBy(keys["client_app"])'
  <2>1. m.label = "client_app" /\ m.gen = k.gen /\ m.seq = k.seq + 1
    BY <1>0, <1>1, <1>7 DEF Used, Key
  <2>2. Updates(out', "client_app", n + 1) = Updates(out, "client_app", n)
    BY <1>2, <1>3, <1>7, OneMore
  <2>3. Cardinality(OfGen(out', "client_app", n + 1, k.gen)) = k.seq + 1
    BY <1>1, <1>2, <1>3, <1>4, OneMore
  <2>4. \A i \in 1..(n + 1) : out'[i].key.label = "client_app" => out'[i].key.gen <= k.gen
    BY <1>0, <1>1, <1>2, <1>4
  <2>5. /\ m.gen = Cardinality(Updates(out', "client_app", Len(out')))
        /\ m.seq = Cardinality(OfGen(out', "client_app", Len(out'), m.gen))
    BY <1>1, <1>2, <2>1, <2>2, <2>3
  <2>6. \A i \in 1..Len(out') : out'[i].key.label = "client_app" => out'[i].key.gen <= m.gen
    BY <1>2, <2>1, <2>4
  <2> QED
    BY <2>1, <2>5, <2>6 DEF CountedBy, m, Updates, OfGen, IsKeyUpdate
<1> QED
  BY <1>6, <1>7 DEF Wrote, IsKeyUpdate, k, m

\* The client Finished is the first record protected, and the only one that is not
\* protected with an application key.
LEMMA EstablishedKeepsInStep ==
    ASSUME TypeOK, Lifecycle, InStep, NEW e, NEW th, Established(e, th)
    PROVE  AllDecrypt' /\ CountedBy(keys["client_app"])'
<1> DEFINE n == Len(out)  k == keys["client_hs"]
           r == ProtectedHandshake(k, <<Whole(ClientFinished(th))>>)
<1>0. keys \in [Slots -> Key] /\ "client_app" \in Slots
  BY DEF TypeOK, Slots
<1>1. /\ \A i \in 1..n : ~IsProtected(out[i]) /\ out[i].key.label = "zero"
      /\ k.label = "client_hs" /\ k.gen = 0 /\ k.seq = 0 /\ AllDecrypt
  BY DEF Established, Lifecycle, CallsNest, InStep
<1>2. r.key = k /\ IsFinished(r) /\ ~IsKeyUpdate(r)
  BY DEF ProtectedHandshake, Blank, Whole, ClientFinished, Covering, IsFinished, IsKeyUpdate
<1> HIDE DEF n, k, r
<1>3. out' = Append(out, r)
  BY DEF Established, r, k
<1>4. /\ n \in Nat /\ Len(out') = n + 1 /\ out'[n + 1] = r /\ \A i \in 1..n : out'[i] = out[i]
      /\ \A i \in 1..Len(out') : i \in 1..n \/ i = n + 1
  BY <1>3, OutAppended DEF n
<1>5. AllDecrypt'
  <2>1. Updates(out, "client_hs", n) = {} /\ OfGen(out, "client_hs", n, 0) = {}
    BY <1>1 DEF Updates, OfGen
  <2> QED
    BY <1>1, <1>2, <1>3, <2>1, FS_EmptySet, RecordDecrypts DEF n
<1>6. \A i \in 1..(n + 1) : out'[i].key.label # "client_app"
  BY <1>1, <1>2, <1>4
<1>7. Updates(out', "client_app", n + 1) = {} /\ OfGen(out', "client_app", n + 1, 0) = {}
  BY <1>6 DEF Updates, OfGen
<1>8. keys'["client_app"] = Derive("client_app", th)
  BY <1>0, Zenon DEF Established, Slots
<1>9. CountedBy(keys["client_app"])'
  <2>1. /\ keys'["client_app"].label = "client_app"
        /\ keys'["client_app"].gen = 0 /\ keys'["client_app"].seq = 0
    BY <1>8 DEF Derive
  <2> QED
    BY <1>4, <1>6, <1>7, <2>1, FS_EmptySet DEF CountedBy, Updates, OfGen, IsKeyUpdate
<1> QED
  BY <1>5, <1>9

LEMMA EffectKeepsInStep ==
    ASSUME TypeOK, Lifecycle, Lifecycle', InStep, Effect
    PROVE  InStep'
<1>0. keys \in [Slots -> Key]
  BY DEF TypeOK
<1>a. /\ call.loop \in {"hello", "flight"} <=> state = "HANDSHAKING"
      /\ call'.loop \in {"hello", "flight"} <=> state' = "HANDSHAKING"
  BY DEF Lifecycle, CallsNest
<1>b. ASSUME UNCHANGED out PROVE AllDecrypt'
  <2>1. AllDecrypt
    BY DEF InStep
  <2>2. AllDecrypt' <=> AllDecrypt
    BY ONLY <1>b, ZenonT(30) DEF AllDecrypt
  <2> QED
    BY ONLY <2>1, <2>2
<1>1. CASE Ended
  <2>1. state' \notin {"HANDSHAKING", "CONNECTED"} /\ call'.loop # "flight"
    BY <1>1 DEF Ended, Dropped, Live
  <2>2. AllDecrypt'
    <3>1. CASE out' = <<>>
      BY <3>1 DEF AllDecrypt
    <3>2. CASE /\ state = "CONNECTED"
               /\ out' = Append(out, ProtectedAlert(keys["client_app"], "close_notify"))
      <4> DEFINE r == ProtectedAlert(keys["client_app"], "close_notify")
      <4>1. r.key = keys["client_app"] /\ ~IsFinished(r)
        BY DEF ProtectedAlert, Blank, IsFinished
      <4> HIDE DEF r
      <4>2. out' = Append(out, r) /\ AllDecrypt /\ CountedBy(keys["client_app"])
        BY <3>2 DEF r, InStep
      <4> QED
        BY <4>1, <4>2, AppRecordDecrypts
    <3> QED
      BY <1>1, <1>b, <3>1, <3>2 DEF Ended
  <2> QED
    BY <2>1, <2>2 DEF InStep
<1>2. ASSUME NEW g \in Groups, Began(g) PROVE InStep'
  <2> DEFINE r == PlainHandshake(<<Whole(FirstHello(g))>>)
  <2>1. ~IsProtected(r) /\ r.key.label = "zero"
    BY DEF PlainHandshake, Blank, IsProtected, Zero
  <2> HIDE DEF r
  <2>2. out' = <<r>>
    BY <1>2 DEF Began, r
  <2>3. \A i \in 1..Len(out') : out'[i] = r
    BY <2>2
  <2>4. \A i \in 1..Len(out') : ~IsProtected(out'[i]) /\ out'[i].key.label = "zero"
    BY <2>1, <2>3
  <2>5. AllDecrypt'
    BY <2>4 DEF AllDecrypt, IsProtected
  <2> QED
    BY <1>2, <2>4, <2>5 DEF Began, InStep, IsProtected
<1>3. CASE Kept
  <2>1. AllDecrypt' /\ UNCHANGED <<out, state>>
    BY <1>3, <1>b DEF Kept
  <2>2. keys'["client_hs"] = keys["client_hs"] /\ keys'["client_app"] = keys["client_app"]
    BY <1>3 DEF Kept, KeysKept, Slots
  <2>3. call'.loop = "flight" => call.loop = "flight"
    BY <1>3 DEF Kept, Dropped
  <2> QED
    BY <2>1, <2>2, <2>3 DEF InStep, CountedBy, Updates, OfGen, IsProtected, IsKeyUpdate
<1>4. ASSUME NEW e, NEW f, NEW fs, Retried(e, f, fs) PROVE InStep'
  <2> DEFINE r == PlainHandshake(fs)
  <2>1. ~IsProtected(r) /\ r.key.label = "zero"
    BY DEF PlainHandshake, Blank, IsProtected, Zero
  <2> HIDE DEF r
  <2>2. out' = Append(out, r) /\ state = "HANDSHAKING" /\ state' = state /\ call'.loop = "hello"
    BY <1>4, <1>a DEF Retried, r
  <2>3. AllDecrypt'
    BY <2>1, <2>2, RecordDecrypts DEF InStep
  <2>4. \A i \in 1..Len(out') : ~IsProtected(out'[i]) /\ out'[i].key.label = "zero"
    BY <2>1, <2>2, OutAppended DEF InStep
  <2> QED
    BY <2>2, <2>3, <2>4 DEF InStep, IsProtected
<1>5. ASSUME NEW e, Answered(e) \/ FlightHashed(e) PROVE InStep'
  <2>1. AllDecrypt' /\ UNCHANGED <<out, state>> /\ state = "HANDSHAKING"
    BY <1>5, <1>a, <1>b DEF Answered, FlightHashed
  <2>2. /\ keys'["client_hs"].label = "client_hs"
        /\ keys'["client_hs"].gen = 0 /\ keys'["client_hs"].seq = 0
    <3>1. CASE Answered(e)
      <4>1. keys'["client_hs"] = Derive("client_hs", transcript')
        BY <1>0, <3>1 DEF Answered, Slots
      <4> QED
        BY <4>1 DEF Derive
    <3>2. CASE FlightHashed(e)
      BY <3>2 DEF FlightHashed, InStep
    <3> QED
      BY <1>5, <3>1, <3>2
  <2> QED
    BY <2>1, <2>2 DEF InStep, IsProtected
<1>6. ASSUME NEW e, NEW th, Established(e, th) PROVE InStep'
  <2>1. state' = "CONNECTED" /\ call'.loop # "flight"
    BY <1>6 DEF Established, Dropped
  <2> QED
    BY <1>6, <2>1, EstablishedKeepsInStep DEF InStep
<1>7. ASSUME NEW r, Wrote(r) PROVE InStep'
  <2>1. state' = "CONNECTED" /\ call'.loop # "flight"
    BY <1>7 DEF Wrote, Dropped
  <2>2. ~IsFinished(r) /\ r.key = keys["client_app"] /\ out' = Append(out, r)
        /\ AllDecrypt /\ CountedBy(keys["client_app"])
    BY <1>7 DEF Wrote, IsFinished, InStep
  <2>3. AllDecrypt'
    BY <2>2, AppRecordDecrypts
  <2> QED
    BY <1>7, <2>1, <2>3, WroteKeepsCount DEF InStep
<1> QED
  BY <1>1, <1>2, <1>3, <1>4, <1>5, <1>6, <1>7 DEF Effect

\* A peer that reads the stream in order can tell for every record which key it is under:
\* the handshake key for the Finished, then the application key of as many generations as
\* KeyUpdates came before, at the sequence number counted from the last of them.
THEOREM StreamIsDecryptable == Spec => []PeerCanDecrypt
<1>1. Init => InStep
  <2>1. Init => state = "IDLE" /\ call.loop = "none" /\ out = <<>>
    BY CallChanges, Zenon DEF Init
  <2> QED
    BY <2>1 DEF InStep, AllDecrypt
<1>2. TypeOK /\ Lifecycle /\ Lifecycle' /\ NoCert /\ InStep /\ [Next]_vars => InStep'
  BY StepEffects, EffectKeepsInStep
<1>3. InStep => PeerCanDecrypt
  BY DEF InStep, AllDecrypt, Decrypts, PeerCanDecrypt, Updates, OfGen, IsFinished, IsKeyUpdate
<1> QED
  BY <1>1, <1>2, <1>3, TypeCorrect, LifecycleInvariant, EffectsInvariant, PTL DEF Spec

-----------------------------------------------------------------------------
(* TlsClient implements ClientLifecycle.  Every step of the client has one of nine      *)
(* outcomes a caller can observe; the outcomes alone give the invariant the refinement   *)
(* needs, that a live client holds a stream and a private key, and each of them is a     *)
(* step of ClientLifecycle or none under the refinement mapping.                         *)
Fatal == Errors \ {"OK", "INVALID_ARGUMENT"}

Quiet     == /\ UNCHANGED <<state, result, streamOpen>>
             /\ UNCHANGED share \/ (state = "HANDSHAKING" /\ share' \in Groups)
             /\ ~Live => UNCHANGED <<keys, share>>
Begins    == /\ state = "IDLE" /\ state' = "HANDSHAKING" /\ UNCHANGED result
             /\ share' \in Groups /\ streamOpen' = TRUE
Breaking  == /\ state \in {"IDLE", "HANDSHAKING", "CONNECTED"}
             /\ \E e \in Fatal : Fail(e)
Refuses   == /\ UNCHANGED ownVars
             /\ \/ result' = "INVALID_ARGUMENT" /\ state # "HANDSHAKING"
                \/ result' = "CLOSED" /\ state \notin {"HANDSHAKING", "CONNECTED"}
Completes == /\ state = "CONNECTED" /\ UNCHANGED <<state, share, streamOpen>>
             /\ result' = "OK"
Connects  == /\ state = "HANDSHAKING" /\ state' = "CONNECTED" /\ result' = "OK"
             /\ UNCHANGED <<share, streamOpen>>
EndsByPeer == /\ state = "CONNECTED" /\ RemoteClose
Closes    == /\ state # "HANDSHAKING" /\ result' = "OK"
             /\ \/ state = "CLOSED" /\ UNCHANGED ownVars
                \/ state' = "CLOSED" /\ keys' = Wiped /\ share' = "zero" /\ streamOpen' = FALSE
Resets    == /\ state # "HANDSHAKING" /\ result' = "OK" /\ state' = "IDLE"
             /\ keys' = Wiped /\ share' = "zero" /\ streamOpen' = FALSE

Outcome == \/ Quiet \/ Begins \/ Breaking \/ Refuses \/ Completes \/ Connects
          \/ EndsByPeer \/ Closes \/ Resets

LEMMA FatalErrors ==
    /\ {"BUFFER_TOO_SMALL", "BAD_RECORD", "BAD_HANDSHAKE", "UNSUPPORTED", "CRYPTO", "VERIFY",
        "IO", "CLOSED"} \subseteq Fatal
    /\ ConnectErrors \subseteq Fatal /\ RetryErrors \subseteq Fatal /\ SendErrors \subseteq Fatal
    /\ \A a : AlertError(a) \in Fatal
    /\ \A m : HelloError(m) # "OK" => HelloError(m) \in Fatal
    /\ \A m : FlightError(m) # "OK" => FlightError(m) \in Fatal
<1>1. {"BUFFER_TOO_SMALL", "BAD_RECORD", "BAD_HANDSHAKE", "UNSUPPORTED", "CRYPTO", "VERIFY",
       "IO", "CLOSED"} \subseteq Fatal
  BY DEF Fatal, Errors
<1>2. \A a : AlertError(a) \in Fatal
  BY <1>1 DEF AlertError
<1>3. \A m : HelloError(m) # "OK" => HelloError(m) \in Fatal
  BY <1>1 DEF HelloError
<1>4. \A m : FlightError(m) # "OK" => FlightError(m) \in Fatal
  BY <1>1 DEF FlightError
<1>5. ConnectErrors \subseteq Fatal /\ RetryErrors \subseteq Fatal /\ SendErrors \subseteq Fatal
  BY <1>1 DEF ConnectErrors, RetryErrors, SendErrors
<1> QED BY <1>1, <1>2, <1>3, <1>4, <1>5

LEMMA QuietOwn ==
    /\ UNCHANGED ownVars /\ UNCHANGED result => Quiet
    /\ Live /\ UNCHANGED <<state, result, share, streamOpen>> => Quiet
  BY DEF Quiet, ownVars

LEMMA CallOutcomes == ASSUME TypeOK, Lifecycle, AppCall PROVE Outcome
<1>0. At("none") => state # "HANDSHAKING"
  BY DEF At, Lifecycle, CallsNest
<1>1. CASE ConnectRefused
  BY <1>0, <1>1 DEF ConnectRefused, Return, Outcome, Refuses
<1>2. CASE RecvRefused \/ SendRefused \/ KeyUpdateRefused
  BY <1>0, <1>2 DEF RecvRefused, SendRefused, KeyUpdateRefused, NotConnected, Return,
                    Outcome, Refuses
<1>3. ASSUME NEW e \in ConnectErrors, ConnectFails(e) PROVE Outcome
  <2>1. state = "IDLE" /\ Fail(e) /\ e \in Fatal
    BY <1>3, FatalErrors DEF ConnectFails, BeginConnect
  <2> QED BY <2>1 DEF Outcome, Breaking
<1>4. ASSUME NEW g \in Groups, Connect(g) PROVE Outcome
  BY <1>4 DEF Connect, BeginConnect, Outcome, Begins
<1>5. ASSUME NEW n, RecvPending(n) PROVE Outcome
  BY <1>5 DEF RecvPending, Return, ownVars, Outcome, Completes
<1>6. ASSUME NEW n, RecvStart(n) \/ Send(n) PROVE Outcome
  BY <1>6, QuietOwn DEF RecvStart, Send, Outcome
<1>7. ASSUME NEW request, NEW ok \in BOOLEAN, KeyUpdate(request, ok) PROVE Outcome
  <2>1. state = "CONNECTED"
    BY <1>7 DEF KeyUpdate
  <2>2. CASE ok
    BY <1>7, <2>1, <2>2 DEF KeyUpdate, Outcome, Completes
  <2>3. CASE ~ok
    BY <1>7, <2>1, <2>3, FatalErrors DEF KeyUpdate, FailWith, Outcome, Breaking
  <2> QED BY <2>2, <2>3
<1>8. ASSUME NEW ok, Close(ok) PROVE Outcome
  BY <1>0, <1>8 DEF Close, Outcome, Closes
<1>9. CASE Reset
  BY <1>0, <1>9 DEF Reset, Outcome, Resets
<1> QED
  BY <1>1, <1>2, <1>3, <1>4, <1>5, <1>6, <1>7, <1>8, <1>9 DEF AppCall

LEMMA LocalOutcomes == ASSUME TypeOK, Lifecycle, LocalStep PROVE Outcome
<1>0. /\ call.loop \in {"hello", "flight"} => state = "HANDSHAKING"
      /\ call.loop \in {"post", "send", "recv"} => state = "CONNECTED"
  BY DEF Lifecycle, CallsNest
<1>1. CASE HelloRejected
  BY <1>0, <1>1, FatalErrors DEF HelloRejected, AtHello, At, Outcome, Breaking
<1>2. CASE FlightRejected
  BY <1>0, <1>2, FatalErrors DEF FlightRejected, At, Outcome, Breaking
<1>3. CASE PostRejected \/ PeerKeyUpdateFails
  BY <1>0, <1>3, FatalErrors
     DEF PostRejected, PeerKeyUpdateFails, FailWith, AtKeyUpdate, AtPost, At, Outcome, Breaking
<1>4. ASSUME NEW ok \in BOOLEAN, HelloRetry(ok) PROVE Outcome
  <2>1. state = "HANDSHAKING"
    BY <1>0, <1>4 DEF HelloRetry, AtHello, At
  <2>2. CASE ok
    <3>1. First(buf).val \in Groups
      BY <1>4 DEF HelloRetry, HelloError
    <3>2. /\ share' = First(buf).val /\ UNCHANGED <<state, result, keys, streamOpen>>
      BY <1>4, <2>2 DEF HelloRetry
    <3> QED BY <2>1, <3>1, <3>2 DEF Outcome, Quiet, Live
  <2>3. CASE ~ok
    BY <1>4, <2>1, <2>3, FatalErrors DEF HelloRetry, FailWith, Outcome, Breaking
  <2> QED BY <2>2, <2>3
<1>5. CASE ServerHello
  <2>1. Live /\ UNCHANGED <<state, result, share, streamOpen>>
    BY <1>0, <1>5 DEF ServerHello, AtHello, At, Live
  <2> QED BY <2>1, QuietOwn DEF Outcome
<1>6. CASE EncryptedExtensions \/ Certificate \/ CertificateVerify
  BY <1>6, QuietOwn DEF EncryptedExtensions, Certificate, CertificateVerify, FlightGoesOn, Outcome
<1>7. ASSUME NEW ok \in BOOLEAN, Finished(ok) PROVE Outcome
  <2>1. state = "HANDSHAKING"
    BY <1>0, <1>7 DEF Finished, AtFlight, At
  <2>2. CASE ok
    BY <1>7, <2>1, <2>2 DEF Finished, Outcome, Connects
  <2>3. CASE ~ok
    BY <1>7, <2>1, <2>3, FatalErrors DEF Finished, FailWith, Outcome, Breaking
  <2> QED BY <2>2, <2>3
<1>8. CASE PostDone
  BY <1>8, QuietOwn DEF PostDone, Outcome
<1>9. CASE NewSessionTicket \/ PeerKeyUpdate \/ PeerKeyUpdateRequested
  <2>1. Live /\ UNCHANGED <<state, result, share, streamOpen>>
    BY <1>0, <1>9 DEF NewSessionTicket, PeerKeyUpdate, PeerKeyUpdateRequested, AtKeyUpdate,
                      AtPost, At, PostGoesOn, Live
  <2> QED BY <2>1, QuietOwn DEF Outcome
<1>10. ASSUME NEW ok \in BOOLEAN, SendChunk(ok) PROVE Outcome
  <2>1. state = "CONNECTED"
    BY <1>0, <1>10 DEF SendChunk, At
  <2>2. CASE ok
    BY <1>10, <2>1, <2>2, QuietOwn DEF SendChunk, Live, Outcome
  <2>3. CASE ~ok
    BY <1>10, <2>1, <2>3, FatalErrors DEF SendChunk, FailWith, Outcome, Breaking
  <2> QED BY <2>2, <2>3
<1>11. CASE SendDone
  BY <1>0, <1>11 DEF SendDone, At, Return, ownVars, Outcome, Completes
<1> QED
  BY <1>1, <1>2, <1>3, <1>4, <1>5, <1>6, <1>7, <1>8, <1>9, <1>10, <1>11 DEF LocalStep

LEMMA ReadOutcomes ==
    ASSUME TypeOK, Lifecycle,
           \/ \E r : Receive(r)
           \/ \E e \in {"CLOSED", "IO", "BAD_RECORD"} : ReadFails(e)
    PROVE  Outcome
<1>0. /\ call.loop \in {"hello", "flight"} => state = "HANDSHAKING"
      /\ call.loop = "recv" => state = "CONNECTED"
  BY DEF Lifecycle, CallsNest
<1>1. ASSUME NEW r, HelloRecord(r) PROVE Outcome
  <2>1. state = "HANDSHAKING"
    BY <1>0, <1>1 DEF HelloRecord, At
  <2>2. \/ \E e \in Fatal : Fail(e)
        \/ UNCHANGED ownVars /\ UNCHANGED result
    BY <1>1, FatalErrors DEF HelloRecord
  <2> QED BY <2>1, <2>2, QuietOwn DEF Outcome, Breaking
<1>2. ASSUME NEW r, FlightRecord(r) PROVE Outcome
  <2>1. state = "HANDSHAKING"
    BY <1>0, <1>2 DEF FlightRecord, At
  <2>2. OpenError("server_hs", r) \in Fatal
    BY FatalErrors DEF OpenError
  <2>3. \/ \E e \in Fatal : Fail(e)
        \/ UNCHANGED ownVars /\ UNCHANGED result
        \/ UNCHANGED <<state, result, share, streamOpen>>
    BY <1>2, <2>2, FatalErrors DEF FlightRecord
  <2> QED BY <2>1, <2>3, QuietOwn DEF Outcome, Breaking, Live
<1>3. ASSUME NEW r, RecvRecord(r) PROVE Outcome
  <2>1. state = "CONNECTED"
    BY <1>0, <1>3 DEF RecvRecord, At
  <2>2. OpenError("server_app", r) \in Fatal
    BY FatalErrors DEF OpenError
  <2>3. \/ \E e \in Fatal : Fail(e)
        \/ UNCHANGED ownVars /\ UNCHANGED result
        \/ UNCHANGED <<state, share, streamOpen>> /\ result' = "OK"
        \/ UNCHANGED <<state, result, share, streamOpen>>
        \/ RemoteClose
    BY <1>3, <2>2, FatalErrors DEF RecvRecord
  <2> QED BY <2>1, <2>3, QuietOwn DEF Outcome, Breaking, Completes, EndsByPeer, Live
<1>4. ASSUME NEW e \in {"CLOSED", "IO", "BAD_RECORD"}, ReadFails(e) PROVE Outcome
  BY <1>0, <1>4, FatalErrors DEF ReadFails, Outcome, Breaking
<1> QED BY <1>1, <1>2, <1>3, <1>4 DEF Receive

LEMMA StepOutcomes == ASSUME TypeOK, Lifecycle, Next PROVE Outcome
  BY CallOutcomes, LocalOutcomes, ReadOutcomes DEF Next

-----------------------------------------------------------------------------
(* A live client holds its resources *)

Held == Live => streamOpen = TRUE /\ share # "zero"

LEMMA OutcomeKeepsHeld == ASSUME Held, Outcome PROVE Held'
<1>0. "zero" \notin Groups
  BY ClientAssumption DEF ClientAssumption
<1>1. CASE Quiet
  BY <1>0, <1>1 DEF Quiet, Held, Live
<1>2. CASE Begins
  BY <1>0, <1>2 DEF Begins, Held, Live
<1>3. CASE Breaking
  BY <1>3 DEF Breaking, Fail, Held, Live
<1>4. CASE Refuses \/ Completes \/ Connects
  BY <1>4 DEF Refuses, Completes, Connects, ownVars, Held, Live
<1>5. CASE EndsByPeer
  BY <1>5 DEF EndsByPeer, RemoteClose, Held, Live
<1>6. CASE Closes \/ Resets
  BY <1>6 DEF Closes, Resets, ownVars, Held, Live
<1> QED BY <1>1, <1>2, <1>3, <1>4, <1>5, <1>6 DEF Outcome

LEMMA HeldInvariant == Spec => []Held
<1>1. Init => Held
  BY Zenon DEF Init, Held, Live
<1>2. TypeOK /\ Lifecycle /\ Held /\ [Next]_vars => Held'
  <2> SUFFICES ASSUME TypeOK, Lifecycle, Held, [Next]_vars PROVE Held'
    OBVIOUS
  <2>1. CASE Next
    BY <2>1, StepOutcomes, OutcomeKeepsHeld
  <2>2. CASE UNCHANGED vars
    BY <2>2 DEF vars, ownVars, Held, Live
  <2> QED BY <2>1, <2>2
<1> QED BY <1>1, <1>2, TypeCorrect, LifecycleInvariant, PTL DEF Spec

-----------------------------------------------------------------------------
(* The refinement *)

\* The abstract variables, as the refinement mapping defines them.
AbsState   == IF state = "HANDSHAKING" THEN "IDLE" ELSE state
AbsStream  == streamOpen /\ state # "HANDSHAKING"
AbsSecrets == (keys # Wiped \/ share # "zero") /\ state # "HANDSHAKING"

\* The invariants tie the resources a caller could observe to the state.
Tied == AbsStream = (AbsState = "CONNECTED") /\ AbsSecrets = (AbsState = "CONNECTED")

LEMMA ResourcesFollowState == TypeOK /\ Lifecycle /\ Held => Tied
<1> SUFFICES ASSUME TypeOK, Lifecycle, Held PROVE Tied
  OBVIOUS
<1>1. streamOpen \in BOOLEAN
  BY DEF TypeOK
<1>2. CASE state = "CONNECTED"
  BY <1>1, <1>2 DEF Held, Live, Tied, AbsStream, AbsSecrets, AbsState
<1>3. CASE state = "HANDSHAKING"
  BY <1>3 DEF Tied, AbsStream, AbsSecrets, AbsState
<1>4. CASE ~Live
  BY <1>1, <1>4 DEF Live, Lifecycle, SecretsWiped, Tied, AbsStream, AbsSecrets, AbsState
<1> QED BY <1>2, <1>3, <1>4 DEF Live

\* So a step is determined by what it does to state and result.
LEMMA Determined ==
    ASSUME Tied, Tied'
    PROVE  /\ AbsState' = AbsState /\ result' = result
              => UNCHANGED ClientCalls!lifecycleVars
           /\ \A o : AbsState' = o.state /\ result' = o.result => ClientCalls!Becomes(o)
<1>1. ASSUME AbsState' = AbsState, result' = result PROVE UNCHANGED ClientCalls!lifecycleVars
  <2>1. AbsStream' = AbsStream /\ AbsSecrets' = AbsSecrets
    BY <1>1 DEF Tied
  <2> QED
    BY <1>1, <2>1 DEF ClientCalls!lifecycleVars, AbsState, AbsStream, AbsSecrets
<1>2. ASSUME NEW o, AbsState' = o.state, result' = o.result PROVE ClientCalls!Becomes(o)
  <2>1. AbsStream' = (o.state = "CONNECTED") /\ AbsSecrets' = (o.state = "CONNECTED")
    BY <1>2 DEF Tied
  <2> QED
    BY <1>2, <2>1 DEF ClientCalls!Becomes, AbsState, AbsStream, AbsSecrets
<1> QED BY <1>1, <1>2

\* Each effect is a call of ClientLifecycle, or none.
LEMMA OutcomeSimulates ==
    ASSUME Tied, Tied', Outcome
    PROVE  [ClientCalls!Next]_ClientCalls!lifecycleVars
<1> USE DEF AbsState
<1>1. CASE Quiet
  BY <1>1, Determined DEF Quiet
<1>2. CASE Begins
  BY <1>2, Determined DEF Begins
<1>3. CASE Breaking
  <2>1. PICK e \in Fatal : Fail(e)
    BY <1>3 DEF Breaking
  <2>2. ClientCalls!Becomes(ClientCalls!Ends("FAILED", e))
    <3>1. AbsState' = "FAILED" /\ result' = e
      BY <2>1 DEF Fail
    <3> QED BY <3>1, Determined DEF ClientCalls!Ends
  <2>3. ClientCalls!Ends("FAILED", e) \in ClientCalls!Broken
    BY <2>1 DEF ClientCalls!Broken, Fatal
  <2>4. CASE AbsState = "IDLE"
    <3>1. ClientCalls!Ends("FAILED", e) \in ClientCalls!ConnectOutcomes(AbsState, TRUE)
      BY <2>3, <2>4 DEF ClientCalls!ConnectOutcomes
    <3> QED BY <2>2, <3>1 DEF ClientCalls!Connect, ClientCalls!Next
  <2>5. CASE AbsState = "CONNECTED"
    <3>1. ClientCalls!Ends("FAILED", e) \in ClientCalls!WriteOutcomes(AbsState)
      BY <2>3, <2>5 DEF ClientCalls!WriteOutcomes
    <3> QED BY <2>2, <3>1 DEF ClientCalls!Write, ClientCalls!Next
  <2> QED BY <1>3, <2>4, <2>5 DEF Breaking
<1>4. CASE Refuses /\ result' = "INVALID_ARGUMENT"
  <2>1. ClientCalls!Becomes(ClientCalls!Ends(AbsState, "INVALID_ARGUMENT"))
    <3>1. AbsState' = AbsState
      BY <1>4 DEF Refuses, ownVars
    <3> QED BY <1>4, <3>1, Determined DEF ClientCalls!Ends
  <2>2. ClientCalls!Ends(AbsState, "INVALID_ARGUMENT")
           \in ClientCalls!ConnectOutcomes(AbsState, FALSE)
    BY DEF ClientCalls!ConnectOutcomes
  <2> QED BY <2>1, <2>2 DEF ClientCalls!Connect, ClientCalls!Next
<1>5. CASE Refuses /\ result' = "CLOSED"
  <2>1. ClientCalls!Becomes(ClientCalls!Ends(AbsState, "CLOSED"))
    <3>1. AbsState' = AbsState
      BY <1>5 DEF Refuses, ownVars
    <3> QED BY <1>5, <3>1, Determined DEF ClientCalls!Ends
  <2>2. ClientCalls!Ends(AbsState, "CLOSED") \in ClientCalls!WriteOutcomes(AbsState)
    BY <1>5 DEF ClientCalls!WriteOutcomes, Refuses
  <2> QED BY <2>1, <2>2 DEF ClientCalls!Write, ClientCalls!Next
<1>6. CASE Completes
  <2>1. ClientCalls!Becomes(ClientCalls!Ends("CONNECTED", "OK"))
    <3>1. AbsState' = "CONNECTED" /\ result' = "OK"
      BY <1>6 DEF Completes
    <3> QED BY <3>1, Determined DEF ClientCalls!Ends
  <2>2. ClientCalls!Ends("CONNECTED", "OK") \in ClientCalls!WriteOutcomes(AbsState)
    BY <1>6 DEF ClientCalls!WriteOutcomes, Completes
  <2> QED BY <2>1, <2>2 DEF ClientCalls!Write, ClientCalls!Next
<1>7. CASE Connects
  <2>1. ClientCalls!Becomes(ClientCalls!Ends("CONNECTED", "OK"))
    <3>1. AbsState' = "CONNECTED" /\ result' = "OK"
      BY <1>7 DEF Connects
    <3> QED BY <3>1, Determined DEF ClientCalls!Ends
  <2>2. ClientCalls!Ends("CONNECTED", "OK") \in ClientCalls!ConnectOutcomes(AbsState, TRUE)
    BY <1>7 DEF ClientCalls!ConnectOutcomes, Connects
  <2> QED BY <2>1, <2>2 DEF ClientCalls!Connect, ClientCalls!Next
<1>8. CASE EndsByPeer
  <2>1. ClientCalls!Becomes(ClientCalls!Ends("CLOSED", "CLOSED"))
    <3>1. AbsState' = "CLOSED" /\ result' = "CLOSED"
      BY <1>8 DEF EndsByPeer, RemoteClose
    <3> QED BY <3>1, Determined DEF ClientCalls!Ends
  <2>2. ClientCalls!Ends("CLOSED", "CLOSED") \in ClientCalls!ReadOutcomes(AbsState)
    BY <1>8 DEF ClientCalls!ReadOutcomes, EndsByPeer
  <2> QED BY <2>1, <2>2 DEF ClientCalls!Read, ClientCalls!Next
<1>9. CASE Closes
  <2>1. AbsState' = "CLOSED" /\ result' = "OK"
    BY <1>9 DEF Closes, ownVars
  <2>2. ClientCalls!Becomes(ClientCalls!CloseOutcome)
    BY <2>1, Determined DEF ClientCalls!CloseOutcome, ClientCalls!Ends
  <2> QED BY <2>2 DEF ClientCalls!Close, ClientCalls!Next
<1>10. CASE Resets
  <2>1. AbsState' = "IDLE" /\ result' = "OK"
    BY <1>10 DEF Resets
  <2>2. ClientCalls!Becomes(ClientCalls!ResetOutcome)
    BY <2>1, Determined DEF ClientCalls!ResetOutcome, ClientCalls!Ends
  <2> QED BY <2>2 DEF ClientCalls!Reset, ClientCalls!Next
<1> QED
  BY <1>1, <1>2, <1>3, <1>4, <1>5, <1>6, <1>7, <1>8, <1>9, <1>10 DEF Outcome, Refuses

\* TlsClient, whatever its peer and its stream do, is a ClientLifecycle between calls.
THEOREM ClientIsLifecycle == Spec => ImplementsClientLifecycle
<1>1. Init => ClientCalls!Init
  <2>1. Init => state = "IDLE" /\ result = "OK" /\ streamOpen = FALSE /\ keys = Wiped /\ share = "zero"
    BY Zenon DEF Init
  <2> QED BY <2>1 DEF ClientCalls!Init
<1>2. TypeOK /\ Lifecycle /\ Tied /\ Tied' /\ [Next]_vars
        => [ClientCalls!Next]_ClientCalls!lifecycleVars
  <2> SUFFICES ASSUME TypeOK, Lifecycle, Tied, Tied', [Next]_vars
               PROVE  [ClientCalls!Next]_ClientCalls!lifecycleVars
    OBVIOUS
  <2>1. CASE Next
    BY <2>1, StepOutcomes, OutcomeSimulates
  <2>2. CASE UNCHANGED vars
    <3>1. AbsState' = AbsState /\ result' = result
      BY <2>2 DEF vars, ownVars, AbsState
    <3> QED BY <3>1, Determined
  <2> QED BY <2>1, <2>2
<1> QED
  BY <1>1, <1>2, TypeCorrect, LifecycleInvariant, HeldInvariant, ResourcesFollowState, PTL
     DEF Spec, ClientCalls!Spec, ImplementsClientLifecycle

=============================================================================
