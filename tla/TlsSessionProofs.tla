--------------------------- MODULE TlsSessionProofs ---------------------------
(***************************************************************************)
(* Theorems about one connection of a TlsClient with an honest server, for *)
(* every value of the constants: the ends never fail but with the stream,  *)
(* they agree on the transcript and the keys, and what the applications    *)
(* see is a secure stream.                                                 *)
(*                                                                         *)
(* The invariant follows each direction from the end that writes to the    *)
(* end that reads: a stage says how far an end is with the stream, every   *)
(* record on the way takes the stream from one stage to the next, and the  *)
(* stages at the two ends of the way are those of the two ends.            *)
(***************************************************************************)
EXTENDS TlsSession, TlsClientProofs

-----------------------------------------------------------------------------
(* The flight *)

\* The n units of data that follow the first a.
Run(a, n) == [i \in 1..n |-> a + i]

\* th is the server's transcript, with ServerHello at place n, the server's Finished at
\* n + 4 and the client's at n + 5.  A message of the flight has a first and a second half, numbered
\* from 1; a fragment covers the halves after From up to To.
Place(m) == CASE m.type = "encrypted_extensions" -> 1
              [] m.type = "certificate"          -> 2
              [] m.type = "certificate_verify"   -> 3
              [] OTHER                           -> 4
From(f) == 2 * Place(f.msg) - (IF f.part = "tail" THEN 1 ELSE 2)
To(f)   == 2 * Place(f.msg) - (IF f.part = "head" THEN 1 ELSE 0)

FlightTypes == {"encrypted_extensions", "certificate", "certificate_verify", "finished"}
FlightVals(m) == CASE m.type = "encrypted_extensions" -> ServerAlpns
                   [] m.type = "finished"             -> {"server"}
                   [] OTHER                           -> {ServerChain}

\* m is the message of the flight the server hashed into th.
OfFlight(th, n, m) ==
    /\ m.type \in FlightTypes /\ m.val \in FlightVals(m) /\ m.n = 0
    /\ n + Place(m) <= Len(th) /\ th[n + Place(m)] = EntryOf(m)
    /\ m.over = IF Place(m) <= 2 THEN <<>> ELSE SubSeq(th, 1, n + Place(m) - 1)

\* The fragments fs are the halves a + 1 to b, in order.
Spans(th, n, fs, a, b) ==
    /\ Len(fs) <= 3
    /\ \A i \in 1..Len(fs) : OfFlight(th, n, fs[i].msg)
    /\ IF fs = <<>> THEN a = b ELSE From(fs[1]) = a /\ To(fs[Len(fs)]) = b
    /\ \A i \in 1..(Len(fs) - 1) : To(fs[i]) = From(fs[i + 1])

\* The transcript hashed through ServerHello, and through the server's Finished.
ThroughHello(th, n)  == SubSeq(th, 1, n)
ThroughFlight(th, n) == SubSeq(th, 1, n + 4)
ServerHelloOf(th, n) == Msg("server_hello", th[n].val, 0)
WithClientFinished(th, n) ==
    Append(ThroughFlight(th, n), EntryOf(ClientFinished(ThroughFlight(th, n))))

-----------------------------------------------------------------------------
(* From the server to the client *)

\* How far one end is with the stream: the key of the next record, the halves of the flight,
\* the units of data and whether close_notify is behind it.
Stage == [key : Key, pos : 0..8, data : Nat, ended : BOOLEAN]

CarriesHello(th, n, r, a, b) ==
    /\ a.key = Zero
    /\ r = PlainHandshake(<<Whole(ServerHelloOf(th, n))>>)
    /\ b = [a EXCEPT !.key = KeyOver("server_hs", ThroughHello(th, n))]
CarriesFlight(th, n, r, a, b) ==
    /\ a.key.label = "server_hs"
    /\ \E fs \in Seq(Fragment) :
          /\ Len(fs) \in 1..2 /\ Spans(th, n, fs, a.pos, b.pos)
          /\ r = ProtectedHandshake(a.key, fs)
    /\ b.key = IF b.pos = 8 THEN KeyOver("server_app", ThroughFlight(th, n))
                            ELSE AfterRecord(a.key)
    /\ b.data = a.data /\ ~b.ended
CarriesData(r, a, b) ==
    \E n \in Nat \ {0} : /\ r = ProtectedData(a.key, Run(a.data, n))
                         /\ b = [a EXCEPT !.key = AfterRecord(@), !.data = @ + n]
CarriesTicket(r, a, b) ==
    /\ r = ProtectedHandshake(a.key, <<Whole(Msg("new_session_ticket", "none", 0))>>)
    /\ b = [a EXCEPT !.key = AfterRecord(@)]
CarriesUpdate(r, a, b) ==
    /\ \E request \in BOOLEAN : r = ProtectedHandshake(a.key, <<Whole(KeyUpdateMsg(request))>>)
    /\ b = [a EXCEPT !.key = AfterUpdate(@)]
CarriesEnd(r, a, b) ==
    /\ r = ProtectedAlert(a.key, "close_notify")
    /\ b = [a EXCEPT !.key = AfterRecord(@), !.ended = TRUE]

\* The record r takes the stream from stage a to stage b.
Carries(th, n, r, a, b) ==
    /\ ~a.ended
    /\ \/ CarriesHello(th, n, r, a, b)
       \/ CarriesFlight(th, n, r, a, b)
       \/ a.key.label = "server_app" /\ \/ CarriesData(r, a, b) \/ CarriesTicket(r, a, b)
                                        \/ CarriesUpdate(r, a, b) \/ CarriesEnd(r, a, b)

\* Where ServerHello is in the server's transcript.
HelloEnd == Len(srvKeys["server_hs"].th)

StageOK(s) ==
    /\ s.pos = 8 => phase # "flight" /\ s.key.label = "server_app"
    /\ s.pos < 8 => s.data = 0 /\ s.key.label # "server_app"
    /\ s.data <= Len(srvSent)
    /\ s.ended => srvEnded /\ s.data = Len(srvSent)

\* What the client has checked with q messages of the flight handled.
Checked(th, n, q) ==
    /\ share = th[n].val
    /\ IF q = 0 THEN alpn = "none" ELSE th[n + 1].type = "encrypted_extensions" /\ alpn = th[n + 1].val
    /\ q \in {2, 3} => call.cert = ServerChain
    /\ q >= 3 => authentic = ServerChain

AwaitsHello(th, n, v) ==
    /\ At("hello") /\ v.pos = 0
    /\ transcript = SubSeq(th, 1, n - 1) /\ Checked(th, n, 0)
    /\ \/ buf = <<>> /\ v.key = Zero
       \/ /\ buf = <<Whole(ServerHelloOf(th, n))>>
          /\ v.key = KeyOver("server_hs", ThroughHello(th, n))
InFlight(th, n, v) ==
    /\ At("flight")
    /\ \E q \in 0..3 :
          /\ n + q <= Len(th) /\ transcript = SubSeq(th, 1, n + q) /\ Checked(th, n, q)
          /\ Spans(th, n, buf, 2 * q, v.pos)
    /\ v.key = IF v.pos = 8 THEN KeyOver("server_app", ThroughFlight(th, n))
                            ELSE keys["server_hs"]
    /\ keys["server_hs"].label = "server_hs"
    /\ keys["client_hs"] = KeyOver("client_hs", ThroughHello(th, n))
IsConnected(th, n, v) ==
    /\ state = "CONNECTED" /\ v.pos = 8
    /\ n + 4 <= Len(th) /\ transcript = WithClientFinished(th, n) /\ Checked(th, n, 4)
    /\ \/ buf = <<>> /\ v.key = keys["server_app"]
       \/ /\ At("post") /\ buf = <<Whole(Msg("new_session_ticket", "none", 0))>>
          /\ v.key = keys["server_app"]
       \/ /\ At("post") /\ \E request \in BOOLEAN : buf = <<Whole(KeyUpdateMsg(request))>>
          /\ v.key = AfterUpdate(keys["server_app"])

ClientAt(th, n, v) ==
    /\ v.data = Len(got) + Len(pending) /\ ~v.ended
    /\ AwaitsHello(th, n, v) \/ InFlight(th, n, v) \/ IsConnected(th, n, v)

ServerAt(v) ==
    /\ v.data = Len(srvSent) /\ v.ended = srvEnded
    /\ IF phase = "flight"
         THEN /\ v.key = srvKeys["server_hs"]
              /\ Spans(srvTranscript, HelloEnd, held, v.pos, 2 * (4 - Len(left)))
         ELSE v.key = srvKeys["server_app"] /\ v.pos = 8

PathToClient(g) ==
    /\ ClientAt(srvTranscript, HelloEnd, g[0]) /\ ServerAt(g[Len(toClient)])
    /\ \A i \in 0..Len(toClient) : StageOK(g[i])
    /\ \A i \in 1..Len(toClient) : Carries(srvTranscript, HelloEnd, toClient[i], g[i - 1], g[i])

-----------------------------------------------------------------------------
(* From the client to the server *)

WriteStage == [key : Key, data : Nat, ended : BOOLEAN]

SendsFinished(th, n, r, a, b) ==
    /\ n + 4 <= Len(th) /\ a.key = KeyOver("client_hs", ThroughHello(th, n))
    /\ r = ProtectedHandshake(a.key, <<Whole(ClientFinished(ThroughFlight(th, n)))>>)
    /\ b = [a EXCEPT !.key = KeyOver("client_app", ThroughFlight(th, n))]
SendsData(r, a, b) == /\ r = ProtectedData(a.key, <<a.data + 1>>)
                      /\ b = [a EXCEPT !.key = AfterRecord(@), !.data = @ + 1]
SendsUpdate(r, a, b) ==
    /\ \E request \in BOOLEAN : r = ProtectedHandshake(a.key, <<Whole(KeyUpdateMsg(request))>>)
    /\ b = [a EXCEPT !.key = AfterUpdate(@)]
SendsEnd(r, a, b) == /\ r = ProtectedAlert(a.key, "close_notify")
                     /\ b = [a EXCEPT !.ended = TRUE]

Sends(th, n, r, a, b) ==
    /\ ~a.ended
    /\ \/ SendsFinished(th, n, r, a, b)
       \/ a.key.label = "client_app" /\ \/ SendsData(r, a, b) \/ SendsUpdate(r, a, b)
                                        \/ SendsEnd(r, a, b)

ServerReadsAt(u) ==
    u = IF phase = "connected"
          THEN [key |-> srvKeys["client_app"], data |-> Len(srvGot), ended |-> FALSE]
          ELSE [key |-> srvKeys["client_hs"], data |-> 0, ended |-> FALSE]

ClientWritesAt(w) ==
    /\ w.data = accepted /\ ~w.ended
    /\ w.key = IF state = "CONNECTED" THEN keys["client_app"] ELSE srvKeys["client_hs"]

WriteStageOK(s) == s.data <= accepted /\ (s.ended => ~Live /\ s.data = accepted)

PathToServer(g) ==
    /\ ServerReadsAt(g[readUpTo]) /\ (Live => ClientWritesAt(g[Len(out)]))
    /\ \A i \in readUpTo..Len(out) : WriteStageOK(g[i])
    /\ \A i \in (readUpTo + 1)..Len(out) : Sends(srvTranscript, HelloEnd, out[i], g[i - 1], g[i])

-----------------------------------------------------------------------------
(* The invariant *)

\* The server, whatever its client does.
ServerTyped ==
    /\ phase \in {"hello", "flight", "finished", "connected", "closed"}
    /\ srvTranscript \in Seq(Entry) /\ srvKeys \in [Slots -> Key]
    /\ left \in Seq(FlightTypes) /\ held \in Seq(Fragment) /\ readUpTo \in 0..Len(out)
    /\ srvSent = Run(0, Len(srvSent)) /\ srvSent \in Seq(Nat)
    /\ srvGot = Run(0, Len(srvGot)) /\ srvGot \in Seq(Nat)
    /\ owes \in BOOLEAN /\ srvEnded \in BOOLEAN /\ told \in BOOLEAN /\ broken \in BOOLEAN
    /\ toClient \in Seq(Record)

ServerShape ==
    LET n == HelloEnd  th == srvTranscript IN
    /\ phase \in {"hello", "flight"} => srvSent = <<>> /\ ~srvEnded
    /\ phase \in {"hello", "flight", "finished"} => srvGot = <<>>
    /\ phase = "hello" => srvKeys = Wiped /\ left = <<>> /\ held = <<>>
    /\ phase # "hello" =>
          /\ n \in 1..Len(th) /\ srvKeys["server_hs"].th = ThroughHello(th, n)
          /\ srvKeys["server_hs"].label = "server_hs"
          /\ th[n] = EntryOf(ServerHelloOf(th, n)) /\ th[n].val \in ServerGroups
          /\ srvKeys["client_hs"] = KeyOver("client_hs", ThroughHello(th, n))
    /\ phase = "flight" =>
          /\ Len(left) <= 4 /\ left = SubSeq(Flight, 5 - Len(left), 4)
          /\ Len(th) = n + 4 - Len(left)
          /\ left # <<>> \/ held # <<>>
    /\ phase \in {"finished", "connected", "closed"} =>
          /\ left = <<>> /\ held = <<>> /\ n + 4 <= Len(th)
          /\ srvKeys["server_app"].label = "server_app"
    /\ phase = "finished" =>
          /\ Len(th) = n + 4
          /\ srvKeys["client_app"] = KeyOver("client_app", ThroughFlight(th, n))
    /\ phase \in {"connected", "closed"} => th = WithClientFinished(th, n)
    /\ phase = "connected" => srvKeys["client_app"].label = "client_app"

\* What recv() has returned, and what it has still to return, are the data in order.
InOrder ==
    /\ got = Run(0, Len(got)) /\ pending = Run(Len(got), Len(pending))
    /\ call.loop \in {"recv", "post"} => pending = <<>>
    /\ state = "HANDSHAKING" => accepted = 0 /\ got = <<>> /\ pending = <<>>

\* The client, whatever the server does: it connects once, and fails only with the stream.
ClientShape ==
    /\ conn <= 1 /\ (Live => conn = 1)
    /\ conn = 0 => /\ state \in {"IDLE", "CLOSED"} /\ out = <<>>
                   /\ got = <<>> /\ pending = <<>> /\ accepted = 0 /\ call = NoCall
    /\ told => conn = 1 /\ ~Live
    /\ state = "FAILED" => broken
    /\ state = "CONNECTED" => keys["client_app"].label = "client_app"
    /\ InOrder

HelloMsg(g) == Msg("client_hello", g, 1)
HelloOut(g) == PlainHandshake(<<Whole(HelloMsg(g))>>)
RetryMsg(g) == Msg("hello_retry_request", g, 0)
RetryOut(g) == PlainHandshake(<<Whole(RetryMsg(g))>>)

\* Before ServerHello the two ends take turns: the client's hello is unread or not yet sent ...
BeforeRetry ==
    /\ readUpTo = 0 /\ srvTranscript = <<>> /\ toClient = <<>>
    /\ \/ out = <<>> /\ ~Live
       \/ \E g \in Groups :
             /\ out = <<HelloOut(g)>>
             /\ Live => /\ At("hello") /\ ~call.hadHrr /\ buf = <<>> /\ share = g
                        /\ transcript = <<EntryOf(HelloMsg(g))>> /\ alpn = "none"
\* ... or the server has asked for another.
AfterRetry ==
    \E g \in Groups \ ServerGroups, s \in ServerGroups :
        /\ readUpTo = 1
        /\ srvTranscript = <<EntryOf(HelloMsg(g)), EntryOf(RetryMsg(s))>>
        /\ \/ /\ out = <<HelloOut(g)>>
              /\ Live => /\ At("hello") /\ ~call.hadHrr /\ share = g
                         /\ transcript = <<EntryOf(HelloMsg(g))>> /\ alpn = "none"
                         /\ \/ toClient = <<RetryOut(s)>> /\ buf = <<>>
                            \/ toClient = <<>> /\ buf = <<Whole(RetryMsg(s))>>
           \/ /\ out = <<HelloOut(g), HelloOut(s)>>
              /\ Live => /\ At("hello") /\ call.hadHrr /\ share = s
                         /\ transcript = Append(srvTranscript, EntryOf(HelloMsg(s)))
                         /\ alpn = "none" /\ toClient = <<>> /\ buf = <<>>

\* The two ends together.
Plain(r) == r.key = Zero /\ r.inner = "none"
InPhase ==
    /\ phase = "hello" => BeforeRetry \/ AfterRetry
    /\ phase # "hello" => conn = 1
    /\ phase # "hello" /\ state = "HANDSHAKING" => readUpTo = Len(out)
    /\ phase = "flight" => readUpTo = Len(out) /\ state # "CONNECTED"
    /\ phase \in {"connected", "closed"} => state # "HANDSHAKING"
    /\ phase \in {"hello", "flight"} \/ state = "HANDSHAKING" =>
          \A i \in 1..Len(out) : Plain(out[i])
    /\ state = "CONNECTED" => /\ \A i \in 1..Len(out) : out[i].inner # "alert"
                              /\ \E i \in 1..Len(out) : out[i].key.label = "client_hs"
    /\ phase \in {"connected", "closed"} => \E i \in 1..Len(out) : out[i].key.label = "client_hs"

ToClient == phase # "hello" /\ Live => \E g \in [Nat -> Stage] : PathToClient(g)
ToServer == phase \in {"flight", "finished", "connected"} =>
                \E g \in [Nat -> WriteStage] : PathToServer(g)

SInv == /\ TypeOK /\ Lifecycle /\ ServerTyped /\ ServerShape /\ ClientShape
        /\ InPhase /\ ToClient /\ ToServer

-----------------------------------------------------------------------------
(* Lemmas about the flight *)

LEMMA Halves ==
    ASSUME NEW f \in Fragment
    PROVE  /\ Place(f.msg) \in 1..4 /\ From(f) \in 0..7 /\ To(f) \in 1..8 /\ From(f) < To(f)
           /\ f.part = "whole" => From(f) = 2 * Place(f.msg) - 2 /\ To(f) = 2 * Place(f.msg)
           /\ f.part = "head" => From(f) = 2 * Place(f.msg) - 2 /\ To(f) = 2 * Place(f.msg) - 1
           /\ f.part = "tail" => From(f) = 2 * Place(f.msg) - 1 /\ To(f) = 2 * Place(f.msg)
           /\ f.part \in {"whole", "head", "tail"} /\ f.msg \in Message
<1>1. Place(f.msg) \in 1..4
  BY DEF Place
<1>2. f.part \in {"whole", "head", "tail"} /\ f.msg \in Message
  BY DEF Fragment
<1>3. PICK p \in 1..4 : p = Place(f.msg)
  BY <1>1
<1> QED
  BY <1>2, <1>3 DEF From, To

LEMMA Elements ==
    ASSUME NEW fs \in Seq(Fragment)
    PROVE  /\ Len(fs) \in Nat /\ (fs = <<>> <=> Len(fs) = 0)
           /\ \A i \in 1..Len(fs) : fs[i] \in Fragment
  BY EmptySeq, ElementOfSeq, LenProperties

LEMMA SomeElements ==
    ASSUME NEW fs \in Seq(Fragment), Len(fs) \in 1..2
    PROVE  fs # <<>>
<1>1. PICK k \in 1..2 : k = Len(fs)
  OBVIOUS
<1> QED
  BY <1>1, Elements

\* A transcript may grow: what is said of a beginning of it stays true.
LEMMA BeginningsKept ==
    ASSUME NEW th \in Seq(Entry), NEW e \in Entry
    PROVE  /\ Append(th, e) \in Seq(Entry) /\ Len(Append(th, e)) = Len(th) + 1
           /\ \A i \in 1..Len(th) : Append(th, e)[i] = th[i]
           /\ Append(th, e)[Len(th) + 1] = e
           /\ \A i \in 0..Len(th) : SubSeq(Append(th, e), 1, i) = SubSeq(th, 1, i)
<1>1. /\ Append(th, e) \in Seq(Entry) /\ Len(Append(th, e)) = Len(th) + 1
      /\ \A i \in 1..Len(th) : Append(th, e)[i] = th[i]
      /\ Append(th, e)[Len(th) + 1] = e
  BY AppendProperties
<1>2. ASSUME NEW i \in 0..Len(th)
      PROVE  SubSeq(Append(th, e), 1, i) = SubSeq(th, 1, i)
  <2> DEFINE A == SubSeq(Append(th, e), 1, i)
             B == SubSeq(th, 1, i)
  <2>1. /\ A \in Seq(Entry) /\ Len(A) = i
        /\ \A j \in 1..i : A[j] = Append(th, e)[j]
    <3>1. 1 \in 1..(Len(Append(th, e)) + 1) /\ i \in (1 - 1)..Len(Append(th, e))
      BY <1>1, LenProperties
    <3>2. Len(A) = IF 1 <= i THEN i - 1 + 1 ELSE 0
      BY <3>1, <1>1, SubSeqProperties
    <3> QED
      BY <3>1, <3>2, <1>1, SubSeqProperties
  <2>2. /\ B \in Seq(Entry) /\ Len(B) = i
        /\ \A j \in 1..i : B[j] = th[j]
    <3>1. 1 \in 1..(Len(th) + 1) /\ i \in (1 - 1)..Len(th)
      BY LenProperties
    <3>2. Len(B) = IF 1 <= i THEN i - 1 + 1 ELSE 0
      BY <3>1, SubSeqProperties
    <3> QED
      BY <3>1, <3>2, SubSeqProperties
  <2>3. \A j \in 1..i : A[j] = B[j]
    BY <2>1, <2>2, <1>1
  <2> HIDE DEF A, B
  <2>4. A = B
    BY <2>1, <2>2, <2>3, SeqEqual
  <2> QED
    BY <2>4 DEF A, B
<1> QED
  BY <1>1, <1>2

LEMMA BeginningIs ==
    ASSUME NEW th \in Seq(Entry), NEW i \in 0..Len(th)
    PROVE  /\ SubSeq(th, 1, i) \in Seq(Entry) /\ Len(SubSeq(th, 1, i)) = i
           /\ \A j \in 1..i : SubSeq(th, 1, i)[j] = th[j]
           /\ i < Len(th) => Append(SubSeq(th, 1, i), th[i + 1]) = SubSeq(th, 1, i + 1)
           /\ \A j \in 0..i : SubSeq(SubSeq(th, 1, i), 1, j) = SubSeq(th, 1, j)
<1>1. ASSUME NEW k \in 0..Len(th)
      PROVE  /\ SubSeq(th, 1, k) \in Seq(Entry) /\ Len(SubSeq(th, 1, k)) = k
             /\ \A j \in 1..k : SubSeq(th, 1, k)[j] = th[j]
  <2>1. 1 \in 1..(Len(th) + 1) /\ k \in (1 - 1)..Len(th)
    BY LenProperties
  <2>2. Len(SubSeq(th, 1, k)) = IF 1 <= k THEN k - 1 + 1 ELSE 0
    BY <2>1, SubSeqProperties
  <2> QED
    BY <2>1, <2>2, SubSeqProperties
<1>2. ASSUME i < Len(th)
      PROVE  Append(SubSeq(th, 1, i), th[i + 1]) = SubSeq(th, 1, i + 1)
  <2> DEFINE A == Append(SubSeq(th, 1, i), th[i + 1])
             B == SubSeq(th, 1, i + 1)
  <2>1. th[i + 1] \in Entry /\ i + 1 \in 0..Len(th) /\ i \in Nat
    BY <1>2, ElementOfSeq, LenProperties
  <2>2. /\ B \in Seq(Entry) /\ Len(B) = i + 1
        /\ \A j \in 1..(i + 1) : B[j] = th[j]
    BY <2>1, <1>1
  <2>3. /\ A \in Seq(Entry) /\ Len(A) = i + 1
        /\ \A j \in 1..i : A[j] = th[j]
        /\ A[i + 1] = th[i + 1]
    BY <2>1, <1>1, AppendProperties
  <2>4. \A j \in 1..(i + 1) : A[j] = B[j]
    BY <2>1, <2>2, <2>3
  <2> HIDE DEF A, B
  <2>5. A = B
    BY <2>2, <2>3, <2>4, SeqEqual
  <2> QED
    BY <2>5 DEF A, B
<1>3. ASSUME NEW j \in 0..i
      PROVE  SubSeq(SubSeq(th, 1, i), 1, j) = SubSeq(th, 1, j)
  <2> DEFINE S == SubSeq(th, 1, i)
             A == SubSeq(S, 1, j)
             B == SubSeq(th, 1, j)
  <2>1. /\ S \in Seq(Entry) /\ Len(S) = i /\ i \in Nat
        /\ \A k \in 1..i : S[k] = th[k]
    BY <1>1, LenProperties
  <2>2. /\ B \in Seq(Entry) /\ Len(B) = j
        /\ \A k \in 1..j : B[k] = th[k]
    <3>1. j \in 0..Len(th)
      BY LenProperties
    <3> QED
      BY <3>1, <1>1
  <2> HIDE DEF S
  <2>3. /\ A \in Seq(Entry) /\ Len(A) = j
        /\ \A k \in 1..j : A[k] = S[k]
    <3>1. 1 \in 1..(Len(S) + 1) /\ j \in (1 - 1)..Len(S)
      BY <2>1
    <3>2. Len(A) = IF 1 <= j THEN j - 1 + 1 ELSE 0
      BY <2>1, <3>1, SubSeqProperties
    <3> QED
      BY <2>1, <3>1, <3>2, SubSeqProperties
  <2>4. \A k \in 1..j : A[k] = B[k]
    BY <2>1, <2>2, <2>3
  <2> HIDE DEF A, B
  <2>5. A = B
    BY <2>2, <2>3, <2>4, SeqEqual
  <2> QED
    BY <2>5 DEF A, B, S
<1> QED
  BY <1>1, <1>2, <1>3

LEMMA SpansTypes ==
    ASSUME NEW th, NEW n, NEW fs \in Seq(Fragment), NEW a \in 0..8, NEW b, Spans(th, n, fs, a, b)
    PROVE  /\ b \in a..8
           /\ fs # <<>> => a < b
           /\ fs = <<>> => a = b
<1>1. CASE fs = <<>>
  BY <1>1 DEF Spans
<1>2. CASE fs # <<>>
  <2>1. Len(fs) \in 1..3 /\ \A i \in 1..Len(fs) : fs[i] \in Fragment
    <3>1. Len(fs) <= 3
      BY DEF Spans
    <3>2. Len(fs) \in Nat /\ Len(fs) # 0
      BY <1>2, Elements
    <3>3. \A i \in 1..Len(fs) : fs[i] \in Fragment
      BY Elements
    <3>4. PICK k \in Nat : k = Len(fs)
      BY <3>2
    <3>5. k \in 1..3
      BY <3>1, <3>2, <3>4
    <3> QED
      BY <3>3, <3>4, <3>5
  <2>2. From(fs[1]) = a /\ To(fs[Len(fs)]) = b
        /\ \A i \in 1..(Len(fs) - 1) : To(fs[i]) = From(fs[i + 1])
    BY <1>2 DEF Spans
  <2>3. \A i \in 1..Len(fs) : /\ From(fs[i]) \in 0..7 /\ To(fs[i]) \in 1..8
                              /\ From(fs[i]) < To(fs[i])
    BY <2>1, Halves
  <2>4. CASE Len(fs) = 1
    BY <2>2, <2>3, <2>4
  <2>5. CASE Len(fs) = 2
    BY <2>2, <2>3, <2>5
  <2>6. CASE Len(fs) = 3
    <3>1. To(fs[1]) = From(fs[2]) /\ To(fs[2]) = From(fs[3])
      BY <2>2, <2>6
    <3>2. /\ From(fs[1]) < To(fs[1]) /\ From(fs[2]) < To(fs[2]) /\ From(fs[3]) < To(fs[3])
          /\ From(fs[1]) \in 0..7 /\ To(fs[1]) \in 1..8 /\ To(fs[2]) \in 1..8
          /\ To(fs[3]) \in 1..8
      BY <2>3, <2>6
    <3>3. From(fs[1]) = a /\ To(fs[3]) = b
      BY <2>2, <2>6
    <3>4. a < b /\ b <= 8 /\ b \in 1..8 /\ a \in 0..7
      BY <3>1, <3>2, <3>3
    <3> QED
      BY <1>2, <3>4
  <2> QED
    BY <1>2, <2>1, <2>4, <2>5, <2>6
<1> QED
  BY <1>1, <1>2

LEMMA SpansJoin ==
    ASSUME NEW th, NEW n, NEW fs \in Seq(Fragment), NEW gs \in Seq(Fragment), NEW a, NEW b, NEW c,
           Spans(th, n, fs, a, b), Spans(th, n, gs, b, c), Len(fs) + Len(gs) <= 3
    PROVE  Spans(th, n, fs \o gs, a, c)
<1> DEFINE s == fs \o gs
<1>1. PICK p \in Nat, q \in Nat : p = Len(fs) /\ q = Len(gs)
  BY Elements
<1>2. /\ s \in Seq(Fragment) /\ Len(s) = p + q
      /\ \A i \in 1..p : s[i] = fs[i]
      /\ \A i \in (p + 1)..(p + q) : s[i] = gs[i - p]
  BY <1>1, ConcatProperties
<1>3. /\ fs = <<>> <=> p = 0
      /\ gs = <<>> <=> q = 0
  BY <1>1, Elements
<1> HIDE DEF s
<1>4. s = <<>> <=> p + q = 0
  BY <1>2, Elements
<1>5. \A i \in 1..Len(s) : OfFlight(th, n, s[i].msg)
  <2> TAKE i \in 1..Len(s)
  <2>1. CASE i \in 1..p
    BY <2>1, <1>1, <1>2 DEF Spans
  <2>2. CASE i \in (p + 1)..(p + q)
    <3>1. i - p \in 1..q
      BY <2>2
    <3> QED
      BY <2>2, <3>1, <1>1, <1>2 DEF Spans
  <2> QED
    BY <1>2, <2>1, <2>2
<1>6. \A i \in 1..(Len(s) - 1) : To(s[i]) = From(s[i + 1])
  <2> TAKE i \in 1..(Len(s) - 1)
  <2>1. CASE i + 1 <= p
    <3>1. i \in 1..(p - 1) /\ i \in 1..p /\ i + 1 \in 1..p
      BY <2>1
    <3>2. To(fs[i]) = From(fs[i + 1])
      BY <3>1, <1>1 DEF Spans
    <3> QED
      BY <3>1, <3>2, <1>2
  <2>2. CASE i = p
    <3>1. p \in 1..p /\ q \in 1..q /\ p + 1 \in (p + 1)..(p + q) /\ (p + 1) - p = 1
      BY <2>2, <1>2
    <3>2. s[i] = fs[p] /\ s[i + 1] = gs[1]
      BY <2>2, <3>1, <1>2
    <3>3. fs # <<>> /\ gs # <<>>
      BY <3>1, <1>3
    <3>4. To(fs[p]) = b /\ From(gs[1]) = b
      BY <3>3, <1>1 DEF Spans
    <3> QED
      BY <3>2, <3>4
  <2>3. CASE i > p
    <3>1. /\ i \in (p + 1)..(p + q) /\ i + 1 \in (p + 1)..(p + q) /\ (i + 1) - p = (i - p) + 1
          /\ i - p \in 1..(q - 1)
      BY <2>3, <1>2
    <3>2. s[i] = gs[i - p] /\ s[i + 1] = gs[(i - p) + 1]
      BY <3>1, <1>2
    <3>3. To(gs[i - p]) = From(gs[(i - p) + 1])
      BY <3>1, <1>1 DEF Spans
    <3> QED
      BY <3>2, <3>3
  <2> QED
    BY <1>2, <2>1, <2>2, <2>3
<1>7. IF s = <<>> THEN a = c ELSE From(s[1]) = a /\ To(s[Len(s)]) = c
  <2>1. CASE p = 0 /\ q = 0
    BY <2>1, <1>3, <1>4 DEF Spans
  <2>2. CASE p = 0 /\ q # 0
    <3>1. /\ 1 \in (p + 1)..(p + q) /\ p + q \in (p + 1)..(p + q)
          /\ 1 - p = 1 /\ (p + q) - p = q
      BY <2>2
    <3>2. s[1] = gs[1] /\ s[Len(s)] = gs[q]
      BY <3>1, <1>2
    <3>3. a = b /\ From(gs[1]) = b /\ To(gs[q]) = c
      BY <2>2, <1>1, <1>3 DEF Spans
    <3> QED
      BY <2>2, <3>2, <3>3, <1>4
  <2>3. CASE p # 0 /\ q = 0
    <3>1. 1 \in 1..p /\ p \in 1..p /\ p + q = p
      BY <2>3
    <3>2. s[1] = fs[1] /\ s[Len(s)] = fs[p]
      BY <3>1, <1>2
    <3>3. b = c /\ From(fs[1]) = a /\ To(fs[p]) = b
      BY <2>3, <1>1, <1>3 DEF Spans
    <3> QED
      BY <2>3, <3>2, <3>3, <1>4
  <2>4. CASE p # 0 /\ q # 0
    <3>1. 1 \in 1..p /\ p + q \in (p + 1)..(p + q) /\ (p + q) - p = q
      BY <2>4
    <3>2. s[1] = fs[1] /\ s[Len(s)] = gs[q]
      BY <3>1, <1>2
    <3>3. From(fs[1]) = a /\ To(gs[q]) = c
      BY <2>4, <1>1, <1>3 DEF Spans
    <3> QED
      BY <2>4, <3>2, <3>3, <1>4
  <2> QED
    BY <2>1, <2>2, <2>3, <2>4
<1>8. Len(s) <= 3
  BY <1>1, <1>2
<1>9. Spans(th, n, s, a, c)
  BY <1>5, <1>6, <1>7, <1>8 DEF Spans
<1> QED
  BY <1>9 DEF s

LEMMA SpansSplit ==
    ASSUME NEW th, NEW n, NEW fs \in Seq(Fragment), NEW a, NEW c, NEW k \in 1..Len(fs),
           Spans(th, n, fs, a, c)
    PROVE  LET fst == SubSeq(fs, 1, k)
               snd == SubSeq(fs, k + 1, Len(fs))
           IN  /\ fst \in Seq(Fragment) /\ snd \in Seq(Fragment)
               /\ Len(fst) = k /\ Len(snd) = Len(fs) - k
               /\ Spans(th, n, fst, a, To(fs[k])) /\ Spans(th, n, snd, To(fs[k]), c)
<1> DEFINE s == SubSeq(fs, 1, k)
           t == SubSeq(fs, k + 1, Len(fs))
<1>1. PICK p \in Nat : p = Len(fs)
  BY Elements
<1>2. p <= 3 /\ k \in 1..p /\ fs # <<>>
  BY <1>1, Elements DEF Spans
<1>3. /\ s \in Seq(Fragment) /\ Len(s) = k
      /\ \A i \in 1..k : s[i] = fs[i]
  <2>1. 1 \in 1..(Len(fs) + 1) /\ k \in (1 - 1)..Len(fs)
    BY <1>1, <1>2
  <2>2. Len(s) = IF 1 <= k THEN k - 1 + 1 ELSE 0
    BY <2>1, SubSeqProperties
  <2> QED
    BY <1>2, <2>1, <2>2, SubSeqProperties
<1>4. /\ t \in Seq(Fragment) /\ Len(t) = p - k
      /\ \A i \in 1..(p - k) : t[i] = fs[k + i]
  <2>1. k + 1 \in 1..(Len(fs) + 1) /\ Len(fs) \in ((k + 1) - 1)..Len(fs)
    BY <1>1, <1>2
  <2>2. Len(t) = IF k + 1 <= Len(fs) THEN Len(fs) - (k + 1) + 1 ELSE 0
    BY <2>1, SubSeqProperties
  <2>3. Len(t) = p - k
    BY <1>1, <1>2, <2>2
  <2>4. \A i \in 1..(p - k) : t[i] = fs[(k + 1) + i - 1]
    BY <2>1, <2>3, SubSeqProperties
  <2>5. \A i \in 1..(p - k) : (k + 1) + i - 1 = k + i
    BY <1>2
  <2>6. t \in Seq(Fragment)
    BY <2>1, SubSeqProperties
  <2> QED
    BY <2>3, <2>4, <2>5, <2>6
<1> HIDE DEF s, t
<1>5. s # <<>> /\ (t = <<>> <=> p = k)
  <2>1. (s = <<>> <=> Len(s) = 0) /\ (t = <<>> <=> Len(t) = 0)
    BY <1>3, <1>4, Elements
  <2> QED
    BY <2>1, <1>2, <1>3, <1>4
<1>6. /\ \A i \in 1..p : OfFlight(th, n, fs[i].msg)
      /\ From(fs[1]) = a /\ To(fs[p]) = c
      /\ \A i \in 1..(p - 1) : To(fs[i]) = From(fs[i + 1])
  BY <1>1, <1>2 DEF Spans
<1>7. Spans(th, n, s, a, To(fs[k]))
  <2>1. \A i \in 1..Len(s) : OfFlight(th, n, s[i].msg)
    BY <1>2, <1>3, <1>6
  <2>2. From(s[1]) = a /\ To(s[Len(s)]) = To(fs[k])
    BY <1>2, <1>3, <1>6
  <2>3. \A i \in 1..(Len(s) - 1) : To(s[i]) = From(s[i + 1])
    BY <1>2, <1>3, <1>6
  <2>4. Len(s) <= 3
    BY <1>2, <1>3
  <2> QED
    BY <2>1, <2>2, <2>3, <2>4, <1>5 DEF Spans
<1>8. Spans(th, n, t, To(fs[k]), c)
  <2>1. \A i \in 1..Len(t) : OfFlight(th, n, t[i].msg)
    BY <1>2, <1>4, <1>6
  <2>2. CASE t = <<>>
    <3>1. To(fs[k]) = c
      BY <2>2, <1>5, <1>6
    <3>2. Len(t) <= 3 /\ \A i \in 1..(Len(t) - 1) : To(t[i]) = From(t[i + 1])
      BY <2>2, <1>2, <1>4, <1>5
    <3> QED
      BY <2>1, <2>2, <3>1, <3>2 DEF Spans
  <2>3. CASE t # <<>>
    <3>1. k < p
      BY <2>3, <1>2, <1>5
    <3>2. t[1] = fs[k + 1] /\ t[Len(t)] = fs[p]
      <4>1. 1 \in 1..(p - k) /\ p - k \in 1..(p - k) /\ k + (p - k) = p
        BY <1>2, <3>1
      <4> QED
        BY <4>1, <1>4
    <3>3. To(fs[k]) = From(fs[k + 1])
      BY <1>2, <1>6, <3>1
    <3>4. \A i \in 1..(Len(t) - 1) : To(t[i]) = From(t[i + 1])
      <4> TAKE i \in 1..(Len(t) - 1)
      <4>1. /\ i \in 1..(p - k) /\ i + 1 \in 1..(p - k)
            /\ k + i \in 1..(p - 1) /\ k + (i + 1) = (k + i) + 1
        BY <1>2, <1>4
      <4> QED
        BY <4>1, <1>4, <1>6
    <3>5. Len(t) <= 3
      BY <1>2, <1>4
    <3> QED
      BY <2>1, <2>3, <3>2, <3>3, <3>4, <3>5, <1>6 DEF Spans
  <2> QED
    BY <2>2, <2>3
<1>9. Len(t) = Len(fs) - k
  BY <1>1, <1>4
<1> QED
  BY <1>3, <1>4, <1>7, <1>8, <1>9 DEF s, t

LEMMA SpansTail ==
    ASSUME NEW th, NEW n, NEW fs \in Seq(Fragment), NEW a, NEW b,
           Spans(th, n, fs, a, b), fs # <<>>
    PROVE  /\ Tail(fs) \in Seq(Fragment) /\ Len(Tail(fs)) = Len(fs) - 1
           /\ \A i \in 1..(Len(fs) - 1) : Tail(fs)[i] = fs[i + 1]
           /\ Spans(th, n, Tail(fs), To(fs[1]), b)
<1> DEFINE A == Tail(fs)
           B == SubSeq(fs, 2, Len(fs))
<1>1. PICK p \in Nat : p = Len(fs)
  BY Elements
<1>2. p # 0
  BY <1>1, Elements
<1>3. /\ A \in Seq(Fragment) /\ Len(A) = p - 1
      /\ \A i \in 1..(p - 1) : A[i] = fs[i + 1]
  BY <1>1, HeadTailProperties
<1>4. /\ B \in Seq(Fragment) /\ Len(B) = p - 1 /\ Spans(th, n, B, To(fs[1]), b)
  <2>1. 1 \in 1..Len(fs) /\ 1 + 1 = 2
    BY <1>1, <1>2
  <2> QED
    BY <2>1, <1>1, SpansSplit
<1>5. \A i \in 1..(p - 1) : B[i] = fs[2 + i - 1]
  <2>1. 2 \in 1..(Len(fs) + 1) /\ Len(fs) \in (2 - 1)..Len(fs)
    BY <1>1, <1>2
  <2> QED
    BY <2>1, <1>4, SubSeqProperties
<1>6. \A i \in 1..(p - 1) : A[i] = B[i]
  BY <1>3, <1>5
<1> HIDE DEF A, B
<1>7. A = B
  BY <1>3, <1>4, <1>6, SeqEqual
<1> QED
  BY <1>1, <1>3, <1>4, <1>7 DEF A

\* The first message of a buffer that holds it whole is the next of the flight, and the
\* fragments behind it are those of the messages that follow.
LEMMA SpansFirst ==
    ASSUME NEW th, NEW n, NEW fs \in Seq(Fragment), NEW q \in Nat, NEW b \in 0..8,
           Spans(th, n, fs, 2 * q, b), Complete(fs)
    PROVE  /\ OfFlight(th, n, First(fs)) /\ Place(First(fs)) = q + 1 /\ q \in 0..3
           /\ Rest(fs) \in Seq(Fragment) /\ Spans(th, n, Rest(fs), 2 * (q + 1), b)
<1>1. PICK p \in Nat : p = Len(fs)
  BY Elements
<1>2. p \in 1..3 /\ fs # <<>>
  BY <1>1, Elements DEF Complete, Spans
<1>3. /\ \A i \in 1..p : OfFlight(th, n, fs[i].msg) /\ fs[i] \in Fragment
      /\ From(fs[1]) = 2 * q
      /\ \A i \in 1..(p - 1) : To(fs[i]) = From(fs[i + 1])
  BY <1>1, <1>2, Elements DEF Spans
<1>4. fs[1] \in Fragment
  BY <1>2, <1>3
<1>5. PICK x \in 1..4 : x = Place(fs[1].msg)
  BY <1>4, Halves
<1>6. /\ fs[1].part = "whole" => 2 * q = 2 * x - 2 /\ To(fs[1]) = 2 * x
      /\ fs[1].part = "head"  => 2 * q = 2 * x - 2 /\ To(fs[1]) = 2 * x - 1
      /\ fs[1].part = "tail"  => 2 * q = 2 * x - 1 /\ To(fs[1]) = 2 * x
      /\ fs[1].part \in {"whole", "head", "tail"}
  BY <1>3, <1>4, <1>5, Halves
<1>7. fs[1].part # "tail" /\ x = q + 1 /\ q \in 0..3
  <2>1. 2 * q # 2 * x - 1
    OBVIOUS
  <2> QED
    BY <1>6, <2>1
<1>8. OfFlight(th, n, First(fs)) /\ Place(First(fs)) = q + 1
  BY <1>2, <1>3, <1>5, <1>7 DEF First
<1>9. /\ Tail(fs) \in Seq(Fragment) /\ Len(Tail(fs)) = p - 1
      /\ \A i \in 1..(p - 1) : Tail(fs)[i] = fs[i + 1]
      /\ Spans(th, n, Tail(fs), To(fs[1]), b)
  BY <1>1, <1>2, SpansTail
<1>10. CASE fs[1].part = "whole"
  <2>1. To(fs[1]) = 2 * (q + 1)
    BY <1>6, <1>7, <1>10
  <2> QED
    BY <2>1, <1>7, <1>8, <1>9, <1>10 DEF Rest
<1>11. CASE fs[1].part = "head"
  <2>1. 2 \in 1..p /\ 1 \in 1..(p - 1)
    BY <1>1, <1>2, <1>11 DEF Complete
  <2>2. From(fs[2]) = 2 * x - 1 /\ fs[2] \in Fragment
    BY <2>1, <1>3, <1>6, <1>11
  <2>3. PICK y \in 1..4 : y = Place(fs[2].msg)
    BY <2>2, Halves
  <2>4. /\ fs[2].part = "whole" => 2 * x - 1 = 2 * y - 2
        /\ fs[2].part = "head"  => 2 * x - 1 = 2 * y - 2
        /\ fs[2].part = "tail"  => 2 * x - 1 = 2 * y - 1 /\ To(fs[2]) = 2 * y
        /\ fs[2].part \in {"whole", "head", "tail"}
    BY <2>2, <2>3, Halves
  <2>5. 2 * x - 1 # 2 * y - 2
    OBVIOUS
  <2>6. To(fs[2]) = 2 * (q + 1)
    BY <2>4, <2>5, <1>7
  <2>7. Tail(fs) # <<>> /\ Tail(fs)[1] = fs[2]
    <3>1. 1 + 1 = 2 /\ 1 \in 1..(p - 1) /\ p - 1 # 0
      BY <2>1
    <3>2. Tail(fs)[1] = fs[1 + 1]
      BY <1>9, <3>1
    <3>3. Tail(fs) = <<>> <=> Len(Tail(fs)) = 0
      BY <1>9, Elements
    <3> QED
      BY <1>9, <3>1, <3>2, <3>3
  <2>8. /\ Tail(Tail(fs)) \in Seq(Fragment)
        /\ Spans(th, n, Tail(Tail(fs)), To(fs[2]), b)
    BY <2>7, <1>9, SpansTail
  <2> QED
    BY <2>6, <2>8, <1>7, <1>8, <1>11 DEF Rest
<1> QED
  BY <1>6, <1>7, <1>10, <1>11

\* A buffer without a whole message holds half a message at most, and leaves room for two.
LEMMA SpansIncomplete ==
    ASSUME NEW th, NEW n, NEW fs \in Seq(Fragment), NEW q \in 0..3, NEW b \in 0..8,
           Spans(th, n, fs, 2 * q, b), ~Complete(fs)
    PROVE  Len(fs) <= 1 /\ b <= 2 * q + 1 /\ b < 8
<1>1. PICK p \in Nat : p = Len(fs)
  BY Elements
<1>2. p <= 1
  BY <1>1, Elements DEF Complete
<1>3. CASE p = 0
  <2>1. fs = <<>>
    BY <1>1, <1>3, Elements
  <2>2. 2 * q = b
    BY <2>1 DEF Spans
  <2> QED
    BY <2>2, <1>1, <1>3
<1>4. CASE p = 1
  <2>0. Len(fs) # 0 /\ 1 \in 1..Len(fs)
    BY <1>1, <1>4
  <2>1. fs # <<>> /\ fs[1] \in Fragment
    BY <2>0, Elements
  <2>5. From(fs[1]) = 2 * q /\ To(fs[1]) = b /\ fs[1].part # "whole"
    BY <2>1, <1>1, <1>4 DEF Spans, Complete
  <2>2. PICK x \in 1..4 : x = Place(fs[1].msg)
    BY <2>1, Halves
  <2>3. /\ fs[1].part = "head" => 2 * q = 2 * x - 2 /\ b = 2 * x - 1
        /\ fs[1].part = "tail" => 2 * q = 2 * x - 1
        /\ fs[1].part \in {"head", "tail"}
    BY <2>1, <2>2, <2>5, Halves
  <2>4. 2 * q # 2 * x - 1
    OBVIOUS
  <2> QED
    BY <2>3, <2>4, <1>1, <1>4
<1> QED
  BY <1>2, <1>3, <1>4

\* The flight is hashed at least up to the last fragment.
LEMMA SpansEnd ==
    ASSUME NEW th \in Seq(Entry), NEW n \in Nat, NEW fs \in Seq(Fragment), NEW a, NEW b \in 0..8,
           Spans(th, n, fs, a, b), fs # <<>>
    PROVE  b <= 2 * (Len(th) - n) /\ (b = 8 => n + 4 <= Len(th))
<1>1. PICK p \in Nat : p = Len(fs)
  BY Elements
<1>2. p \in 1..p
  BY <1>1, Elements
<1>3. fs[p] \in Fragment /\ To(fs[p]) = b /\ OfFlight(th, n, fs[p].msg)
  <2>1. fs[p] \in Fragment
    BY <1>1, <1>2, Elements
  <2> QED
    BY <2>1, <1>1, <1>2 DEF Spans
<1>4. PICK x \in 1..4 : x = Place(fs[p].msg)
  BY <1>3, Halves
<1>5. b = 2 * x \/ b = 2 * x - 1
  BY <1>3, <1>4, Halves
<1>6. n + x <= Len(th)
  BY <1>3, <1>4 DEF OfFlight
<1>7. Len(th) \in Nat
  BY LenProperties
<1> QED
  BY <1>5, <1>6, <1>7

LEMMA OfFlightGrows ==
    ASSUME NEW th \in Seq(Entry), NEW e \in Entry, NEW n \in 1..Len(th), NEW m,
           OfFlight(th, n, m)
    PROVE  OfFlight(Append(th, e), n, m)
<1>1. PICK x \in 1..4 : x = Place(m)
  BY DEF Place
<1>2. PICK k \in Nat : k = Len(th)
  BY LenProperties
<1>3. n + x <= k /\ n \in Nat /\ n + x \in 1..k /\ n + x - 1 \in 0..k
  BY <1>1, <1>2 DEF OfFlight
<1>4. /\ Len(Append(th, e)) = k + 1 /\ Append(th, e)[n + x] = th[n + x]
      /\ SubSeq(Append(th, e), 1, n + x - 1) = SubSeq(th, 1, n + x - 1)
  BY <1>2, <1>3, BeginningsKept
<1>5. n + x <= Len(Append(th, e))
  BY <1>3, <1>4
<1> QED
  BY <1>1, <1>4, <1>5 DEF OfFlight

LEMMA SpansGrows ==
    ASSUME NEW th \in Seq(Entry), NEW e \in Entry, NEW n \in 1..Len(th), NEW fs, NEW a, NEW b,
           Spans(th, n, fs, a, b)
    PROVE  Spans(Append(th, e), n, fs, a, b)
  BY OfFlightGrows DEF Spans

LEMMA NamedBeginningsGrow ==
    ASSUME NEW th \in Seq(Entry), NEW e \in Entry, NEW n \in 1..Len(th)
    PROVE  /\ ThroughHello(Append(th, e), n) = ThroughHello(th, n)
           /\ ServerHelloOf(Append(th, e), n) = ServerHelloOf(th, n)
           /\ n + 4 <= Len(th) =>
                /\ ThroughFlight(Append(th, e), n) = ThroughFlight(th, n)
                /\ WithClientFinished(Append(th, e), n) = WithClientFinished(th, n)
<1>1. n \in 0..Len(th) /\ Len(th) \in Nat /\ (n + 4 <= Len(th) => n + 4 \in 0..Len(th))
  BY LenProperties
<1>2. SubSeq(Append(th, e), 1, n) = SubSeq(th, 1, n) /\ Append(th, e)[n] = th[n]
  BY <1>1, BeginningsKept
<1>3. n + 4 <= Len(th) => SubSeq(Append(th, e), 1, n + 4) = SubSeq(th, 1, n + 4)
  BY <1>1, BeginningsKept
<1> QED
  BY <1>2, <1>3 DEF ThroughHello, ThroughFlight, ServerHelloOf, WithClientFinished

LEMMA CarriesGrows ==
    ASSUME NEW th \in Seq(Entry), NEW e \in Entry, NEW n \in 1..Len(th), NEW r,
           NEW a \in Stage, NEW b \in Stage, Carries(th, n, r, a, b)
    PROVE  Carries(Append(th, e), n, r, a, b)
<1>1. CASE CarriesHello(th, n, r, a, b)
  BY <1>1, NamedBeginningsGrow DEF Carries, CarriesHello
<1>2. CASE CarriesFlight(th, n, r, a, b)
  <2>1. PICK fs \in Seq(Fragment) : /\ Len(fs) \in 1..2 /\ Spans(th, n, fs, a.pos, b.pos)
                                    /\ r = ProtectedHandshake(a.key, fs)
    BY <1>2 DEF CarriesFlight
  <2>2. Spans(Append(th, e), n, fs, a.pos, b.pos)
    BY <2>1, SpansGrows
  <2>3. b.pos = 8 => ThroughFlight(Append(th, e), n) = ThroughFlight(th, n)
    <3>1. n \in Nat /\ fs # <<>> /\ b.pos \in 0..8
      BY <2>1, SomeElements DEF Stage
    <3>2. b.pos = 8 => n + 4 <= Len(th)
      BY <2>1, <3>1, SpansEnd
    <3> QED
      BY <3>2, NamedBeginningsGrow
  <2>4. CarriesFlight(Append(th, e), n, r, a, b)
    BY <1>2, <2>1, <2>2, <2>3 DEF CarriesFlight
  <2> QED
    BY <2>4 DEF Carries
<1> QED
  BY <1>1, <1>2 DEF Carries

LEMMA SendsGrows ==
    ASSUME NEW th \in Seq(Entry), NEW e \in Entry, NEW n \in 1..Len(th), NEW r, NEW a, NEW b,
           Sends(th, n, r, a, b)
    PROVE  Sends(Append(th, e), n, r, a, b)
<1>1. CASE SendsFinished(th, n, r, a, b)
  <2>1. n + 4 <= Len(th) /\ Len(th) \in Nat /\ Len(Append(th, e)) = Len(th) + 1
    BY <1>1, BeginningsKept, LenProperties DEF SendsFinished
  <2>2. n + 4 <= Len(Append(th, e))
    BY <2>1
  <2> QED
    BY <1>1, <2>1, <2>2, NamedBeginningsGrow DEF Sends, SendsFinished
<1> QED
  BY <1>1 DEF Sends

-----------------------------------------------------------------------------
(* Lemmas about data in order *)

LEMMA RunIs ==
    ASSUME NEW a \in Nat, NEW n \in Nat
    PROVE  /\ Run(a, n) \in Seq(Nat) /\ Len(Run(a, n)) = n
           /\ \A i \in 1..n : Run(a, n)[i] = a + i
           /\ n = 0 => Run(a, n) = <<>>
<1>1. \A i \in 1..n : a + i \in Nat
  OBVIOUS
<1>2. Run(a, n) \in Seq(Nat) /\ Len(Run(a, n)) = n /\ \A i \in 1..n : Run(a, n)[i] = a + i
  BY <1>1 DEF Run
<1>3. n = 0 => Run(a, n) = <<>>
  BY <1>2, EmptySeq
<1> QED
  BY <1>2, <1>3

LEMMA IsRun ==
    ASSUME NEW s \in Seq(Nat), NEW a \in Nat, NEW n \in Nat, Len(s) = n,
           \A i \in 1..n : s[i] = a + i
    PROVE  s = Run(a, n)
<1> DEFINE t == Run(a, n)
<1>1. t \in Seq(Nat) /\ Len(t) = n /\ \A i \in 1..n : t[i] = a + i
  BY RunIs
<1> HIDE DEF t
<1>2. \A i \in 1..n : s[i] = t[i]
  BY <1>1
<1>3. s = t
  BY <1>1, <1>2, SeqEqual
<1> QED
  BY <1>3 DEF t

LEMMA OneRun ==
    ASSUME NEW a \in Nat
    PROVE  <<a + 1>> = Run(a, 1)
<1> DEFINE s == <<a + 1>>
<1>1. s \in Seq(Nat) /\ Len(s) = 1 /\ s[1] = a + 1
  OBVIOUS
<1> HIDE DEF s
<1>2. \A i \in 1..1 : s[i] = a + i
  BY <1>1
<1>3. s = Run(a, 1)
  BY <1>1, <1>2, IsRun
<1> QED
  BY <1>3 DEF s

LEMMA RunsJoin ==
    ASSUME NEW a \in Nat, NEW m \in Nat, NEW n \in Nat
    PROVE  Run(a, m) \o Run(a + m, n) = Run(a, m + n)
<1> DEFINE f == Run(a, m)
           g == Run(a + m, n)
           s == f \o g
<1>1. a + m \in Nat /\ m + n \in Nat
  OBVIOUS
<1>2. /\ f \in Seq(Nat) /\ Len(f) = m
      /\ g \in Seq(Nat) /\ Len(g) = n
      /\ \A i \in 1..m : f[i] = a + i
      /\ \A i \in 1..n : g[i] = (a + m) + i
  BY <1>1, RunIs
<1> HIDE DEF f, g
<1>3. /\ s \in Seq(Nat) /\ Len(s) = m + n
      /\ \A i \in 1..m : s[i] = f[i]
      /\ \A i \in (m + 1)..(m + n) : s[i] = g[i - m]
  <2>1. /\ s \in Seq(Nat) /\ Len(s) = Len(f) + Len(g)
        /\ \A i \in 1 .. Len(f) + Len(g) : s[i] = IF i <= Len(f) THEN f[i] ELSE g[i - Len(f)]
    BY <1>2, ConcatProperties
  <2>2. /\ s \in Seq(Nat) /\ Len(s) = m + n
        /\ \A i \in 1 .. m + n : s[i] = IF i <= m THEN f[i] ELSE g[i - m]
    BY <1>2, <2>1
  <2>3. /\ \A i \in 1..m : i \in 1 .. m + n /\ i <= m
        /\ \A i \in (m + 1)..(m + n) : i \in 1 .. m + n /\ ~(i <= m)
    OBVIOUS
  <2> HIDE DEF s
  <2> QED
    BY <2>2, <2>3
<1> HIDE DEF s
<1>4. \A i \in 1..(m + n) : s[i] = a + i
  <2> TAKE i \in 1..(m + n)
  <2>1. CASE i \in 1..m
    BY <2>1, <1>2, <1>3
  <2>2. CASE i \in (m + 1)..(m + n)
    <3>1. i - m \in 1..n /\ (a + m) + (i - m) = a + i
      BY <2>2
    <3>2. s[i] = g[i - m]
      BY <2>2, <1>3
    <3>3. g[i - m] = (a + m) + (i - m)
      BY <3>1, <1>2
    <3> QED
      BY <3>1, <3>2, <3>3
  <2> QED
    BY <2>1, <2>2
<1>5. s = Run(a, m + n)
  BY <1>1, <1>3, <1>4, IsRun
<1> QED
  BY <1>5 DEF s, f, g

LEMMA RunSplits ==
    ASSUME NEW a \in Nat, NEW m \in Nat, NEW n \in 0..m
    PROVE  /\ SubSeq(Run(a, m), 1, n) = Run(a, n)
           /\ SubSeq(Run(a, m), n + 1, m) = Run(a + n, m - n)
<1> DEFINE s == SubSeq(Run(a, m), 1, n)
           t == SubSeq(Run(a, m), n + 1, m)
<1>1. a + n \in Nat /\ m - n \in Nat /\ n \in Nat
  OBVIOUS
<1>2. /\ Run(a, m) \in Seq(Nat) /\ Len(Run(a, m)) = m
      /\ \A i \in 1..m : Run(a, m)[i] = a + i
  BY RunIs
<1>3. s \in Seq(Nat) /\ Len(s) = n /\ \A i \in 1..n : s[i] = a + i
  <2>1. 1 \in 1..(m + 1) /\ n \in (1 - 1)..m
    OBVIOUS
  <2>2. s \in Seq(Nat) /\ Len(s) = IF 1 <= n THEN n - 1 + 1 ELSE 0
    BY <1>2, <2>1, SubSeqProperties
  <2>3. Len(s) = n
    BY <2>2
  <2>4. \A i \in 1..n : s[i] = Run(a, m)[1 + i - 1]
    BY <1>2, <2>1, <2>3, SubSeqProperties
  <2>5. \A i \in 1..n : 1 + i - 1 = i /\ i \in 1..m
    OBVIOUS
  <2> QED
    BY <1>2, <2>2, <2>3, <2>4, <2>5
<1>4. t \in Seq(Nat) /\ Len(t) = m - n /\ \A i \in 1..(m - n) : t[i] = (a + n) + i
  <2>1. n + 1 \in 1..(m + 1) /\ m \in ((n + 1) - 1)..m
    OBVIOUS
  <2>2. t \in Seq(Nat) /\ Len(t) = IF n + 1 <= m THEN m - (n + 1) + 1 ELSE 0
    BY <1>2, <2>1, SubSeqProperties
  <2>3. Len(t) = m - n
    BY <2>2
  <2>4. \A i \in 1..(m - n) : t[i] = Run(a, m)[(n + 1) + i - 1]
    BY <1>2, <2>1, <2>3, SubSeqProperties
  <2>5. \A i \in 1..(m - n) : (n + 1) + i - 1 \in 1..m /\ a + ((n + 1) + i - 1) = (a + n) + i
    OBVIOUS
  <2> QED
    BY <1>2, <2>2, <2>3, <2>4, <2>5
<1> HIDE DEF s, t
<1>5. s = Run(a, n) /\ t = Run(a + n, m - n)
  BY <1>1, <1>3, <1>4, IsRun
<1> QED
  BY <1>5 DEF s, t

-----------------------------------------------------------------------------
(* The client's own invariants *)

LEMMA SessionTypes ==
    ASSUME TypeOK, Lifecycle, toClient \in Seq(Record), [SessionNext]_sessionVars
    PROVE  TypeOK' /\ Lifecycle'
<1>1. CASE UNCHANGED vars
  <2>1. TypeOK'
    BY <1>1, StutterKeepsTypes
  <2>2. Lifecycle'
    BY <1>1 DEF Lifecycle, SecretsWiped, CallsNest, Live, vars, ownVars
  <2> QED
    BY <2>1, <2>2
<1>2. CASE ClientCall \/ ClientRecv
  <2>1. AppCall
    BY <1>2 DEF ClientCall, ClientRecv, AppCall
  <2>2. TypeOK'
    <3>1. CASE \E g \in Groups : Connect(g)
      BY <3>1, ConnectKeepsTypes
    <3>2. CASE \E n \in 0..2 : RecvPending(n) \/ RecvStart(n) \/ Send(n)
      BY <3>2, DataCallKeepsTypes
    <3>3. CASE \/ \E request, ok \in BOOLEAN : KeyUpdate(request, ok)
               \/ \E ok \in BOOLEAN : Close(ok)
               \/ Reset
      BY <3>3, ControlCallKeepsTypes
    <3>4. \A n \in 1..2 : n \in 0..2
      OBVIOUS
    <3> QED
      BY <1>2, <3>1, <3>2, <3>3, <3>4 DEF ClientCall, ClientRecv
  <2> QED
    BY <2>1, <2>2, CallStepsKeepLifecycle
<1>3. CASE ClientLocalStep
  <2>1. LocalStep
    BY <1>3 DEF ClientLocalStep, LocalStep
  <2>2. Lifecycle'
    BY <2>1, LocalStepsKeepLifecycle
  <2>3. CASE \/ HelloRejected \/ ServerHello \/ FlightRejected
             \/ EncryptedExtensions \/ Certificate \/ CertificateVerify
             \/ \E ok \in BOOLEAN : HelloRetry(ok) \/ Finished(ok)
    BY <2>2, <2>3, HandshakeStepKeepsTypes
  <2>4. CASE \/ PostDone \/ NewSessionTicket \/ PostRejected
             \/ PeerKeyUpdate \/ PeerKeyUpdateRequested \/ PeerKeyUpdateFails
    BY <2>2, <2>4, PostStepKeepsTypes
  <2>5. CASE \E ok \in BOOLEAN : SendChunk(ok)
    BY <2>2, <2>5, DataCallKeepsTypes
  <2>6. CASE SendDone
    BY <2>2, <2>6, RefusedKeepsTypes
  <2> QED
    BY <1>3, <2>3, <2>4, <2>5, <2>6 DEF ClientLocalStep
<1>4. CASE toClient # <<>> /\ Receive(Head(toClient))
  <2>1. Head(toClient) \in Record
    BY <1>4, HeadTailProperties
  <2>2. TypeOK'
    BY <1>4, <2>1, HelloRecordKeepsTypes, FlightRecordKeepsTypes, RecvRecordKeepsTypes DEF Receive
  <2>3. Lifecycle'
    BY <1>4, RecordsKeepLifecycle
  <2> QED
    BY <2>2, <2>3
<1>5. CASE ReadFails("IO")
  <2>1. TypeOK'
    BY <1>5, ReadFailsKeepsTypes
  <2>2. Lifecycle'
    BY <1>5, FailEnds DEF ReadFails
  <2> QED
    BY <2>1, <2>2
<1>6. ServerDuty => UNCHANGED vars
  BY DEF ServerDuty, ServerRetries, ServerSaysHello, Answer, ServerPrepares, ServerSends,
         ServerReadsFinished, ServerReads, ServerAnswers, Writes
<1>7. ServerWish => UNCHANGED vars
  BY DEF ServerWish, ServerData, ServerTicket, ServerUpdates, ServerCloses, Writes
<1>8. StreamBreaks \/ UNCHANGED sessionVars => UNCHANGED vars
  BY DEF StreamBreaks, sessionVars
<1> QED
  BY <1>1, <1>2, <1>3, <1>4, <1>5, <1>6, <1>7, <1>8
     DEF SessionNext, Calls, Runs, Reads, ReadsNothing

-----------------------------------------------------------------------------
(* What the client makes of an honest server's messages *)

LEMMA ServerHelloHandled ==
    ASSUME TypeOK, ServerHello, NEW th \in Seq(Entry), NEW n \in 1..Len(th), NEW v,
           th[n] = EntryOf(ServerHelloOf(th, n)), v.pos \in Nat,
           ClientAt(th, n, v)
    PROVE  ClientAt(th, n, v)'
<1>1. AwaitsHello(th, n, v) /\ buf # <<>>
  BY DEF ServerHello, AtHello, At, Complete, ClientAt, InFlight, IsConnected
<1>2. buf = <<Whole(ServerHelloOf(th, n))>> /\ v.key = KeyOver("server_hs", ThroughHello(th, n))
  BY <1>1 DEF AwaitsHello
<1>3. First(buf) = ServerHelloOf(th, n)
  BY <1>2 DEF First, Whole
<1>4. Append(transcript, EntryOf(First(buf))) = ThroughHello(th, n)
  <2>1. n - 1 \in 0..Len(th) /\ n - 1 < Len(th) /\ (n - 1) + 1 = n
    BY LenProperties
  <2>2. Append(SubSeq(th, 1, n - 1), th[n]) = SubSeq(th, 1, n)
    BY <2>1, BeginningIs
  <2> QED
    BY <1>1, <1>3, <2>2 DEF AwaitsHello, ThroughHello
<1>5. /\ transcript' = ThroughHello(th, n) /\ buf' = <<>>
      /\ keys' = [keys EXCEPT !["client_hs"] = Derive("client_hs", ThroughHello(th, n)),
                              !["server_hs"] = Derive("server_hs", ThroughHello(th, n))]
      /\ call' = [call EXCEPT !.loop = "flight"]
      /\ UNCHANGED <<share, alpn, got, pending>>
  BY <1>4 DEF ServerHello, GoTo, noteVars, dataVars
<1>6. /\ keys'["client_hs"] = KeyOver("client_hs", ThroughHello(th, n))
      /\ keys'["server_hs"] = KeyOver("server_hs", ThroughHello(th, n))
      /\ keys'["server_hs"].label = "server_hs"
  BY <1>5 DEF TypeOK, Slots, Derive, KeyOver
<1>7. call'.loop = "flight"
  BY <1>5 DEF TypeOK, Call
<1>8. n + 0 = n /\ n + 0 <= Len(th) /\ 2 * 0 = 0
  BY LenProperties
<1>9. Spans(th, n, <<>>, 0, 0)
  BY DEF Spans
<1>10. InFlight(th, n, v)'
  <2>1. v.pos = 0 /\ v.pos # 8
    BY <1>1 DEF AwaitsHello
  <2>2. Checked(th, n, 0)'
    <3>1. Checked(th, n, 0)
      BY <1>1 DEF AwaitsHello
    <3>2. share' = share /\ alpn' = alpn
      BY <1>5
    <3> QED
      BY <3>1, <3>2 DEF Checked
  <2>3. /\ n + 0 <= Len(th) /\ transcript' = SubSeq(th, 1, n + 0)
        /\ Spans(th, n, buf', 2 * 0, v.pos)
    BY <1>5, <1>8, <1>9, <2>1 DEF ThroughHello
  <2>4. \E q \in 0..3 :
          /\ n + q <= Len(th) /\ transcript' = SubSeq(th, 1, n + q) /\ Checked(th, n, q)'
          /\ Spans(th, n, buf', 2 * q, v.pos)
    BY <2>2, <2>3
  <2> QED
    BY <1>2, <1>6, <1>7, <2>1, <2>4 DEF InFlight, At
<1> QED
  BY <1>5, <1>10 DEF ClientAt

LEMMA FlightMatches ==
    ASSUME NEW th, NEW n, NEW m, OfFlight(th, n, m)
    PROVE  /\ Place(m) = 1 <=> m.type = "encrypted_extensions"
           /\ Place(m) = 2 <=> m.type = "certificate"
           /\ Place(m) = 3 <=> m.type = "certificate_verify"
           /\ Place(m) = 4 <=> m.type = "finished"
           /\ m.type = "encrypted_extensions" => m.val \in {"none", "alpn"}
           /\ m.type \in {"certificate", "certificate_verify"} =>
                m.val = ServerChain /\ ServerChain \in Chains /\ ServerChain \in Trusted
           /\ m.type = "finished" => m.val = "server"
           /\ m.val # "malformed"
<1>1. /\ ServerAlpns \subseteq {"none", "alpn"} /\ ServerChain \in Trusted /\ ServerChain \in Chains
      /\ ServerChain # "malformed" /\ "malformed" \notin ServerAlpns
  BY SessionAssumption, ClientAssumption
<1>2. m.type \in FlightTypes /\ m.val \in FlightVals(m)
  BY DEF OfFlight
<1> QED
  BY <1>1, <1>2 DEF Place, FlightTypes, FlightVals

\* What the client is about to handle is the next message of the flight, in place.
LEMMA NextOfFlight ==
    ASSUME TypeOK, Lifecycle, At("flight"), Complete(buf),
           NEW th \in Seq(Entry), NEW n \in 1..Len(th), NEW v, v.pos \in 0..8, ClientAt(th, n, v)
    PROVE  \E q \in 0..3 :
             /\ transcript = SubSeq(th, 1, n + q) /\ Checked(th, n, q)
             /\ OfFlight(th, n, First(buf)) /\ Place(First(buf)) = q + 1
             /\ Rest(buf) \in Seq(Fragment) /\ Spans(th, n, Rest(buf), 2 * (q + 1), v.pos)
             /\ n + q + 1 <= Len(th)
             /\ Append(transcript, EntryOf(First(buf))) = SubSeq(th, 1, n + q + 1)
             /\ th[n + q + 1] = EntryOf(First(buf))
             /\ First(buf).over = IF q <= 1 THEN <<>> ELSE transcript
             /\ FlightError(First(buf)) = "OK"
<1>1. InFlight(th, n, v)
  BY DEF ClientAt, AwaitsHello, IsConnected, At, Lifecycle, CallsNest
<1>2. PICK q \in 0..3 : /\ n + q <= Len(th) /\ transcript = SubSeq(th, 1, n + q)
                        /\ Checked(th, n, q) /\ Spans(th, n, buf, 2 * q, v.pos)
  BY <1>1 DEF InFlight
<1> DEFINE m == First(buf)
<1>3. /\ OfFlight(th, n, m) /\ Place(m) = q + 1
      /\ Rest(buf) \in Seq(Fragment) /\ Spans(th, n, Rest(buf), 2 * (q + 1), v.pos)
  <2>1. buf \in Seq(Fragment) /\ q \in Nat
    BY DEF TypeOK
  <2> QED
    BY <1>2, <2>1, SpansFirst
<1>4. n + q + 1 <= Len(th) /\ th[n + q + 1] = EntryOf(m)
  <2>1. n + (q + 1) <= Len(th) /\ th[n + (q + 1)] = EntryOf(m)
    BY <1>3 DEF OfFlight
  <2>2. n + (q + 1) = n + q + 1
    OBVIOUS
  <2> QED
    BY <2>1, <2>2
<1>5. Append(transcript, EntryOf(m)) = SubSeq(th, 1, n + q + 1)
  <2>1. n + q \in 0..Len(th) /\ n + q < Len(th)
    BY <1>4, LenProperties
  <2> QED
    BY <1>2, <1>4, <2>1, BeginningIs
<1>6. m.over = IF q <= 1 THEN <<>> ELSE transcript
  <2>1. m.over = IF q + 1 <= 2 THEN <<>> ELSE SubSeq(th, 1, n + (q + 1) - 1)
    BY <1>3 DEF OfFlight
  <2>2. n + (q + 1) - 1 = n + q /\ (q + 1 <= 2 <=> q <= 1)
    OBVIOUS
  <2> QED
    BY <1>2, <2>1, <2>2
<1>7. FlightError(m) = "OK"
  <2> HIDE DEF m
  <2>1. /\ m.type \in FlightTypes /\ m.val # "malformed"
        /\ m.type = "certificate" => m.val \in Chains
        /\ m.type = "certificate_verify" => q = 2 /\ m.val = ServerChain /\ ServerChain \in Trusted
        /\ m.type = "finished" => q = 3 /\ m.val = "server"
    <3>1. m.type \in FlightTypes
      BY <1>3 DEF OfFlight
    <3> QED
      BY <3>1, <1>3, FlightMatches
  <2>2. WellFormed(m)
    BY <2>1 DEF WellFormed
  <2>3. m.type = "certificate_verify" => call.cert # "none" /\ Authenticates(m)
    <3>1. ASSUME m.type = "certificate_verify" PROVE call.cert = ServerChain /\ m.over = transcript
      BY <3>1, <2>1, <1>2, <1>6 DEF Checked
    <3>2. ServerChain \in Trusted => ServerChain # "none"
      BY ClientAssumption
    <3> QED
      BY <2>1, <3>1, <3>2 DEF Authenticates
  <2>4. m.type = "finished" => Verifies(m)
    BY <2>1, <1>6 DEF Verifies
  <2>5. m.type = "certificate" => m.val # "too_long"
    BY <2>1, ClientAssumption
  <2> QED
    BY <2>1, <2>2, <2>3, <2>4, <2>5 DEF FlightError, FlightTypes
<1> QED
  BY <1>2, <1>3, <1>4, <1>5, <1>6, <1>7

\* EncryptedExtensions, Certificate and CertificateVerify.
LEMMA FlightHandled ==
    ASSUME TypeOK, Lifecycle, EncryptedExtensions \/ Certificate \/ CertificateVerify,
           NEW th \in Seq(Entry), NEW n \in 1..Len(th), NEW v, v.pos \in 0..8, ClientAt(th, n, v)
    PROVE  ClientAt(th, n, v)'
<1>1. At("flight") /\ Complete(buf) /\ FlightGoesOn
  BY DEF EncryptedExtensions, Certificate, CertificateVerify, AtFlight
<1>2. PICK q \in 0..3 :
             /\ transcript = SubSeq(th, 1, n + q) /\ Checked(th, n, q)
             /\ OfFlight(th, n, First(buf)) /\ Place(First(buf)) = q + 1
             /\ Rest(buf) \in Seq(Fragment) /\ Spans(th, n, Rest(buf), 2 * (q + 1), v.pos)
             /\ n + q + 1 <= Len(th)
             /\ Append(transcript, EntryOf(First(buf))) = SubSeq(th, 1, n + q + 1)
             /\ th[n + q + 1] = EntryOf(First(buf))
  BY <1>1, NextOfFlight
<1>3. q \in 0..2 /\ q + 1 \in 0..3 /\ n + (q + 1) = n + q + 1
  <2>1. First(buf).type # "finished"
    BY DEF EncryptedExtensions, Certificate, CertificateVerify, AtFlight
  <2>2. q # 3
    BY <1>2, <2>1, FlightMatches
  <2> QED
    BY <2>2
<1>4. /\ transcript' = SubSeq(th, 1, n + (q + 1)) /\ buf' = Rest(buf)
      /\ UNCHANGED <<share, keys, got, pending>> /\ call'.loop = "flight"
  <2>1. /\ transcript' = SubSeq(th, 1, n + (q + 1)) /\ buf' = Rest(buf)
        /\ UNCHANGED <<share, keys, got, pending>>
    BY <1>1, <1>2, <1>3 DEF FlightGoesOn, Hashed, ownVars, dataVars
  <2>2. call'.loop = call.loop
    BY DEF EncryptedExtensions, Certificate, CertificateVerify, TypeOK, Call
  <2> QED
    BY <1>1, <2>1, <2>2 DEF At
<1>5. Checked(th, n, q + 1)'
  <2>1. q + 1 # 0 /\ share' = th[n].val
    BY <1>2, <1>4 DEF Checked
  <2>2. th[n + 1].type = "encrypted_extensions" /\ alpn' = th[n + 1].val
    <3>1. CASE EncryptedExtensions
      <4>1. q = 0 /\ First(buf).type = "encrypted_extensions" /\ First(buf).val \in {"none", "alpn"}
        BY <3>1, <1>2, FlightMatches DEF EncryptedExtensions, AtFlight
      <4>2. alpn = "none" /\ n + q + 1 = n + 1
        BY <4>1, <1>2 DEF Checked
      <4>3. alpn' = First(buf).val
        BY <3>1, <4>1, <4>2 DEF EncryptedExtensions
      <4> QED
        BY <4>1, <4>2, <4>3, <1>2 DEF EntryOf
    <3>2. CASE Certificate \/ CertificateVerify
      <4>1. First(buf).type # "encrypted_extensions" /\ alpn' = alpn
        BY <3>2 DEF Certificate, CertificateVerify, AtFlight
      <4>2. q # 0
        BY <4>1, <1>2, FlightMatches
      <4> QED
        BY <4>1, <4>2, <1>2 DEF Checked
    <3> QED
      BY <3>1, <3>2
  <2>3. q + 1 \in {2, 3} => call'.cert = ServerChain
    <3>1. CASE EncryptedExtensions
      <4>1. First(buf).type = "encrypted_extensions"
        BY <3>1 DEF EncryptedExtensions, AtFlight
      <4>2. q = 0
        BY <4>1, <1>2, FlightMatches
      <4> QED
        BY <4>2
    <3>2. CASE Certificate
      <4>1. First(buf).val = ServerChain
        BY <3>2, <1>2, FlightMatches DEF Certificate, AtFlight
      <4> QED
        BY <3>2, <4>1 DEF Certificate, TypeOK, Call
    <3>3. CASE CertificateVerify
      <4>1. First(buf).type = "certificate_verify" /\ call' = call
        BY <3>3 DEF CertificateVerify, AtFlight
      <4>2. q = 2
        BY <4>1, <1>2, FlightMatches
      <4> QED
        BY <4>1, <4>2, <1>2 DEF Checked
    <3> QED
      BY <3>1, <3>2, <3>3
  <2>4. q + 1 >= 3 => authentic' = ServerChain
    <3>1. ASSUME q + 1 >= 3 PROVE authentic' = ServerChain
      <4>1. q = 2
        BY <3>1, <1>3
      <4>2. First(buf).type = "certificate_verify"
        BY <4>1, <1>2, FlightMatches
      <4>3. CertificateVerify
        BY <4>2 DEF EncryptedExtensions, Certificate, AtFlight
      <4> QED
        BY <4>1, <4>3, <1>2 DEF CertificateVerify, Checked
    <3> QED
      BY <3>1
  <2> QED
    BY <2>1, <2>2, <2>3, <2>4 DEF Checked
<1>6. InFlight(th, n, v)
  BY <1>1 DEF ClientAt, AwaitsHello, IsConnected, At, Lifecycle, CallsNest
<1>7. InFlight(th, n, v)'
  <2>1. \E p \in 0..3 :
          /\ n + p <= Len(th) /\ transcript' = SubSeq(th, 1, n + p) /\ Checked(th, n, p)'
          /\ Spans(th, n, buf', 2 * p, v.pos)
    BY <1>2, <1>3, <1>4, <1>5
  <2> QED
    BY <1>4, <1>6, <2>1 DEF InFlight, At
<1> QED
  BY <1>4, <1>7 DEF ClientAt

\* What a step of the client that keeps the connection does to its stream of records: it
\* writes nothing, it writes data or a KeyUpdate, or it writes its Finished.
KeepsQuiet ==
    /\ Live /\ state' = state /\ conn' = conn /\ accepted' = accepted /\ out' = out
    /\ keys'["client_app"] = keys["client_app"]
WritesMore ==
    /\ state = "CONNECTED" /\ state' = state /\ conn' = conn
    /\ LET k == keys["client_app"] IN
       \/ /\ out' = Append(out, ProtectedData(k, <<accepted + 1>>))
          /\ accepted' = accepted + 1 /\ keys'["client_app"] = AfterRecord(k)
       \/ /\ \E request \in BOOLEAN :
                out' = Append(out, ProtectedHandshake(k, <<Whole(KeyUpdateMsg(request))>>))
          /\ accepted' = accepted /\ keys'["client_app"] = AfterUpdate(k)
SaysFinished(th, n) ==
    /\ state = "HANDSHAKING" /\ state' = "CONNECTED" /\ conn' = conn /\ accepted' = accepted
    /\ n + 4 <= Len(th)
    /\ out' = Append(out, ProtectedHandshake(KeyOver("client_hs", ThroughHello(th, n)),
                                             <<Whole(ClientFinished(ThroughFlight(th, n)))>>))
    /\ keys'["client_app"] = KeyOver("client_app", ThroughFlight(th, n))

\* A step that ends the connection, with close_notify if it is close() that does.
Dies ==
    /\ ~Live' /\ conn' = conn /\ accepted' = accepted /\ got' = got
    /\ pending' \in {pending, <<>>} /\ call'.loop = "none"
    /\ state' = "FAILED" => broken \/ state = "FAILED"
    /\ \/ out' = out
       \/ /\ state = "CONNECTED"
          /\ out' = Append(out, ProtectedAlert(keys["client_app"], "close_notify"))

\* Finished ends the flight, and the buffer holds nothing behind it.
LEMMA FinishedHandled ==
    ASSUME TypeOK, Lifecycle, Finished(TRUE), InOrder,
           NEW th \in Seq(Entry), NEW n \in 1..Len(th), NEW v, v.pos \in 0..8, ClientAt(th, n, v)
    PROVE  ClientAt(th, n, v)' /\ SaysFinished(th, n) /\ InOrder' /\ v.pos = 8
<1> DEFINE m == First(buf)
<1>1. At("flight") /\ Complete(buf) /\ m.type = "finished" /\ state = "HANDSHAKING"
  BY DEF Finished, AtFlight, At, Lifecycle, CallsNest
<1>2. InFlight(th, n, v)
  BY <1>1 DEF ClientAt, AwaitsHello, IsConnected, At
<1>3. PICK q \in 0..3 :
             /\ transcript = SubSeq(th, 1, n + q) /\ Checked(th, n, q)
             /\ OfFlight(th, n, m) /\ Place(m) = q + 1
             /\ Rest(buf) \in Seq(Fragment) /\ Spans(th, n, Rest(buf), 2 * (q + 1), v.pos)
             /\ n + q + 1 <= Len(th)
             /\ Append(transcript, EntryOf(m)) = SubSeq(th, 1, n + q + 1)
  BY <1>1, NextOfFlight
<1>4. q = 3
  <2>1. Place(m) = 4
    BY <1>1, <1>3, FlightMatches
  <2> QED
    BY <1>3, <2>1
<1>5. v.pos = 8 /\ Rest(buf) = <<>>
  <2>1. Spans(th, n, Rest(buf), 8, v.pos)
    BY <1>3, <1>4
  <2>2. /\ v.pos \in 8..8
        /\ Rest(buf) # <<>> => 8 < v.pos
    <3>1. PICK a \in 0..8, fs \in Seq(Fragment) : a = 8 /\ fs = Rest(buf)
      BY <1>3
    <3>2. Spans(th, n, fs, a, v.pos)
      BY <2>1, <3>1
    <3>3. v.pos \in a..8 /\ (fs # <<>> => a < v.pos)
      BY <3>2, SpansTypes
    <3> QED
      BY <3>1, <3>3
  <2> QED
    BY <2>2
<1>6. Append(transcript, EntryOf(m)) = ThroughFlight(th, n) /\ n + 4 <= Len(th)
  <2>1. n + q + 1 = n + 4
    BY <1>4
  <2> QED
    BY <1>3, <2>1 DEF ThroughFlight
<1> HIDE DEF m
<1>7. ThroughServerFinished(m) = ThroughFlight(th, n)
  BY <1>6 DEF ThroughServerFinished
<1>8. /\ buf' = <<>> /\ transcript' = WithClientFinished(th, n)
      /\ keys' = [keys EXCEPT !["client_app"] = Derive("client_app", ThroughFlight(th, n)),
                              !["server_app"] = Derive("server_app", ThroughFlight(th, n)),
                              !["client_hs"] = Used(@)]
      /\ out' = Append(out, ProtectedHandshake(keys["client_hs"],
                                               <<Whole(ClientFinished(ThroughFlight(th, n)))>>))
      /\ state' = "CONNECTED" /\ call' = NoCall
      /\ UNCHANGED <<share, conn, alpn, authentic, pending, got, accepted>>
  BY <1>5, <1>7 DEF Finished, m, WithClientFinished, noteVars, dataVars
<1>9. /\ keys'["client_app"] = KeyOver("client_app", ThroughFlight(th, n))
      /\ keys'["server_app"] = KeyOver("server_app", ThroughFlight(th, n))
  BY <1>8 DEF TypeOK, Slots, Derive, KeyOver
<1>10. Checked(th, n, 4)'
  <2>1. Checked(th, n, 3)
    BY <1>3, <1>4
  <2> QED
    BY <1>8, <2>1 DEF Checked
<1>11. IsConnected(th, n, v)'
  <2>1. v.key = KeyOver("server_app", ThroughFlight(th, n))
    BY <1>2, <1>5 DEF InFlight
  <2> QED
    BY <1>5, <1>6, <1>8, <1>9, <1>10, <2>1 DEF IsConnected
<1>12. ClientAt(th, n, v)'
  BY <1>8, <1>11 DEF ClientAt
<1>13. SaysFinished(th, n)
  <2>1. keys["client_hs"] = KeyOver("client_hs", ThroughHello(th, n))
    BY <1>2 DEF InFlight
  <2> QED
    BY <1>1, <1>6, <1>8, <1>9, <2>1 DEF SaysFinished
<1>14. InOrder'
  BY <1>8 DEF InOrder, NoCall
<1> QED
  BY <1>5, <1>12, <1>13, <1>14

\* The buffer of a connected client holds one message at most, which it accepts.
LEMMA PostedMessage ==
    ASSUME Lifecycle, At("post") \/ state = "CONNECTED", NEW th, NEW n, NEW v, ClientAt(th, n, v)
    PROVE  /\ state = "CONNECTED" /\ IsConnected(th, n, v)
           /\ \/ buf = <<>> /\ ~Complete(buf) /\ v.key = keys["server_app"]
              \/ /\ At("post") /\ Complete(buf) /\ Rest(buf) = <<>>
                 /\ First(buf).type = "new_session_ticket" /\ v.key = keys["server_app"]
              \/ /\ At("post") /\ Complete(buf) /\ Rest(buf) = <<>>
                 /\ First(buf).type = "key_update" /\ First(buf).val = "none"
                 /\ First(buf).n \in {0, 1} /\ v.key = AfterUpdate(keys["server_app"])
<1>1. state = "CONNECTED"
  BY DEF At, Lifecycle, CallsNest
<1>2. IsConnected(th, n, v)
  BY <1>1 DEF ClientAt, AwaitsHello, InFlight, At, Lifecycle, CallsNest
<1>3. CASE buf = <<>> /\ v.key = keys["server_app"]
  BY <1>1, <1>2, <1>3 DEF Complete
<1>4. ASSUME NEW m, buf = <<Whole(m)>>
      PROVE  Complete(buf) /\ Rest(buf) = <<>> /\ First(buf) = m
  BY <1>4 DEF Complete, Rest, First, Whole
<1>5. CASE /\ At("post") /\ buf = <<Whole(Msg("new_session_ticket", "none", 0))>>
           /\ v.key = keys["server_app"]
  <2>1. /\ Complete(buf) /\ Rest(buf) = <<>>
        /\ First(buf) = Msg("new_session_ticket", "none", 0)
    BY <1>4, <1>5
  <2>2. First(buf).type = "new_session_ticket"
    BY <2>1 DEF Msg
  <2> QED
    BY <1>1, <1>2, <1>5, <2>1, <2>2
<1>6. CASE /\ At("post") /\ \E request \in BOOLEAN : buf = <<Whole(KeyUpdateMsg(request))>>
           /\ v.key = AfterUpdate(keys["server_app"])
  <2>1. PICK request \in BOOLEAN : buf = <<Whole(KeyUpdateMsg(request))>>
    BY <1>6
  <2>2. Complete(buf) /\ Rest(buf) = <<>> /\ First(buf) = KeyUpdateMsg(request)
    BY <1>4, <2>1
  <2>3. /\ First(buf).type = "key_update" /\ First(buf).val = "none"
        /\ First(buf).n \in {0, 1}
    BY <2>2 DEF KeyUpdateMsg, Msg
  <2> QED
    BY <1>1, <1>2, <1>6, <2>2, <2>3
<1> QED
  BY <1>2, <1>3, <1>5, <1>6 DEF IsConnected

\* A connected client stays at its stage as long as it does not touch what it has checked.
LEMMA StaysConnected ==
    ASSUME NEW th, NEW n, NEW v, IsConnected(th, n, v), ClientAt(th, n, v),
           UNCHANGED <<state, transcript, share, alpn, authentic>>,
           Len(got') + Len(pending') = Len(got) + Len(pending),
           buf' = <<>>, v.key = keys'["server_app"]
    PROVE  ClientAt(th, n, v)'
<1>1. Checked(th, n, 4)'
  <2>1. Checked(th, n, 4)
    BY DEF IsConnected
  <2> QED
    BY <2>1 DEF Checked
<1>2. IsConnected(th, n, v)'
  BY <1>1 DEF IsConnected
<1> QED
  BY <1>2 DEF ClientAt

LEMMA PostHandled ==
    ASSUME TypeOK, Lifecycle, InOrder,
           \/ PostDone \/ NewSessionTicket \/ PeerKeyUpdate \/ PeerKeyUpdateRequested,
           NEW th, NEW n, NEW v, ClientAt(th, n, v)
    PROVE  ClientAt(th, n, v)' /\ InOrder' /\ (KeepsQuiet \/ WritesMore)
<1>1. At("post") /\ state = "CONNECTED" /\ IsConnected(th, n, v)
  BY PostedMessage DEF PostDone, NewSessionTicket, PeerKeyUpdate, PeerKeyUpdateRequested, AtPost,
     AtKeyUpdate
<1>2. /\ UNCHANGED <<state, conn, transcript, share, alpn, authentic, got, pending, accepted>>
      /\ call'.loop \in {"recv", "post"}
  BY <1>1 DEF PostDone, NewSessionTicket, PeerKeyUpdate, PeerKeyUpdateRequested, PostGoesOn, GoTo,
     At, TypeOK, Call, ownVars, noteVars, handshakeVars, dataVars
<1>3. InOrder'
  BY <1>1, <1>2 DEF InOrder, At
<1>4. /\ buf' = <<>> /\ v.key = keys'["server_app"]
      /\ KeepsQuiet \/ WritesMore
  <2>1. CASE PostDone
    <3>1. buf = <<>> /\ v.key = keys["server_app"]
      BY <2>1, PostedMessage DEF PostDone
    <3>2. buf' = buf /\ keys' = keys /\ out' = out
      BY <2>1 DEF PostDone, handshakeVars, ownVars
    <3> QED
      BY <1>1, <1>2, <3>1, <3>2 DEF KeepsQuiet, Live
  <2>2. CASE NewSessionTicket
    <3>1. Complete(buf) /\ First(buf).type = "new_session_ticket"
      BY <2>2 DEF NewSessionTicket, AtPost
    <3>2. Rest(buf) = <<>> /\ v.key = keys["server_app"]
      BY <1>1, <3>1, PostedMessage
    <3>3. buf' = Rest(buf) /\ keys' = keys /\ out' = out
      BY <2>2 DEF NewSessionTicket, PostGoesOn
    <3> QED
      BY <1>1, <1>2, <3>2, <3>3 DEF KeepsQuiet, Live
  <2>3. CASE PeerKeyUpdate \/ PeerKeyUpdateRequested
    <3>1. Complete(buf) /\ First(buf).type = "key_update" /\ buf' = Rest(buf)
      BY <2>3 DEF PeerKeyUpdate, PeerKeyUpdateRequested, AtKeyUpdate, AtPost, PostGoesOn
    <3>2. Rest(buf) = <<>> /\ v.key = AfterUpdate(keys["server_app"])
      BY <1>1, <3>1, PostedMessage
    <3>3. keys'["server_app"] = AfterUpdate(keys["server_app"])
      BY <2>3 DEF PeerKeyUpdate, PeerKeyUpdateRequested, TypeOK, Slots, Updated, AfterUpdate
    <3>4. PeerKeyUpdate => KeepsQuiet
      BY <1>1, <1>2 DEF PeerKeyUpdate, KeepsQuiet, Live, TypeOK, Slots
    <3>5. PeerKeyUpdateRequested => WritesMore
      <4>1. ASSUME PeerKeyUpdateRequested
            PROVE  /\ keys'["client_app"] = AfterUpdate(keys["client_app"])
                   /\ out' = Append(out, ProtectedHandshake(keys["client_app"],
                                                            <<Whole(KeyUpdateMsg(FALSE))>>))
        BY <4>1 DEF PeerKeyUpdateRequested, TypeOK, Slots, Updated, AfterUpdate
      <4> QED
        BY <1>1, <1>2, <4>1 DEF WritesMore
    <3> QED
      BY <2>3, <3>1, <3>2, <3>3, <3>4, <3>5
  <2> QED
    BY <2>1, <2>2, <2>3
<1>5. ClientAt(th, n, v)'
  BY <1>1, <1>2, <1>4, StaysConnected
<1> QED
  BY <1>3, <1>4, <1>5

\* Data that come in order are handed over, and kept, in order.
LEMMA HandedOver ==
    ASSUME NEW a \in Nat, NEW m \in Nat, NEW w \in Nat, got = Run(0, a),
           Deliver(Run(a, m), Least(w, Len(Run(a, m))))
    PROVE  /\ got' = Run(0, Len(got')) /\ pending' = Run(Len(got'), Len(pending'))
           /\ Len(got') + Len(pending') = a + m
<1>1. PICK k \in 0..m : k = Least(w, m)
  BY DEF Least
<1>2. Len(Run(a, m)) = m
  BY RunIs
<1>3. got' = Run(0, a) \o SubSeq(Run(a, m), 1, k) /\ pending' = SubSeq(Run(a, m), k + 1, m)
  BY <1>1, <1>2 DEF Deliver
<1>4. k \in Nat /\ a + k \in Nat /\ m - k \in Nat /\ 0 + a = a /\ 0 \in Nat
  OBVIOUS
<1>5. SubSeq(Run(a, m), 1, k) = Run(a, k) /\ SubSeq(Run(a, m), k + 1, m) = Run(a + k, m - k)
  BY RunSplits
<1>6. got' = Run(0, a + k) /\ pending' = Run(a + k, m - k)
  <2>1. Run(0, a) \o Run(0 + a, k) = Run(0, a + k)
    BY <1>4, RunsJoin, ZenonT(40)
  <2> QED
    BY <1>3, <1>4, <1>5, <2>1
<1>7. Len(got') = a + k /\ Len(pending') = m - k
  <2>1. Len(Run(0, a + k)) = a + k /\ Len(Run(a + k, m - k)) = m - k
    BY <1>4, RunIs
  <2> QED
    BY <1>6, <2>1
<1>8. (a + k) + (m - k) = a + m
  BY <1>4
<1> QED
  BY <1>6, <1>7, <1>8

\* The calls of a connected client, and the chunks of send().
LEMMA CallHandled ==
    ASSUME TypeOK, Lifecycle, InOrder,
           \/ \E k \in 1..2 : RecvPending(k) \/ RecvStart(k) \/ Send(k)
           \/ \E request \in BOOLEAN : KeyUpdate(request, TRUE)
           \/ SendChunk(TRUE) \/ SendDone,
           NEW th, NEW n, NEW v, ClientAt(th, n, v)
    PROVE  ClientAt(th, n, v)' /\ InOrder' /\ (KeepsQuiet \/ WritesMore)
<1>1. state = "CONNECTED" /\ ~At("post")
  BY DEF RecvPending, RecvStart, Send, KeyUpdate, SendChunk, SendDone, At, Lifecycle, CallsNest
<1>2. /\ IsConnected(th, n, v) /\ buf = <<>> /\ v.key = keys["server_app"]
  BY <1>1, PostedMessage
<1>3. UNCHANGED <<state, conn, transcript, share, alpn, authentic, buf>>
  BY DEF RecvPending, RecvStart, Send, KeyUpdate, SendChunk, SendDone, Return, ownVars, noteVars,
         handshakeVars
<1>4. ASSUME UNCHANGED <<got, pending>>, call'.loop # "post",
             call'.loop = "recv" => pending = <<>>
      PROVE  InOrder' /\ Len(got') + Len(pending') = Len(got) + Len(pending)
  BY <1>1, <1>3, <1>4 DEF InOrder
<1>5. /\ v.key = keys'["server_app"] /\ (KeepsQuiet \/ WritesMore)
      /\ InOrder' /\ Len(got') + Len(pending') = Len(got) + Len(pending)
  <2>1. ASSUME NEW k \in 1..2, RecvPending(k)
        PROVE  /\ v.key = keys'["server_app"] /\ (KeepsQuiet \/ WritesMore)
               /\ InOrder' /\ Len(got') + Len(pending') = Len(got) + Len(pending)
    <3>1. UNCHANGED <<keys, accepted, out>> /\ call' = NoCall
      BY <2>1 DEF RecvPending, Return, ownVars, noteVars, handshakeVars
    <3>2. PICK a \in Nat, m \in Nat : a = Len(got) /\ m = Len(pending)
      BY LenProperties DEF TypeOK
    <3>3. got = Run(0, a) /\ pending = Run(a, m) /\ k \in Nat
      BY <3>2 DEF InOrder
    <3>4. Deliver(Run(a, m), Least(k, Len(Run(a, m))))
      BY <2>1, <3>3 DEF RecvPending
    <3>5. /\ got' = Run(0, Len(got')) /\ pending' = Run(Len(got'), Len(pending'))
          /\ Len(got') + Len(pending') = a + m
      BY <3>3, <3>4, HandedOver
    <3>6. InOrder'
      BY <1>1, <1>3, <3>1, <3>5 DEF InOrder, NoCall
    <3>7. KeepsQuiet
      BY <1>1, <1>3, <3>1 DEF KeepsQuiet, Live
    <3> QED
      BY <1>2, <3>1, <3>2, <3>5, <3>6, <3>7
  <2>2. ASSUME NEW k \in 1..2, RecvStart(k) \/ Send(k)
        PROVE  /\ v.key = keys'["server_app"] /\ (KeepsQuiet \/ WritesMore)
               /\ InOrder' /\ Len(got') + Len(pending') = Len(got) + Len(pending)
    <3>1. UNCHANGED <<keys, accepted, out, got, pending>>
      BY <2>2 DEF RecvStart, Send, ownVars, dataVars
    <3>2. call'.loop # "post" /\ (call'.loop = "recv" => pending = <<>>)
      BY <2>2 DEF RecvStart, Send, TypeOK, Call
    <3>3. KeepsQuiet
      BY <1>1, <1>3, <3>1 DEF KeepsQuiet, Live
    <3> QED
      BY <1>2, <1>4, <3>1, <3>2, <3>3
  <2>3. ASSUME NEW request \in BOOLEAN, KeyUpdate(request, TRUE)
        PROVE  /\ v.key = keys'["server_app"] /\ (KeepsQuiet \/ WritesMore)
               /\ InOrder' /\ Len(got') + Len(pending') = Len(got) + Len(pending)
    <3>1. UNCHANGED <<accepted, got, pending, call>> /\ At("none")
      BY <2>3 DEF KeyUpdate, dataVars
    <3>2. /\ out' = Append(out, ProtectedHandshake(keys["client_app"],
                                                   <<Whole(KeyUpdateMsg(request))>>))
          /\ keys' = [keys EXCEPT !["client_app"] = Updated(@)]
      BY <2>3 DEF KeyUpdate
    <3>3. /\ keys'["client_app"] = AfterUpdate(keys["client_app"])
          /\ keys'["server_app"] = keys["server_app"]
      BY <3>2 DEF TypeOK, Slots, Updated, AfterUpdate
    <3>4. WritesMore
      BY <1>1, <1>3, <3>1, <3>2, <3>3 DEF WritesMore
    <3> QED
      BY <1>2, <1>4, <3>1, <3>3, <3>4 DEF At
  <2>4. CASE SendChunk(TRUE)
    <3>1. UNCHANGED <<got, pending>> /\ call'.loop = call.loop /\ At("send")
      BY <2>4 DEF SendChunk, TypeOK, Call
    <3>2. /\ out' = Append(out, ProtectedData(keys["client_app"], <<accepted + 1>>))
          /\ keys' = [keys EXCEPT !["client_app"] = Used(@)]
          /\ accepted' = accepted + 1
      BY <2>4 DEF SendChunk
    <3>3. /\ keys'["client_app"] = AfterRecord(keys["client_app"])
          /\ keys'["server_app"] = keys["server_app"]
      BY <3>2 DEF TypeOK, Slots, Used, AfterRecord
    <3>4. WritesMore
      BY <1>1, <1>3, <3>2, <3>3 DEF WritesMore
    <3> QED
      BY <1>2, <1>4, <3>1, <3>3, <3>4 DEF At
  <2>5. CASE SendDone
    <3>1. UNCHANGED <<keys, accepted, out, got, pending>> /\ call' = NoCall
      BY <2>5 DEF SendDone, Return, ownVars, dataVars
    <3>2. KeepsQuiet
      BY <1>1, <1>3, <3>1 DEF KeepsQuiet, Live
    <3> QED
      BY <1>2, <1>4, <3>1, <3>2 DEF NoCall
  <2> QED
    BY <2>1, <2>2, <2>3, <2>4, <2>5
<1>6. ClientAt(th, n, v)'
  <2>1. buf' = <<>> /\ UNCHANGED <<state, transcript, share, alpn, authentic>>
    BY <1>2, <1>3
  <2> QED
    BY <2>1, <1>2, <1>5, StaysConnected
<1> QED
  BY <1>5, <1>6

LEMMA FailDies ==
    ASSUME NEW e, Fail(e), broken, UNCHANGED <<conn, dataVars, out>>
    PROVE  Dies
  BY DEF Fail, Dies, Live, NoCall, dataVars

\* Between the reads a client fails only with the stream.
LEMMA LocalHandled ==
    ASSUME TypeOK, Lifecycle, InOrder, ClientLocalStep,
           NEW th \in Seq(Entry), NEW n \in 1..Len(th),
           th[n] = EntryOf(ServerHelloOf(th, n)), th[n].val \in ServerGroups,
           NEW v \in Stage, ClientAt(th, n, v)
    PROVE  \/ Dies
           \/ /\ ClientAt(th, n, v)' /\ InOrder'
              /\ KeepsQuiet \/ WritesMore \/ (SaysFinished(th, n) /\ v.pos = 8)
<1> v.pos \in 0..8 /\ v.pos \in Nat
  BY DEF Stage
<1>1. ASSUME AtHello
      PROVE  /\ First(buf) = ServerHelloOf(th, n) /\ First(buf).type = "server_hello"
             /\ HelloError(First(buf)) = "OK"
  <2>1. AwaitsHello(th, n, v) /\ buf # <<>>
    BY <1>1 DEF AtHello, At, Complete, ClientAt, InFlight, IsConnected, Lifecycle, CallsNest
  <2>2. buf = <<Whole(ServerHelloOf(th, n))>> /\ share = th[n].val
    BY <2>1 DEF AwaitsHello, Checked
  <2>3. First(buf) = ServerHelloOf(th, n) /\ Rest(buf) = <<>>
    BY <2>2 DEF First, Rest, Whole
  <2>4. /\ First(buf).type = "server_hello" /\ First(buf).val = share /\ First(buf).n = 0
    BY <2>2, <2>3 DEF ServerHelloOf, Msg
  <2>5. share \in Groups /\ share # "unsupported"
    BY <2>2, SessionAssumption, ClientAssumption
  <2> QED
    BY <2>3, <2>4, <2>5 DEF HelloError
<1>2. ~HelloRejected /\ \A ok \in BOOLEAN : ~HelloRetry(ok)
  BY <1>1 DEF HelloRejected, HelloRetry
<1>3. ~FlightRejected
  <2>1. ASSUME At("flight"), Complete(buf) PROVE FlightError(First(buf)) = "OK"
    BY <2>1, NextOfFlight
  <2> QED
    BY <2>1 DEF FlightRejected
<1>4. ~PostRejected
  <2>1. ASSUME PostRejected PROVE FALSE
    <3>1. At("post") /\ Complete(buf) /\ First(buf).type # "new_session_ticket"
      BY <2>1 DEF PostRejected, AtPost
    <3>2. First(buf).type = "key_update" /\ First(buf).val = "none" /\ First(buf).n \in {0, 1}
      BY <3>1, PostedMessage
    <3>3. First(buf).n > 1
      BY <2>1, <3>2 DEF PostRejected
    <3> QED
      BY <3>2, <3>3
  <2> QED
    BY <2>1
<1>5. CASE ServerHello
  <2>1. ClientAt(th, n, v)'
    BY <1>5, ServerHelloHandled
  <2>2. /\ state = "HANDSHAKING" /\ state' = state /\ keys'["client_app"] = keys["client_app"]
        /\ UNCHANGED <<conn, accepted, got, pending, out>> /\ call'.loop = "flight"
    BY <1>5 DEF ServerHello, AtHello, At, Lifecycle, CallsNest, TypeOK, Slots, GoTo, Call, noteVars,
       dataVars
  <2>3. InOrder' /\ KeepsQuiet
    BY <2>2 DEF InOrder, KeepsQuiet, Live
  <2> QED
    BY <2>1, <2>3
<1>6. CASE EncryptedExtensions \/ Certificate \/ CertificateVerify
  <2>1. ClientAt(th, n, v)'
    BY <1>6, FlightHandled
  <2>2. At("flight") /\ FlightGoesOn /\ call'.loop = call.loop
    BY <1>6 DEF EncryptedExtensions, Certificate, CertificateVerify, AtFlight, TypeOK, Call
  <2>3. /\ state = "HANDSHAKING" /\ UNCHANGED <<state, keys, conn, accepted, got, pending, out>>
    BY <2>2 DEF FlightGoesOn, At, Lifecycle, CallsNest, ownVars, dataVars
  <2>4. InOrder' /\ KeepsQuiet
    BY <2>2, <2>3 DEF InOrder, KeepsQuiet, Live, At
  <2> QED
    BY <2>1, <2>4
<1>7. CASE Finished(TRUE)
  BY <1>7, FinishedHandled
<1>8. CASE PostDone \/ NewSessionTicket \/ PeerKeyUpdate \/ PeerKeyUpdateRequested
  BY <1>8, PostHandled
<1>9. CASE SendChunk(TRUE) \/ SendDone
  BY <1>9, CallHandled
<1>10. CASE broken /\ (Finished(FALSE) \/ PeerKeyUpdateFails \/ SendChunk(FALSE))
  <2>1. /\ \E e \in Errors : Fail(e)
        /\ UNCHANGED <<conn, dataVars, out>>
    BY <1>10, ErrorsTyped DEF Finished, PeerKeyUpdateFails, SendChunk, FailWith, noteVars, dataVars
  <2> QED
    BY <1>10, <2>1, FailDies
<1>11. ASSUME NEW ok \in BOOLEAN, Reliable(ok), Finished(ok) \/ SendChunk(ok)
       PROVE  \/ Finished(TRUE) \/ SendChunk(TRUE)
              \/ broken /\ (Finished(FALSE) \/ SendChunk(FALSE))
  <2>1. CASE ok = TRUE
    BY <1>11, <2>1
  <2>2. CASE ok = FALSE
    BY <1>11, <2>2 DEF Reliable
  <2> QED
    BY <2>1, <2>2
<1> QED
  BY <1>2, <1>3, <1>4, <1>5, <1>6, <1>7, <1>8, <1>9, <1>10, <1>11 DEF ClientLocalStep

LEMMA CallKinds ==
    ASSUME TypeOK, Lifecycle, InOrder, conn = 1, ClientCall \/ ClientRecv,
           NEW th, NEW n, NEW v, Live => ClientAt(th, n, v)
    PROVE  \/ Dies
           \/ Live /\ ClientAt(th, n, v)' /\ InOrder' /\ (KeepsQuiet \/ WritesMore)
<1>1. \A g \in Groups : ~Connect(g)
  BY SessionAssumption, ClientAssumption DEF Connect, BeginConnect
<1>2. CASE \/ \E k \in 1..2 : RecvPending(k) \/ RecvStart(k) \/ Send(k)
           \/ \E request \in BOOLEAN : KeyUpdate(request, TRUE)
  <2>1. Live
    BY <1>2 DEF RecvPending, RecvStart, Send, KeyUpdate, Live
  <2> QED
    BY <1>2, <2>1, CallHandled
<1>3. ASSUME NEW request \in BOOLEAN, broken, KeyUpdate(request, FALSE)
      PROVE  Dies
  BY <1>3, FailDies DEF KeyUpdate, FailWith, noteVars, dataVars
<1>4. ASSUME NEW ok \in BOOLEAN, Close(ok)
      PROVE  Dies
  BY <1>4 DEF Close, Dies, Live, At, ownVars, noteVars, dataVars
<1>5. CASE Reset
  BY <1>5 DEF Reset, Dies, Live, At
<1>6. ASSUME NEW request \in BOOLEAN, NEW ok \in BOOLEAN, Reliable(ok), KeyUpdate(request, ok)
      PROVE  KeyUpdate(request, TRUE) \/ (broken /\ KeyUpdate(request, FALSE))
  <2>1. CASE ok = TRUE
    BY <1>6, <2>1
  <2>2. CASE ok = FALSE
    BY <1>6, <2>2 DEF Reliable
  <2> QED
    BY <2>1, <2>2
<1> QED
  BY <1>1, <1>2, <1>3, <1>4, <1>5, <1>6 DEF ClientCall, ClientRecv

-----------------------------------------------------------------------------
(* What the client makes of an honest server's records *)

LEMMA RecordsAre ==
    ASSUME NEW k, NEW x
    PROVE  /\ PlainHandshake(x).outer = "handshake" /\ PlainHandshake(x).hs = x
           /\ PlainHandshake(x).inner = "none" /\ PlainHandshake(x).key = Zero
           /\ ProtectedHandshake(k, x).outer = "application_data" /\ ProtectedHandshake(k, x).hs = x
           /\ ProtectedHandshake(k, x).inner = "handshake" /\ ProtectedHandshake(k, x).key = k
           /\ ProtectedData(k, x).outer = "application_data" /\ ProtectedData(k, x).data = x
           /\ ProtectedData(k, x).inner = "application_data" /\ ProtectedData(k, x).key = k
           /\ ProtectedAlert(k, x).outer = "application_data" /\ ProtectedAlert(k, x).alert = x
           /\ ProtectedAlert(k, x).inner = "alert" /\ ProtectedAlert(k, x).key = k
  BY DEF PlainHandshake, ProtectedHandshake, ProtectedData, ProtectedAlert, Blank

LEMMA LabelsAre ==
    /\ Zero.label = "zero"
    /\ \A slot \in Slots : \A th : KeyOver(slot, th).label = slot
    /\ \A k \in Key : AfterRecord(k).label = k.label /\ AfterUpdate(k).label = k.label
  BY DEF Zero, KeyOver, AfterRecord, AfterUpdate, Key

LEMMA HelloTaken ==
    ASSUME TypeOK, Lifecycle, InOrder, NEW r, HelloRecord(r), NEW th, NEW n,
           NEW a \in Stage, NEW b \in Stage, ClientAt(th, n, a), Carries(th, n, r, a, b)
    PROVE  ClientAt(th, n, b)' /\ InOrder' /\ KeepsQuiet
<1>1. At("hello") /\ ~Complete(buf) /\ state = "HANDSHAKING"
  BY DEF HelloRecord, At, Lifecycle, CallsNest
<1>2. AwaitsHello(th, n, a)
  BY <1>1 DEF ClientAt, InFlight, IsConnected, At
<1>3. buf = <<>> /\ a.key = Zero
  BY <1>1, <1>2 DEF AwaitsHello, Complete, Whole
<1>4. CarriesHello(th, n, r, a, b)
  BY <1>3, LabelsAre DEF Carries, CarriesFlight
<1> DEFINE fs == <<Whole(ServerHelloOf(th, n))>>
<1>5. r.outer = "handshake" /\ r.hs = fs
  BY <1>4, RecordsAre DEF CarriesHello
<1>6. Fits(buf, r.hs) /\ buf \o r.hs = fs
  BY <1>3, <1>5, SessionAssumption, ClientAssumption DEF Fits
<1>7. /\ buf' = fs
      /\ UNCHANGED <<state, call, conn, keys, share, alpn, transcript, authentic, got, pending,
                     accepted, out>>
  BY <1>5, <1>6 DEF HelloRecord, ownVars, dataVars
<1>8. Checked(th, n, 0)'
  BY <1>2, <1>7 DEF AwaitsHello, Checked
<1>9. /\ b.key = KeyOver("server_hs", ThroughHello(th, n)) /\ b.pos = a.pos /\ b.data = a.data
      /\ b.ended = a.ended
  BY <1>4 DEF CarriesHello, Stage
<1>10. AwaitsHello(th, n, b)'
  BY <1>2, <1>7, <1>8, <1>9 DEF AwaitsHello, At
<1>11. ClientAt(th, n, b)'
  BY <1>7, <1>9, <1>10 DEF ClientAt
<1>12. InOrder' /\ KeepsQuiet
  BY <1>1, <1>7 DEF InOrder, KeepsQuiet, Live
<1> QED
  BY <1>11, <1>12

LEMMA FlightTaken ==
    ASSUME TypeOK, Lifecycle, InOrder, NEW r, FlightRecord(r), NEW th, NEW n,
           NEW a \in Stage, NEW b \in Stage, ClientAt(th, n, a), Carries(th, n, r, a, b),
           a.pos < 8 => a.key.label # "server_app"
    PROVE  ClientAt(th, n, b)' /\ InOrder' /\ KeepsQuiet
<1>1. At("flight") /\ ~Complete(buf) /\ state = "HANDSHAKING" /\ buf \in Seq(Fragment)
  BY DEF FlightRecord, At, Lifecycle, CallsNest, TypeOK
<1>2. InFlight(th, n, a)
  BY <1>1 DEF ClientAt, AwaitsHello, IsConnected, At
<1>3. PICK q \in 0..3 : /\ n + q <= Len(th) /\ transcript = SubSeq(th, 1, n + q)
                        /\ Checked(th, n, q) /\ Spans(th, n, buf, 2 * q, a.pos)
  BY <1>2 DEF InFlight
<1>4. Len(buf) <= 1 /\ a.pos < 8
  <2>1. a.pos \in 0..8
    BY DEF Stage
  <2> QED
    BY <1>1, <1>3, <2>1, SpansIncomplete
<1>5. a.key = keys["server_hs"] /\ keys["server_hs"].label = "server_hs"
  BY <1>2, <1>4 DEF InFlight
<1>6. CarriesFlight(th, n, r, a, b)
  BY <1>4, <1>5, LabelsAre DEF Carries, CarriesHello
<1>7. PICK fs \in Seq(Fragment) : /\ Len(fs) \in 1..2 /\ Spans(th, n, fs, a.pos, b.pos)
                                  /\ r = ProtectedHandshake(a.key, fs)
  BY <1>6 DEF CarriesFlight
<1>8. /\ r.outer = "application_data" /\ r.inner = "handshake" /\ r.hs = fs
      /\ r.key = keys["server_hs"]
  BY <1>5, <1>7, RecordsAre
<1>9. Len(buf) + Len(fs) <= 3
  <2>1. PICK i \in Nat : i = Len(buf)
    BY <1>1, Elements
  <2>2. PICK j \in 1..2 : j = Len(fs)
    BY <1>7
  <2> QED
    BY <1>4, <2>1, <2>2
<1>10. Fits(buf, fs) /\ Opens("server_hs", r)
  <2>1. PICK s \in Nat : s = Len(buf) + Len(fs)
    BY <1>1, <1>7, Elements
  <2>2. Len(buf) + Len(fs) <= DeframerCapacity
    BY <2>1, <1>9, SessionAssumption, ClientAssumption
  <2> QED
    BY <2>2, <1>8 DEF Fits, Opens
<1>11. /\ buf' = buf \o fs /\ keys' = [keys EXCEPT !["server_hs"] = Used(@)]
       /\ UNCHANGED <<state, call, conn, share, alpn, transcript, authentic, got, pending,
                      accepted, out>>
  BY <1>8, <1>10 DEF FlightRecord, Opened, dataVars
<1>12. /\ keys'["server_hs"] = AfterRecord(a.key) /\ keys'["client_hs"] = keys["client_hs"]
       /\ keys'["client_app"] = keys["client_app"]
       /\ keys'["server_hs"].label = "server_hs"
  <2>1. keys["server_hs"] \in Key
    BY DEF TypeOK, Slots
  <2> QED
    BY <1>5, <1>11, <2>1, LabelsAre DEF TypeOK, Slots, Used, AfterRecord
<1>13. Spans(th, n, buf', 2 * q, b.pos)
  BY <1>1, <1>3, <1>7, <1>9, <1>11, SpansJoin
<1>14. Checked(th, n, q)'
  BY <1>3, <1>11 DEF Checked
<1>15. /\ b.key = IF b.pos = 8 THEN KeyOver("server_app", ThroughFlight(th, n))
                               ELSE keys'["server_hs"]
       /\ b.data = a.data /\ ~b.ended
  BY <1>6, <1>12 DEF CarriesFlight
<1>16. InFlight(th, n, b)'
  <2>1. \E p \in 0..3 :
          /\ n + p <= Len(th) /\ transcript' = SubSeq(th, 1, n + p) /\ Checked(th, n, p)'
          /\ Spans(th, n, buf', 2 * p, b.pos)
    BY <1>3, <1>11, <1>13, <1>14
  <2> QED
    BY <1>1, <1>2, <1>11, <1>12, <1>15, <2>1 DEF InFlight, At
<1>17. ClientAt(th, n, b)'
  BY <1>11, <1>15, <1>16 DEF ClientAt
<1>18. InOrder' /\ KeepsQuiet
  BY <1>1, <1>11, <1>12 DEF InOrder, KeepsQuiet, Live
<1> QED
  BY <1>17, <1>18

LEMMA UpdateAfterRecord ==
    ASSUME NEW k \in Key
    PROVE  AfterUpdate(AfterRecord(k)) = AfterUpdate(k)
  BY DEF AfterUpdate, AfterRecord, Key

\* A record recv() reads is the next of the stream, and it is told of the end.
LEMMA DataTaken ==
    ASSUME TypeOK, Lifecycle, InOrder, NEW r, RecvRecord(r), NEW th, NEW n,
           NEW a \in Stage, NEW b \in Stage, ClientAt(th, n, a), Carries(th, n, r, a, b),
           a.pos = 8 => a.key.label = "server_app"
    PROVE  \/ ClientAt(th, n, b)' /\ InOrder' /\ KeepsQuiet
           \/ /\ Dies /\ state = "CONNECTED" /\ state' = "CLOSED" /\ b.ended
              /\ b.data = Len(got) /\ pending = <<>> /\ pending' = <<>>
<1>1. At("recv") /\ state = "CONNECTED" /\ pending = <<>>
  BY DEF RecvRecord, At, Lifecycle, CallsNest, InOrder
<1>2. IsConnected(th, n, a) /\ buf = <<>> /\ a.key = keys["server_app"]
  BY <1>1, PostedMessage DEF At
<1>3. a.pos = 8 /\ a.key.label = "server_app" /\ a.key \in Key /\ Checked(th, n, 4)
  BY <1>2 DEF IsConnected, Stage
<1>4. CarriesData(r, a, b) \/ CarriesTicket(r, a, b) \/ CarriesUpdate(r, a, b) \/ CarriesEnd(r, a, b)
  BY <1>3, LabelsAre DEF Carries, CarriesHello, CarriesFlight
<1>5. a.data = Len(got) /\ a.data \in Nat /\ ~a.ended
  <2>1. a.data = Len(got) + Len(pending) /\ ~a.ended /\ Len(pending) = 0 /\ Len(got) \in Nat
    BY <1>1, LenProperties DEF ClientAt, TypeOK
  <2> QED
    BY <2>1
<1>6. UNCHANGED <<conn, alpn, transcript, authentic, accepted, out>>
  BY DEF RecvRecord
<1>7. \/ /\ keys'["server_app"] = AfterRecord(a.key)
         /\ keys'["client_app"] = keys["client_app"]
      \/ keys' # Opened("server_app")
  BY <1>2 DEF Opened, TypeOK, Slots, Used, AfterRecord
<1>8. CASE CarriesData(r, a, b)
  <2>1. PICK m \in Nat : /\ r = ProtectedData(a.key, Run(a.data, m))
                         /\ b = [a EXCEPT !.key = AfterRecord(@), !.data = @ + m]
    BY <1>8 DEF CarriesData
  <2>2. /\ r.outer = "application_data" /\ r.inner = "application_data" /\ r.key = keys["server_app"]
        /\ r.data = Run(a.data, m)
    BY <1>2, <2>1, RecordsAre
  <2>3. /\ Deliver(r.data, Least(call.want, Len(r.data)))
        /\ keys' = Opened("server_app") /\ call' = NoCall
        /\ UNCHANGED <<state, share, buf>>
    BY <2>2 DEF RecvRecord, Opens
  <2>4. got = Run(0, a.data) /\ call.want \in Nat
    BY <1>5 DEF InOrder, TypeOK, Call
  <2>5. /\ got' = Run(0, Len(got')) /\ pending' = Run(Len(got'), Len(pending'))
        /\ Len(got') + Len(pending') = a.data + m
    BY <1>5, <2>2, <2>3, <2>4, HandedOver
  <2>6. b.key = AfterRecord(a.key) /\ b.data = a.data + m /\ b.pos = a.pos /\ b.ended = a.ended
    BY <2>1 DEF Stage
  <2>7. Checked(th, n, 4)'
    BY <1>3, <1>6, <2>3 DEF Checked
  <2>8. IsConnected(th, n, b)'
    BY <1>2, <1>6, <1>7, <2>3, <2>6, <2>7 DEF IsConnected
  <2>9. ClientAt(th, n, b)'
    BY <1>5, <2>5, <2>6, <2>8 DEF ClientAt
  <2>10. InOrder' /\ KeepsQuiet
    BY <1>1, <1>6, <1>7, <2>3, <2>5 DEF InOrder, KeepsQuiet, Live, NoCall
  <2> QED
    BY <2>9, <2>10
<1>9. CASE CarriesTicket(r, a, b) \/ CarriesUpdate(r, a, b)
  <2>1. PICK m : /\ r = ProtectedHandshake(a.key, <<Whole(m)>>)
                 /\ \/ m = Msg("new_session_ticket", "none", 0) /\ b = [a EXCEPT !.key = AfterRecord(@)]
                    \/ /\ \E request \in BOOLEAN : m = KeyUpdateMsg(request)
                       /\ b = [a EXCEPT !.key = AfterUpdate(@)]
    BY <1>9 DEF CarriesTicket, CarriesUpdate
  <2>2. /\ r.outer = "application_data" /\ r.inner = "handshake" /\ r.key = keys["server_app"]
        /\ r.hs = <<Whole(m)>>
    BY <1>2, <2>1, RecordsAre
  <2>3. Fits(buf, r.hs) /\ buf \o r.hs = <<Whole(m)>>
    BY <1>2, <2>2, SessionAssumption, ClientAssumption DEF Fits
  <2>4. /\ keys' = Opened("server_app") /\ buf' = <<Whole(m)>> /\ call' = [call EXCEPT !.loop = "post"]
        /\ UNCHANGED <<state, share, pending, got>>
    BY <2>2, <2>3 DEF RecvRecord, Opens, GoTo
  <2>5. call'.loop = "post"
    BY <2>4 DEF TypeOK, Call
  <2>6. /\ b.pos = a.pos /\ b.data = a.data /\ b.ended = a.ended
        /\ \/ m = Msg("new_session_ticket", "none", 0) /\ b.key = keys'["server_app"]
           \/ /\ \E request \in BOOLEAN : m = KeyUpdateMsg(request)
              /\ b.key = AfterUpdate(keys'["server_app"])
    BY <1>3, <1>7, <2>1, <2>4, UpdateAfterRecord DEF Stage
  <2>7. Checked(th, n, 4)'
    BY <1>3, <1>6, <2>4 DEF Checked
  <2>8. \/ At("post")' /\ buf' = <<Whole(Msg("new_session_ticket", "none", 0))>> /\ b.key = keys'["server_app"]
        \/ /\ At("post")' /\ \E request \in BOOLEAN : buf' = <<Whole(KeyUpdateMsg(request))>>
           /\ b.key = AfterUpdate(keys'["server_app"])
    BY <2>4, <2>5, <2>6 DEF At
  <2>9. IsConnected(th, n, b)'
    BY <1>2, <1>6, <2>4, <2>6, <2>7, <2>8 DEF IsConnected, KeyUpdateMsg
  <2>10. ClientAt(th, n, b)'
    BY <2>4, <2>6, <2>9 DEF ClientAt
  <2>11. InOrder' /\ KeepsQuiet
    BY <1>1, <1>6, <1>7, <2>4, <2>5 DEF InOrder, KeepsQuiet, Live
  <2> QED
    BY <2>10, <2>11
<1>10. CASE CarriesEnd(r, a, b)
  <2>1. /\ r.outer = "application_data" /\ r.inner = "alert" /\ r.key = keys["server_app"]
        /\ r.alert = "close_notify"
    BY <1>2, <1>10, RecordsAre DEF CarriesEnd
  <2>2. b.ended /\ b.data = a.data
    BY <1>10 DEF CarriesEnd, Stage
  <2>3. RemoteClose /\ UNCHANGED <<pending, got>>
    BY <2>1 DEF RecvRecord, Opens, AlertError
  <2>4. Dies /\ state' = "CLOSED"
    BY <1>6, <2>3 DEF RemoteClose, Dies, Live, NoCall
  <2> QED
    BY <1>1, <1>5, <2>2, <2>3, <2>4
<1> QED
  BY <1>4, <1>8, <1>9, <1>10

-----------------------------------------------------------------------------
(* The stream to the server *)

\* What the client writes next extends the stream to the server.
LEMMA StreamExtends ==
    ASSUME TypeOK, ServerTyped, UNCHANGED serverVars,
           NEW r, out' = Append(out, r), NEW g \in [Nat -> WriteStage], PathToServer(g),
           NEW b \in WriteStage, Sends(srvTranscript, HelloEnd, r, g[Len(out)], b),
           Live' => ClientWritesAt(b)', WriteStageOK(b)',
           \A s \in WriteStage : WriteStageOK(s) => WriteStageOK(s)'
    PROVE  \E h \in [Nat -> WriteStage] : PathToServer(h)'
<1>1. PICK k \in Nat, u \in Nat : k = Len(out) /\ u = readUpTo
  BY LenProperties DEF TypeOK, ServerTyped
<1> DEFINE h == [g EXCEPT ![k + 1] = b]
<1>2. /\ h \in [Nat -> WriteStage] /\ h[k + 1] = b
      /\ \A i \in 0..k : h[i] = g[i]
  OBVIOUS
<1> HIDE DEF h
<1>3. u <= k /\ Len(out') = k + 1 /\ u' = u /\ readUpTo' = u
  BY <1>1, OutAppended DEF ServerTyped, serverVars
<1>4. ServerReadsAt(h[readUpTo])'
  <2>1. h[u] = g[u] /\ ServerReadsAt(g[u])
    BY <1>1, <1>2, <1>3 DEF PathToServer
  <2>2. ServerReadsAt(g[u])'
    BY <2>1 DEF ServerReadsAt, serverVars
  <2> QED
    BY <1>3, <2>1, <2>2
<1>5. (Live => ClientWritesAt(h[Len(out)]))'
  BY <1>2, <1>3
<1>6. \A i \in u..(k + 1) : i = k + 1 \/ (i \in u..k /\ i \in 0..k)
  BY <1>3
<1>7. (\A i \in readUpTo..Len(out) : WriteStageOK(h[i]))'
  <2>1. ASSUME NEW i \in u..k PROVE WriteStageOK(h[i])'
    <3>1. WriteStageOK(g[i]) /\ g[i] \in WriteStage /\ h[i] = g[i] /\ i \in u..k
      BY <1>1, <1>2, <1>3 DEF PathToServer
    <3> QED
      BY <3>1
  <2> QED
    BY <1>2, <1>3, <1>6, <2>1
<1>8. (\A i \in (readUpTo + 1)..Len(out) : Sends(srvTranscript, HelloEnd, out[i], h[i - 1], h[i]))'
  <2>1. srvTranscript' = srvTranscript /\ HelloEnd' = HelloEnd
    BY DEF serverVars, HelloEnd
  <2>2. ASSUME NEW i \in (u + 1)..(k + 1)
        PROVE  Sends(srvTranscript, HelloEnd, out'[i], h[i - 1], h[i])
    <3>1. CASE i = k + 1
      <4>1. out'[i] = r /\ h[i - 1] = g[k] /\ h[i] = b
        BY <1>1, <1>2, <3>1, OutAppended
      <4> QED
        BY <1>1, <4>1
    <3>2. CASE i # k + 1
      <4>1. i \in (u + 1)..k /\ i \in 1..k /\ i \in 0..k /\ i - 1 \in 0..k
        BY <3>2
      <4>2. out'[i] = out[i] /\ h[i - 1] = g[i - 1] /\ h[i] = g[i]
        BY <1>1, <1>2, <4>1, OutAppended
      <4> QED
        BY <1>1, <4>1, <4>2 DEF PathToServer
    <3> QED
      BY <3>1, <3>2
  <2> QED
    BY <1>3, <2>1, <2>2
<1> QED
  BY <1>2, <1>4, <1>5, <1>7, <1>8 DEF PathToServer

\* The stream to the server stays as it is while the client writes nothing.
LEMMA StreamStays ==
    ASSUME UNCHANGED <<serverVars, out>>, NEW g, PathToServer(g), readUpTo \in 0..Len(out),
           Live' => ClientWritesAt(g[Len(out)])',
           \A s \in WriteStage : WriteStageOK(s) => WriteStageOK(s)', g \in [Nat -> WriteStage]
    PROVE  PathToServer(g)'
<1>1. /\ srvTranscript' = srvTranscript /\ HelloEnd' = HelloEnd /\ readUpTo' = readUpTo
      /\ out' = out
  BY DEF serverVars, HelloEnd
<1>2. ServerReadsAt(g[readUpTo])'
  BY DEF ServerReadsAt, PathToServer, serverVars
<1>3. (\A i \in readUpTo..Len(out) : WriteStageOK(g[i]))'
  <2>1. ASSUME NEW i \in readUpTo..Len(out) PROVE WriteStageOK(g[i])'
    <3>1. i \in Nat
      BY LenProperties
    <3> QED
      BY <3>1 DEF PathToServer
  <2> QED
    BY <1>1, <2>1
<1>4. (\A i \in (readUpTo + 1)..Len(out) : Sends(srvTranscript, HelloEnd, out[i], g[i - 1], g[i]))'
  BY <1>1 DEF PathToServer
<1> QED
  BY <1>1, <1>2, <1>3, <1>4 DEF PathToServer

-----------------------------------------------------------------------------
(* What each kind of step of the client keeps, once the server has answered its hello *)

LEMMA ServerStays ==
    ASSUME ServerTyped, ServerShape, UNCHANGED serverVars, UNCHANGED broken,
           toClient' \in Seq(Record), told' \in BOOLEAN, readUpTo \in 0..Len(out')
    PROVE  ServerTyped' /\ ServerShape'
<1>1. HelloEnd' = HelloEnd
  BY DEF HelloEnd, serverVars
<1>2. ServerTyped'
  BY DEF ServerTyped, serverVars
<1>3. ServerShape'
  BY <1>1 DEF ServerShape, serverVars
<1> QED
  BY <1>2, <1>3

LEMMA DeathKeeps ==
    ASSUME TypeOK, Lifecycle, ServerTyped, ClientShape, InPhase, ToServer, Dies,
           UNCHANGED <<serverVars, broken>>, phase # "hello", told' \in BOOLEAN
    PROVE  ClientShape' /\ InPhase' /\ ToClient' /\ ToServer' /\ readUpTo \in 0..Len(out')
<1>1. phase' = phase /\ readUpTo' = readUpTo /\ broken' = broken
  BY DEF serverVars
<1>2. conn = 1 /\ conn' = 1 /\ ~Live' /\ state' # "HANDSHAKING" /\ state' # "CONNECTED"
  BY DEF InPhase, Dies, Live
<1>3. ClientShape'
  <2>1. InOrder'
    <3>1. got' = Run(0, Len(got'))
      BY DEF ClientShape, InOrder, Dies
    <3>2. pending' = Run(Len(got'), Len(pending'))
      <4>1. CASE pending' = pending
        BY <4>1 DEF ClientShape, InOrder, Dies
      <4>2. CASE pending' = <<>>
        <5>1. Len(got') \in Nat /\ Len(<<>>) = 0
          BY LenProperties DEF Dies, TypeOK
        <5> QED
          BY <4>2, <5>1, RunIs
      <4> QED
        BY <4>1, <4>2 DEF Dies
    <3> QED
      BY <1>2, <3>1, <3>2 DEF InOrder, Dies
  <2>2. state' = "FAILED" => broken'
    BY <1>1 DEF Dies, ClientShape
  <2> QED
    BY <1>2, <2>1, <2>2 DEF ClientShape
<1>4. CASE out' = out
  <2>1. InPhase'
    BY <1>1, <1>2, <1>4 DEF InPhase
  <2>2. ASSUME phase \in {"flight", "finished", "connected"}
        PROVE  \E g \in [Nat -> WriteStage] : PathToServer(g)'
    <3>1. PICK g \in [Nat -> WriteStage] : PathToServer(g)
      BY <2>2 DEF ToServer
    <3>2. \A s \in WriteStage : WriteStageOK(s) => WriteStageOK(s)'
      BY <1>2 DEF WriteStageOK, Dies
    <3>3. PathToServer(g)'
      BY <1>2, <1>4, <3>1, <3>2, StreamStays DEF ServerTyped
    <3> QED
      BY <3>3
  <2> QED
    BY <1>1, <1>2, <1>3, <1>4, <2>1, <2>2 DEF ToClient, ToServer, ServerTyped
<1>5. CASE /\ state = "CONNECTED"
           /\ out' = Append(out, ProtectedAlert(keys["client_app"], "close_notify"))
  <2> DEFINE r == ProtectedAlert(keys["client_app"], "close_notify")
  <2>1. phase \in {"finished", "connected", "closed"}
    <3>1. phase # "flight"
      BY <1>5 DEF InPhase
    <3> QED
      BY <3>1 DEF ServerTyped
  <2>2. Len(out) \in Nat /\ Len(out') = Len(out) + 1 /\ \A i \in 1..Len(out) : out'[i] = out[i]
    BY <1>5, OutAppended
  <2>3. readUpTo \in 0..Len(out')
    BY <2>2 DEF ServerTyped
  <2>4. InPhase'
    <3>1. \E i \in 1..Len(out) : out[i].key.label = "client_hs"
      BY <1>5 DEF InPhase
    <3>2. \E i \in 1..Len(out') : out'[i].key.label = "client_hs"
      BY <2>2, <3>1
    <3> QED
      BY <1>1, <1>2, <2>1, <3>2 DEF InPhase
  <2>5. ASSUME phase \in {"finished", "connected"}
        PROVE  \E g \in [Nat -> WriteStage] : PathToServer(g)'
    <3>1. PICK g \in [Nat -> WriteStage] : PathToServer(g)
      BY <2>5 DEF ToServer
    <3>2. PICK a \in WriteStage : a = g[Len(out)]
      BY <2>2
    <3>3. a.data = accepted /\ ~a.ended /\ a.key = keys["client_app"]
      BY <1>5, <3>1, <3>2 DEF PathToServer, ClientWritesAt, Live
    <3>4. PICK b \in WriteStage : b = [a EXCEPT !.ended = TRUE]
      BY DEF WriteStage
    <3>5. b.data = accepted /\ b.ended
      BY <3>3, <3>4 DEF WriteStage
    <3>6. Sends(srvTranscript, HelloEnd, r, a, b)
      <4>1. SendsEnd(r, a, b) /\ a.key.label = "client_app"
        BY <1>5, <3>3, <3>4 DEF SendsEnd, ClientShape
      <4> QED
        BY <3>3, <4>1 DEF Sends
    <3>7. \A s \in WriteStage : WriteStageOK(s) => WriteStageOK(s)'
      BY <1>2 DEF WriteStageOK, Dies
    <3>8. WriteStageOK(b)'
      BY <1>2, <3>5 DEF WriteStageOK, Dies, TypeOK
    <3> HIDE DEF r
    <3>9. out' = Append(out, r)
      BY <1>5 DEF r
    <3> QED
      BY <1>2, <3>1, <3>2, <3>6, <3>7, <3>8, <3>9, StreamExtends
  <2> QED
    BY <1>1, <1>2, <1>3, <2>1, <2>3, <2>4, <2>5 DEF ToClient, ToServer
<1> QED
  BY <1>4, <1>5 DEF Dies

LEMMA QuietKeeps ==
    ASSUME TypeOK, Lifecycle, ServerTyped, ClientShape, InPhase, ToServer, KeepsQuiet, InOrder',
           UNCHANGED <<serverVars, broken, told>>, phase # "hello"
    PROVE  ClientShape' /\ InPhase' /\ ToServer' /\ readUpTo \in 0..Len(out')
<1>1. phase' = phase /\ readUpTo' = readUpTo /\ broken' = broken /\ told' = told
  BY DEF serverVars
<1>2. conn = 1 /\ conn' = 1 /\ Live /\ Live' /\ state' = state /\ out' = out /\ ~told
  BY DEF InPhase, KeepsQuiet, Live, ClientShape
<1>3. ClientShape'
  BY <1>1, <1>2 DEF ClientShape, KeepsQuiet, Live
<1>4. InPhase'
  BY <1>1, <1>2 DEF InPhase
<1>5. ASSUME phase \in {"flight", "finished", "connected"}
      PROVE  \E g \in [Nat -> WriteStage] : PathToServer(g)'
  <2>1. PICK g \in [Nat -> WriteStage] : PathToServer(g)
    BY <1>5 DEF ToServer
  <2>2. \A s \in WriteStage : WriteStageOK(s) => WriteStageOK(s)'
    BY <1>2 DEF WriteStageOK, KeepsQuiet
  <2>3. ClientWritesAt(g[Len(out)])'
    <3>1. ClientWritesAt(g[Len(out)])
      BY <1>2, <2>1 DEF PathToServer
    <3> QED
      BY <1>2, <3>1 DEF ClientWritesAt, KeepsQuiet, serverVars
  <2>4. PathToServer(g)'
    BY <1>2, <2>1, <2>2, <2>3, StreamStays DEF ServerTyped
  <2> QED
    BY <2>4
<1> QED
  BY <1>1, <1>2, <1>3, <1>4, <1>5 DEF ToServer, ServerTyped

LEMMA WriteStagesAre ==
    ASSUME NEW a \in WriteStage, NEW b \in WriteStage, b.ended = a.ended
    PROVE  /\ b = [a EXCEPT !.key = b.key, !.data = b.data]
           /\ b.data = a.data => b = [a EXCEPT !.key = b.key]
<1>1. b = [a EXCEPT !.key = b.key, !.data = b.data]
  BY DEF WriteStage
<1>2. b.data = a.data => b = [a EXCEPT !.key = b.key]
  BY DEF WriteStage
<1> QED
  BY <1>1, <1>2

LEMMA WritesKeep ==
    ASSUME TypeOK, TypeOK', Lifecycle, ServerTyped, ClientShape, InPhase, ToServer, WritesMore,
           InOrder', UNCHANGED <<serverVars, broken, told>>, phase # "hello"
    PROVE  ClientShape' /\ InPhase' /\ ToServer' /\ readUpTo \in 0..Len(out')
<1>1. phase' = phase /\ readUpTo' = readUpTo /\ broken' = broken /\ told' = told
  BY DEF serverVars
<1>2. /\ conn = 1 /\ conn' = 1 /\ Live /\ Live' /\ state = "CONNECTED" /\ state' = state /\ ~told
      /\ phase # "flight"
  BY DEF InPhase, WritesMore, Live, ClientShape
<1> DEFINE k == keys["client_app"]
<1>3. PICK r : /\ out' = Append(out, r) /\ r.inner # "alert"
               /\ \/ /\ r = ProtectedData(k, <<accepted + 1>>)
                     /\ accepted' = accepted + 1 /\ keys'["client_app"] = AfterRecord(k)
                  \/ /\ \E request \in BOOLEAN :
                           r = ProtectedHandshake(k, <<Whole(KeyUpdateMsg(request))>>)
                     /\ accepted' = accepted /\ keys'["client_app"] = AfterUpdate(k)
  BY RecordsAre DEF WritesMore
<1>4. k \in Key /\ keys'["client_app"] \in Key /\ keys'["client_app"].label = "client_app"
      /\ k.label = "client_app"
  <2>1. k \in Key /\ keys'["client_app"] \in Key
    BY DEF TypeOK, Slots
  <2>2. k.label = "client_app"
    BY <1>2 DEF ClientShape
  <2>3. keys'["client_app"] = AfterRecord(k) \/ keys'["client_app"] = AfterUpdate(k)
    BY <1>3
  <2> HIDE DEF k
  <2> QED
    BY <2>1, <2>2, <2>3, LabelsAre
<1>5. accepted \in Nat /\ accepted' \in Nat /\ accepted <= accepted'
  BY <1>3 DEF TypeOK
<1>6. ClientShape'
  BY <1>1, <1>2, <1>4 DEF ClientShape
<1>7. /\ Len(out) \in Nat /\ Len(out') = Len(out) + 1 /\ out'[Len(out) + 1] = r
      /\ \A i \in 1..Len(out) : out'[i] = out[i]
      /\ \A i \in 1..Len(out') : i \in 1..Len(out) \/ i = Len(out) + 1
  BY <1>3, OutAppended
<1>8. InPhase'
  <2>1. \A i \in 1..Len(out') : out'[i].inner # "alert"
    BY <1>2, <1>3, <1>7 DEF InPhase
  <2>2. \E i \in 1..Len(out') : out'[i].key.label = "client_hs"
    <3>1. \E i \in 1..Len(out) : out[i].key.label = "client_hs"
      BY <1>2 DEF InPhase
    <3> QED
      BY <1>7, <3>1
  <2> QED
    BY <1>1, <1>2, <2>1, <2>2 DEF InPhase
<1>9. ASSUME phase \in {"finished", "connected"}
      PROVE  \E g \in [Nat -> WriteStage] : PathToServer(g)'
  <2>1. PICK g \in [Nat -> WriteStage] : PathToServer(g)
    BY <1>9 DEF ToServer
  <2>2. PICK a \in WriteStage : a = g[Len(out)]
    BY <1>7
  <2>3. a.data = accepted /\ ~a.ended /\ a.key = k
    BY <1>2, <2>1, <2>2 DEF PathToServer, ClientWritesAt
  <2>4. PICK b \in WriteStage : b = [key |-> keys'["client_app"], data |-> accepted', ended |-> FALSE]
    BY <1>4, <1>5 DEF WriteStage
  <2>5. b.key = keys'["client_app"] /\ b.data = accepted' /\ ~b.ended
    BY <2>4
  <2>6. Sends(srvTranscript, HelloEnd, r, a, b)
    <3>1. SendsData(r, a, b) \/ SendsUpdate(r, a, b)
      <4> HIDE DEF k
      <4>1. b.ended = a.ended
        BY <2>3, <2>5 DEF WriteStage
      <4>2. /\ accepted' = a.data => b = [a EXCEPT !.key = keys'["client_app"]]
            /\ b = [a EXCEPT !.key = keys'["client_app"], !.data = accepted']
        <5>1. b = [a EXCEPT !.key = b.key, !.data = b.data]
          BY <4>1, WriteStagesAre
        <5>2. b.data = a.data => b = [a EXCEPT !.key = b.key]
          BY <4>1, WriteStagesAre
        <5> QED
          BY <2>5, <5>1, <5>2
      <4>3. CASE /\ r = ProtectedData(k, <<accepted + 1>>)
                 /\ accepted' = accepted + 1 /\ keys'["client_app"] = AfterRecord(k)
        BY <2>3, <4>2, <4>3 DEF SendsData
      <4>4. CASE /\ \E request \in BOOLEAN :
                       r = ProtectedHandshake(k, <<Whole(KeyUpdateMsg(request))>>)
                 /\ accepted' = accepted /\ keys'["client_app"] = AfterUpdate(k)
        BY <2>3, <4>2, <4>4 DEF SendsUpdate
      <4> QED
        BY <1>3, <4>3, <4>4
    <3> QED
      BY <1>4, <2>3, <3>1 DEF Sends
  <2>7. \A s \in WriteStage : WriteStageOK(s) => WriteStageOK(s)'
    BY <1>2, <1>5 DEF WriteStageOK, WriteStage
  <2>8. WriteStageOK(b)' /\ ClientWritesAt(b)'
    BY <1>2, <1>5, <2>5 DEF WriteStageOK, ClientWritesAt
  <2> QED
    BY <1>3, <2>1, <2>2, <2>6, <2>7, <2>8, StreamExtends
<1>10. readUpTo \in 0..Len(out')
  BY <1>7 DEF ServerTyped
<1> QED
  BY <1>1, <1>2, <1>6, <1>8, <1>9, <1>10 DEF ToServer

LEMMA FinishedKeeps ==
    ASSUME TypeOK, TypeOK', Lifecycle, ServerTyped, ServerShape, ClientShape, InPhase, ToServer,
           SaysFinished(srvTranscript, HelloEnd),
           InOrder', UNCHANGED <<serverVars, broken, told>>, phase \notin {"hello", "flight"}
    PROVE  ClientShape' /\ InPhase' /\ ToServer' /\ readUpTo \in 0..Len(out')
<1> DEFINE n  == HelloEnd
           th == srvTranscript
           r  == ProtectedHandshake(KeyOver("client_hs", ThroughHello(th, n)),
                                    <<Whole(ClientFinished(ThroughFlight(th, n)))>>)
<1>1. phase' = phase /\ readUpTo' = readUpTo /\ broken' = broken /\ told' = told
  BY DEF serverVars
<1>2. /\ conn = 1 /\ conn' = 1 /\ Live /\ Live' /\ state = "HANDSHAKING" /\ state' = "CONNECTED" /\ ~told
      /\ phase = "finished" /\ readUpTo = Len(out) /\ accepted' = accepted /\ accepted = 0
  BY DEF InPhase, SaysFinished, Live, ClientShape, ServerTyped, InOrder
<1>3. /\ out' = Append(out, r) /\ r.inner = "handshake" /\ r.key.label = "client_hs"
      /\ n + 4 <= Len(th)
  BY RecordsAre, LabelsAre DEF SaysFinished, Slots
<1>4. /\ keys'["client_app"] = KeyOver("client_app", ThroughFlight(th, n))
      /\ keys'["client_app"] \in Key /\ keys'["client_app"].label = "client_app"
  BY LabelsAre DEF SaysFinished, Slots, TypeOK
<1> HIDE DEF r
<1>6. ClientShape'
  BY <1>1, <1>2, <1>4 DEF ClientShape
<1>7. /\ Len(out) \in Nat /\ Len(out') = Len(out) + 1 /\ out'[Len(out) + 1] = r
      /\ \A i \in 1..Len(out) : out'[i] = out[i]
      /\ \A i \in 1..Len(out') : i \in 1..Len(out) \/ i = Len(out) + 1
  BY <1>3, OutAppended
<1>8. InPhase'
  <2>1. \A i \in 1..Len(out') : out'[i].inner # "alert"
    <3>1. \A i \in 1..Len(out) : Plain(out[i])
      BY <1>2 DEF InPhase
    <3>2. \A i \in 1..Len(out) : out[i].inner # "alert"
      BY <3>1 DEF Plain
    <3> QED
      BY <1>3, <1>7, <3>2
  <2>2. \E i \in 1..Len(out') : out'[i].key.label = "client_hs"
    <3>1. Len(out) + 1 \in 1..Len(out')
      BY <1>7
    <3> QED
      BY <1>3, <1>7, <3>1
  <2> QED
    BY <1>1, <1>2, <2>1, <2>2 DEF InPhase
<1>9. \E g \in [Nat -> WriteStage] : PathToServer(g)'
  <2>1. PICK g \in [Nat -> WriteStage] : PathToServer(g)
    BY <1>2 DEF ToServer
  <2>2. PICK a \in WriteStage : a = g[Len(out)]
    BY <1>7
  <2>3. a.data = 0 /\ ~a.ended /\ a.key = KeyOver("client_hs", ThroughHello(th, n))
    BY <1>2, <2>1, <2>2 DEF PathToServer, ClientWritesAt, ServerShape
  <2>4. PICK b \in WriteStage : b = [a EXCEPT !.key = keys'["client_app"]]
    BY <1>4 DEF WriteStage
  <2>5. b.key = keys'["client_app"] /\ b.data = 0 /\ ~b.ended
    BY <2>3, <2>4 DEF WriteStage
  <2>6. Sends(th, n, r, a, b)
    BY <1>3, <1>4, <2>3, <2>4 DEF Sends, SendsFinished, r
  <2>7. \A s \in WriteStage : WriteStageOK(s) => WriteStageOK(s)'
    BY <1>2 DEF WriteStageOK, WriteStage
  <2>8. WriteStageOK(b)' /\ ClientWritesAt(b)'
    BY <1>2, <2>5 DEF WriteStageOK, ClientWritesAt
  <2> QED
    BY <1>3, <2>1, <2>2, <2>6, <2>7, <2>8, StreamExtends
<1>10. readUpTo \in 0..Len(out')
  BY <1>7 DEF ServerTyped
<1> QED
  BY <1>6, <1>8, <1>9, <1>10 DEF ToServer

-----------------------------------------------------------------------------
(* The stream to the client *)

LEMMA PathStays ==
    ASSUME UNCHANGED <<serverVars, toClient>>, NEW g, PathToClient(g),
           ClientAt(srvTranscript, HelloEnd, g[0])'
    PROVE  PathToClient(g)'
<1>1. /\ srvTranscript' = srvTranscript /\ HelloEnd' = HelloEnd /\ toClient' = toClient
  BY DEF serverVars, HelloEnd
<1>2. ServerAt(g[Len(toClient)])'
  BY <1>1 DEF ServerAt, PathToClient, serverVars
<1>3. (\A i \in 0..Len(toClient) : StageOK(g[i]))'
  BY <1>1 DEF StageOK, PathToClient, serverVars
<1>4. (\A i \in 1..Len(toClient) : Carries(srvTranscript, HelloEnd, toClient[i], g[i - 1], g[i]))'
  BY <1>1 DEF PathToClient
<1> QED
  BY <1>2, <1>3, <1>4 DEF PathToClient

\* What the client reads leaves the stream to the client.
LEMMA PathShifts ==
    ASSUME UNCHANGED serverVars, toClient \in Seq(Record), toClient # <<>>,
           toClient' = Tail(toClient), NEW g \in [Nat -> Stage], PathToClient(g),
           ClientAt(srvTranscript, HelloEnd, g[1])'
    PROVE  \E h \in [Nat -> Stage] : PathToClient(h)'
<1> DEFINE h == [i \in Nat |-> g[i + 1]]
<1>1. h \in [Nat -> Stage] /\ \A i \in Nat : h[i] = g[i + 1]
  OBVIOUS
<1> HIDE DEF h
<1>2. PICK k \in Nat : k = Len(toClient)
  BY LenProperties
<1>3. /\ k # 0 /\ Len(toClient') = k - 1 /\ k - 1 \in Nat
      /\ \A i \in 1..(k - 1) : toClient'[i] = toClient[i + 1]
  BY <1>2, EmptySeq, HeadTailProperties
<1>4. srvTranscript' = srvTranscript /\ HelloEnd' = HelloEnd
  BY DEF serverVars, HelloEnd
<1>5. ClientAt(srvTranscript, HelloEnd, h[0])'
  <2>1. h[0] = g[1]
    BY <1>1
  <2> QED
    BY <2>1
<1>6. ServerAt(h[Len(toClient)])'
  <2>1. h[k - 1] = g[k]
    BY <1>1, <1>3
  <2>2. ServerAt(g[k])
    BY <1>2 DEF PathToClient
  <2> QED
    BY <1>3, <1>4, <2>1, <2>2 DEF ServerAt, serverVars
<1>7. (\A i \in 0..Len(toClient) : StageOK(h[i]))'
  <2>1. ASSUME NEW i \in 0..(k - 1) PROVE StageOK(h[i])'
    <3>1. i + 1 \in 0..k /\ h[i] = g[i + 1]
      BY <1>1, <1>3
    <3>2. StageOK(g[i + 1])
      BY <1>2, <3>1 DEF PathToClient
    <3> QED
      BY <3>1, <3>2 DEF StageOK, serverVars
  <2> QED
    BY <1>3, <2>1
<1>8. (\A i \in 1..Len(toClient) : Carries(srvTranscript, HelloEnd, toClient[i], h[i - 1], h[i]))'
  <2>1. ASSUME NEW i \in 1..(k - 1)
        PROVE  Carries(srvTranscript, HelloEnd, toClient'[i], h[i - 1], h[i])
    <3>1. /\ i + 1 \in 1..k /\ h[i] = g[i + 1] /\ h[i - 1] = g[i] /\ (i + 1) - 1 = i
      <4>1. i \in Nat /\ i - 1 \in Nat /\ (i - 1) + 1 = i /\ i + 1 \in 1..k /\ (i + 1) - 1 = i
        BY <1>3
      <4> QED
        BY <1>1, <4>1
    <3>2. Carries(srvTranscript, HelloEnd, toClient[i + 1], g[i], g[i + 1])
      BY <1>2, <3>1 DEF PathToClient
    <3> QED
      BY <1>3, <3>1, <3>2
  <2> QED
    BY <1>3, <1>4, <2>1
<1> QED
  BY <1>1, <1>5, <1>6, <1>7, <1>8 DEF PathToClient

-----------------------------------------------------------------------------
(* The steps of the client *)

ClientSteps == Calls \/ Runs \/ Reads \/ ReadsNothing

\* What the server has hashed is there for the client to be compared with.
LEMMA ServerHelloThere ==
    ASSUME ServerTyped, ServerShape, phase # "hello"
    PROVE  /\ srvTranscript \in Seq(Entry) /\ HelloEnd \in 1..Len(srvTranscript)
           /\ srvTranscript[HelloEnd] = EntryOf(ServerHelloOf(srvTranscript, HelloEnd))
           /\ srvTranscript[HelloEnd].val \in ServerGroups
  BY DEF ServerTyped, ServerShape

LEMMA ClientKeeps ==
    ASSUME SInv, ClientSteps, phase # "hello", TypeOK', Lifecycle'
    PROVE  SInv'
<1> USE DEF SInv
<1>1. PICK th, n : /\ th = srvTranscript /\ n = HelloEnd /\ th \in Seq(Entry)
                   /\ n \in 1..Len(th) /\ th[n] = EntryOf(ServerHelloOf(th, n))
                   /\ th[n].val \in ServerGroups
  BY ServerHelloThere
<1>2. UNCHANGED serverVars /\ broken' = broken
  BY DEF ClientSteps, Calls, Runs, Reads, ReadsNothing
<1>3. /\ srvTranscript' = th /\ HelloEnd' = n /\ phase' = phase /\ readUpTo' = readUpTo
      /\ conn = 1 /\ InOrder
  BY <1>1, <1>2 DEF serverVars, HelloEnd, InPhase, ClientShape
<1>4. /\ told' \in BOOLEAN /\ toClient' \in Seq(Record)
      /\ Live => told = FALSE
  <2>1. toClient # <<>> => Tail(toClient) \in Seq(Record)
    BY HeadTailProperties DEF ServerTyped
  <2> QED
    BY <2>1 DEF ClientSteps, Calls, Runs, Reads, ReadsNothing, ServerTyped, ClientShape
<1>5. CASE Dies
  BY <1>2, <1>3, <1>4, <1>5, DeathKeeps, ServerStays
<1>6. ASSUME KeepsQuiet \/ WritesMore \/ (SaysFinished(th, n) /\ phase # "flight"),
             InOrder', told' = told
      PROVE  ClientShape' /\ InPhase' /\ ToServer' /\ ServerTyped' /\ ServerShape'
  <2>1. ClientShape' /\ InPhase' /\ ToServer' /\ readUpTo \in 0..Len(out')
    <3>1. CASE KeepsQuiet
      BY <1>2, <1>6, <3>1, QuietKeeps
    <3>2. CASE WritesMore
      BY <1>2, <1>6, <3>2, WritesKeep
    <3>3. CASE SaysFinished(th, n) /\ phase # "flight"
      BY <1>1, <1>2, <1>6, <3>3, FinishedKeeps
    <3> QED
      BY <1>6, <3>1, <3>2, <3>3
  <2> QED
    BY <1>2, <1>4, <2>1, ServerStays
<1>7. ASSUME Live
      PROVE  \E g \in [Nat -> Stage] : PathToClient(g)
  BY <1>7 DEF ToClient
<1>8. CASE Calls
  <2>1. UNCHANGED <<toClient, told>>
    BY <1>8 DEF Calls
  <2>2. CASE Live
    <3>1. PICK g \in [Nat -> Stage] : PathToClient(g)
      BY <1>7, <2>2
    <3>2. PICK v : v = g[0] /\ ClientAt(th, n, v)
      BY <1>1, <3>1 DEF PathToClient
    <3>3. \/ Dies
          \/ ClientAt(th, n, v)' /\ InOrder' /\ (KeepsQuiet \/ WritesMore)
      BY <1>3, <1>8, <3>2, CallKinds DEF Calls
    <3>4. ClientAt(th, n, v)' => PathToClient(g)'
      <4>1. ASSUME ClientAt(th, n, v)' PROVE ClientAt(srvTranscript, HelloEnd, g[0])'
        BY <1>3, <3>2, <4>1
      <4> QED
        BY <1>2, <2>1, <3>1, <4>1, PathStays
    <3> QED
      BY <1>5, <1>6, <2>1, <3>3, <3>4 DEF ToClient
  <2>3. CASE ~Live
    <3>1. Dies
      BY <1>3, <1>8, <2>3, CallKinds DEF Calls
    <3> QED
      BY <1>5, <3>1
  <2> QED
    BY <2>2, <2>3
<1>9. CASE Runs
  <2>1. UNCHANGED <<toClient, told>> /\ ClientLocalStep
    BY <1>9 DEF Runs
  <2>2. Live
    BY <2>1 DEF ClientLocalStep, HelloRejected, HelloRetry, ServerHello, AtHello, FlightRejected,
      EncryptedExtensions, Certificate, CertificateVerify, Finished, AtFlight, PostDone, AtPost,
      NewSessionTicket, PostRejected, PeerKeyUpdate, PeerKeyUpdateRequested, PeerKeyUpdateFails,
      AtKeyUpdate, SendChunk, SendDone, At, Lifecycle, CallsNest, Live
  <2>3. PICK g \in [Nat -> Stage] : PathToClient(g)
    BY <1>7, <2>2
  <2>4. PICK v \in Stage : v = g[0] /\ ClientAt(th, n, v) /\ StageOK(v)
    BY <1>1, <2>3, LenProperties DEF PathToClient, ServerTyped
  <2>5. \/ Dies
        \/ /\ ClientAt(th, n, v)' /\ InOrder'
           /\ KeepsQuiet \/ WritesMore \/ (SaysFinished(th, n) /\ v.pos = 8)
    BY <1>1, <1>3, <2>1, <2>4, LocalHandled
  <2>6. v.pos = 8 => phase # "flight"
    BY <2>4 DEF StageOK
  <2>7. ClientAt(th, n, v)' => PathToClient(g)'
    <3>1. ASSUME ClientAt(th, n, v)' PROVE ClientAt(srvTranscript, HelloEnd, g[0])'
      BY <1>3, <2>4, <3>1
    <3> QED
      BY <1>2, <2>1, <2>3, <3>1, PathStays
  <2> QED
    BY <1>5, <1>6, <2>1, <2>5, <2>6, <2>7 DEF ToClient
<1>10. CASE Reads
  <2>1. /\ toClient \in Seq(Record) /\ toClient # <<>> /\ Receive(Head(toClient))
        /\ toClient' = Tail(toClient)
        /\ told' = (told \/ (state = "CONNECTED" /\ state' = "CLOSED"))
    BY <1>10 DEF Reads, ServerTyped
  <2>2. PICK r : r = Head(toClient) /\ r = toClient[1] /\ Receive(r)
    BY <2>1
  <2>3. Live
    BY <2>2 DEF Receive, HelloRecord, FlightRecord, RecvRecord, At, Lifecycle, CallsNest, Live
  <2>4. PICK g \in [Nat -> Stage] : PathToClient(g)
    BY <1>7, <2>3
  <2>5. Len(toClient) \in Nat /\ Len(toClient) # 0
    BY <2>1, EmptySeq, LenProperties
  <2>6. PICK a \in Stage, b \in Stage :
           /\ a = g[0] /\ b = g[1] /\ ClientAt(th, n, a) /\ StageOK(a)
           /\ Carries(th, n, r, a, b)
    <3>1. 0 \in 0..Len(toClient) /\ 1 \in 1..Len(toClient) /\ 1 - 1 = 0
      BY <2>5
    <3>2. /\ ClientAt(th, n, g[0]) /\ StageOK(g[0])
          /\ Carries(th, n, r, g[0], g[1])
      BY <1>1, <2>2, <2>4, <3>1 DEF PathToClient
    <3> QED
      BY <3>2
  <2>7. /\ a.pos < 8 => a.key.label # "server_app"
        /\ a.pos = 8 => a.key.label = "server_app"
    BY <2>6 DEF StageOK
  <2>8. \/ Dies
        \/ ClientAt(th, n, b)' /\ InOrder' /\ KeepsQuiet
    BY <1>3, <2>2, <2>6, <2>7, HelloTaken, FlightTaken, DataTaken DEF Receive
  <2>9. ASSUME ClientAt(th, n, b)', InOrder', KeepsQuiet
        PROVE  SInv'
    <3>1. told' = told
      BY <1>4, <2>1, <2>3, <2>9 DEF KeepsQuiet
    <3>2. \E h \in [Nat -> Stage] : PathToClient(h)'
      <4>1. ClientAt(srvTranscript, HelloEnd, g[1])'
        BY <1>3, <2>6, <2>9
      <4> QED
        BY <1>2, <2>1, <2>4, <4>1, PathShifts
    <3> QED
      BY <1>6, <2>9, <3>1, <3>2 DEF ToClient
  <2> QED
    BY <1>5, <2>8, <2>9
<1>11. CASE ReadsNothing
  <2>1. Dies
    BY <1>11, FailDies DEF ReadsNothing, ReadFails, noteVars
  <2> QED
    BY <1>5, <2>1
<1> QED
  BY <1>8, <1>9, <1>10, <1>11 DEF ClientSteps

-----------------------------------------------------------------------------
(* The steps of the client while the server has not answered its hello *)

\* The invariant while the server is in phase hello: who speaks next.
LEMMA HelloPhase ==
    ASSUME phase' = "hello", ServerTyped', ServerShape', TypeOK', Lifecycle', ClientShape',
           BeforeRetry' \/ AfterRetry'
    PROVE  SInv'
<1>1. (Live => At("hello"))' /\ state' # "CONNECTED"
  <2>1. (Live => At("hello"))'
    BY DEF BeforeRetry, AfterRetry, Live
  <2> QED
    BY <2>1 DEF Lifecycle, CallsNest, At, Live
<1>2. ASSUME NEW i \in 1..Len(out') PROVE Plain(out'[i])
  <2>1. \A g : Plain(HelloOut(g))
    BY RecordsAre DEF HelloOut, Plain
  <2>2. \/ out' = <<>>
        \/ \E g : out' = <<HelloOut(g)>>
        \/ \E g, s : out' = <<HelloOut(g), HelloOut(s)>>
    BY DEF BeforeRetry, AfterRetry
  <2> QED
    BY <2>1, <2>2
<1>3. InPhase'
  BY <1>1, <1>2 DEF InPhase
<1> QED
  BY <1>3 DEF SInv, ToClient, ToServer

LEMMA HelloDies ==
    ASSUME SInv, phase = "hello", Dies, TypeOK', Lifecycle',
           conn = 0 => state' # "FAILED" /\ call' = call,
           UNCHANGED <<serverVars, toClient, broken, told>>
    PROVE  SInv'
<1>1. state # "CONNECTED"
  BY DEF SInv, InPhase, BeforeRetry, AfterRetry, Live, At, Lifecycle, CallsNest
<1>2. /\ out' = out /\ ~Live' /\ conn' = conn /\ phase' = "hello" /\ readUpTo' = readUpTo
      /\ srvTranscript' = srvTranscript /\ told' = told /\ broken' = broken
      /\ state' \in States
  BY <1>1 DEF Dies, serverVars, TypeOK
<1>3. ClientShape'
  <2>1. got = Run(0, Len(got)) /\ pending = Run(Len(got), Len(pending)) /\ Len(got) \in Nat
    BY LenProperties DEF SInv, ClientShape, InOrder, TypeOK
  <2>2. Run(Len(got), 0) = <<>> /\ Len(<<>>) = 0
    BY <2>1, RunIs
  <2>3. InOrder'
    BY <1>2, <2>1, <2>2 DEF InOrder, Dies, Live
  <2>4. conn = 0 => state' \in {"IDLE", "CLOSED"} /\ pending = <<>> /\ call' = NoCall
    BY <1>2 DEF Live, States, SInv, ClientShape
  <2> QED
    BY <1>2, <2>3, <2>4 DEF SInv, ClientShape, Dies, Live
<1>4. BeforeRetry' \/ AfterRetry'
  <2>1. CASE BeforeRetry
    BY <1>2, <2>1 DEF BeforeRetry
  <2>2. CASE AfterRetry
    BY <1>2, <2>2 DEF AfterRetry
  <2> QED
    BY <2>1, <2>2 DEF SInv, InPhase
<1>5. ServerTyped' /\ ServerShape'
  BY <1>2, ServerStays DEF SInv, ServerTyped
<1> QED
  BY <1>2, <1>3, <1>4, <1>5, HelloPhase

LEMMA ConnectKeeps ==
    ASSUME SInv, phase = "hello", NEW g \in Groups, Connect(g), TypeOK', Lifecycle',
           UNCHANGED <<serverVars, toClient, broken, told>>
    PROVE  SInv'
<1>1. conn = 0 /\ out = <<>>
  <2>1. conn \in Nat /\ conn < 1
    BY SessionAssumption, ClientAssumption DEF Connect, BeginConnect, SInv, TypeOK
  <2>2. conn = 0
    BY <2>1
  <2> QED
    BY <2>2 DEF SInv, ClientShape
<1>2. BeforeRetry
  BY <1>1 DEF SInv, InPhase, AfterRetry
<1>3. /\ conn' = 1 /\ out' = <<HelloOut(g)>> /\ transcript' = <<EntryOf(HelloMsg(g))>>
      /\ state' = "HANDSHAKING" /\ share' = g /\ buf' = <<>> /\ alpn' = "none"
      /\ call' = [call EXCEPT !.loop = "hello"] /\ pending' = <<>> /\ got' = <<>> /\ accepted' = 0
  BY <1>1 DEF Connect, BeginConnect, FirstHello, HelloOut, HelloMsg, GoTo
<1>4. call'.loop = "hello" /\ ~call'.hadHrr
  BY <1>1, <1>3 DEF SInv, ClientShape, NoCall
<1>5. BeforeRetry'
  <2>1. readUpTo' = 0 /\ srvTranscript' = <<>> /\ toClient' = <<>>
    BY <1>2 DEF BeforeRetry, serverVars
  <2> QED
    BY <1>3, <1>4, <2>1 DEF BeforeRetry, At
<1>6. ClientShape'
  <2>1. Run(0, 0) = <<>> /\ Len(<<>>) = 0
    BY RunIs
  <2>2. InOrder'
    BY <1>3, <2>1 DEF InOrder
  <2>3. told = FALSE
    BY <1>1 DEF SInv, ClientShape, ServerTyped
  <2> QED
    BY <1>3, <2>2, <2>3 DEF ClientShape, Live
<1>7. ServerTyped' /\ ServerShape'
  <2>1. readUpTo \in 0..Len(out')
    BY <1>2, <1>3 DEF BeforeRetry
  <2> QED
    BY <2>1, ServerStays DEF SInv, ServerTyped
<1>8. phase' = "hello"
  BY DEF serverVars
<1> QED
  BY <1>5, <1>6, <1>7, <1>8, HelloPhase

LEMMA ShortSequences ==
    ASSUME NEW S, NEW a \in S, NEW b \in S, NEW c \in S
    PROVE  /\ Append(<<a>>, b) = <<a, b>>
           /\ <<a>> \o <<b, c>> = Append(<<a, b>>, c)
<1> DEFINE one == <<a>>
           two == <<a, b>>
           more == <<b, c>>
<1>1. /\ one \in Seq(S) /\ Len(one) = 1 /\ one[1] = a
      /\ two \in Seq(S) /\ Len(two) = 2 /\ two[1] = a /\ two[2] = b
      /\ more \in Seq(S) /\ Len(more) = 2 /\ more[1] = b /\ more[2] = c
  OBVIOUS
<1> HIDE DEF one, two, more
<1>2. /\ Append(one, b) \in Seq(S) /\ Len(Append(one, b)) = Len(one) + 1
      /\ \A i \in 1..Len(one) : Append(one, b)[i] = one[i]
      /\ Append(one, b)[Len(one) + 1] = b
  <2>1. one \in Seq(S) /\ b \in S
    BY <1>1
  <2> QED
    BY <2>1, AppendProperties
<1>3. Append(one, b) = two
  <2>1. Len(Append(one, b)) = 2 /\ Append(one, b)[1] = a /\ Append(one, b)[2] = b
    BY <1>1, <1>2
  <2> QED
    BY <1>1, <1>2, <2>1, SeqEqual
<1>4. /\ Append(two, c) \in Seq(S) /\ Len(Append(two, c)) = Len(two) + 1
      /\ \A i \in 1..Len(two) : Append(two, c)[i] = two[i]
      /\ Append(two, c)[Len(two) + 1] = c
  <2>1. two \in Seq(S) /\ c \in S
    BY <1>1
  <2> QED
    BY <2>1, AppendProperties
<1>5. /\ one \o more \in Seq(S) /\ Len(one \o more) = Len(one) + Len(more)
      /\ \A i \in 1..(Len(one) + Len(more)) :
            (one \o more)[i] = IF i <= Len(one) THEN one[i] ELSE more[i - Len(one)]
  BY <1>1, ConcatProperties
<1>6. one \o more = Append(two, c)
  <2>1. /\ Len(Append(two, c)) = 3
        /\ Append(two, c)[1] = a /\ Append(two, c)[2] = b /\ Append(two, c)[3] = c
    BY <1>1, <1>4
  <2>2. /\ Len(one \o more) = 3
        /\ (one \o more)[1] = a /\ (one \o more)[2] = b /\ (one \o more)[3] = c
    BY <1>1, <1>5
  <2>3. \A i \in 1..3 : (one \o more)[i] = Append(two, c)[i]
    BY <2>1, <2>2
  <2> QED
    BY <1>4, <1>5, <2>1, <2>2, <2>3, SeqEqual
<1> QED
  BY <1>3, <1>6 DEF one, two, more

LEMMA RetryAccepted ==
    ASSUME SInv, phase = "hello", AtHello
    PROVE  /\ HelloError(First(buf)) = "OK"
           /\ \E g \in Groups \ ServerGroups, s \in ServerGroups :
                /\ readUpTo = 1 /\ First(buf) = RetryMsg(s) /\ toClient = <<>>
                /\ srvTranscript = <<EntryOf(HelloMsg(g)), EntryOf(RetryMsg(s))>>
                /\ out = <<HelloOut(g)>> /\ transcript = <<EntryOf(HelloMsg(g))>> /\ alpn = "none"
<1>1. Live /\ buf # <<>>
  BY DEF SInv, AtHello, At, Complete, Lifecycle, CallsNest, Live
<1>2. PICK g \in Groups \ ServerGroups, s \in ServerGroups :
        /\ readUpTo = 1 /\ out = <<HelloOut(g)>>
        /\ srvTranscript = <<EntryOf(HelloMsg(g)), EntryOf(RetryMsg(s))>>
        /\ ~call.hadHrr /\ share = g /\ transcript = <<EntryOf(HelloMsg(g))>> /\ alpn = "none"
        /\ toClient = <<>> /\ buf = <<Whole(RetryMsg(s))>>
  BY <1>1 DEF SInv, InPhase, BeforeRetry, AfterRetry
<1>3. First(buf) = RetryMsg(s) /\ Rest(buf) = <<>>
  BY <1>2 DEF First, Rest, Whole
<1>4. /\ First(buf).type = "hello_retry_request" /\ First(buf).val = s
      /\ s # share /\ s \in Groups /\ s # "unsupported"
  BY <1>2, <1>3, SessionAssumption, ClientAssumption DEF RetryMsg, Msg
<1>5. HelloError(First(buf)) = "OK"
  BY <1>2, <1>3, <1>4 DEF HelloError
<1> QED
  BY <1>2, <1>3, <1>5

LEMMA RetryKeeps ==
    ASSUME SInv, phase = "hello", HelloRetry(TRUE), TypeOK', Lifecycle',
           UNCHANGED <<serverVars, toClient, broken, told>>
    PROVE  SInv'
<1>1. AtHello /\ state = "HANDSHAKING" /\ conn = 1
  BY DEF HelloRetry, AtHello, At, SInv, Lifecycle, CallsNest, ClientShape, Live
<1>2. PICK g \in Groups \ ServerGroups, s \in ServerGroups :
        /\ readUpTo = 1 /\ First(buf) = RetryMsg(s) /\ toClient = <<>>
        /\ srvTranscript = <<EntryOf(HelloMsg(g)), EntryOf(RetryMsg(s))>>
        /\ out = <<HelloOut(g)>> /\ transcript = <<EntryOf(HelloMsg(g))>> /\ alpn = "none"
  BY <1>1, RetryAccepted
<1>3. First(buf).val = s
  BY <1>2 DEF RetryMsg, Msg
<1>4. ClientHello(s) = HelloMsg(s)
  BY <1>1 DEF ClientHello, HelloMsg
<1>5. /\ buf' = <<>> /\ call' = [call EXCEPT !.hadHrr = TRUE] /\ share' = s
      /\ transcript' = transcript \o <<EntryOf(RetryMsg(s)), EntryOf(HelloMsg(s))>>
      /\ out' = Append(out, HelloOut(s))
      /\ UNCHANGED <<state, keys, conn, alpn, got, pending, accepted>>
  BY <1>2, <1>3, <1>4 DEF HelloRetry, HelloOut, noteVars, dataVars
<1>6. /\ out' = <<HelloOut(g), HelloOut(s)>>
      /\ transcript' = Append(srvTranscript, EntryOf(HelloMsg(s)))
  <2>1. PICK a, b, c, x, y : /\ a = EntryOf(HelloMsg(g)) /\ b = EntryOf(RetryMsg(s))
                             /\ c = EntryOf(HelloMsg(s)) /\ x = HelloOut(g) /\ y = HelloOut(s)
    OBVIOUS
  <2> PICK S : S = {a, b, c, x, y}
    OBVIOUS
  <2> a \in S /\ b \in S /\ c \in S /\ x \in S /\ y \in S
    OBVIOUS
  <2>2. out = <<x>> /\ out' = Append(out, y) /\ srvTranscript = <<a, b>>
        /\ transcript = <<a>> /\ transcript' = transcript \o <<b, c>>
    BY <1>2, <1>5, <2>1
  <2>3. out' = <<x, y>>
    BY <2>2, ShortSequences
  <2>4. transcript' = Append(srvTranscript, c)
    BY <2>2, ShortSequences, ZenonT(40)
  <2> QED
    BY <2>1, <2>3, <2>4
<1>7. call'.loop = "hello" /\ call'.hadHrr
  BY <1>1, <1>5 DEF AtHello, At, SInv, TypeOK, Call
<1>8. AfterRetry'
  <2>1. /\ readUpTo' = 1 /\ toClient' = <<>>
        /\ srvTranscript' = <<EntryOf(HelloMsg(g)), EntryOf(RetryMsg(s))>>
    BY <1>2 DEF serverVars
  <2>2. srvTranscript' = srvTranscript
    BY DEF serverVars
  <2> QED
    BY <1>2, <1>5, <1>6, <1>7, <2>1, <2>2 DEF AfterRetry, At
<1>9. ClientShape'
  <2>1. InOrder'
    BY <1>5, <1>7 DEF SInv, ClientShape, InOrder
  <2> QED
    BY <1>1, <1>5, <2>1 DEF SInv, ClientShape, Live
<1>10. ServerTyped' /\ ServerShape'
  <2>1. readUpTo \in 0..Len(out')
    BY <1>2, <1>6
  <2> QED
    BY <2>1, ServerStays DEF SInv, ServerTyped
<1>11. phase' = "hello"
  BY DEF serverVars
<1> QED
  BY <1>8, <1>9, <1>10, <1>11, HelloPhase

LEMMA RetryReadKeeps ==
    ASSUME SInv, phase = "hello", Reads, TypeOK', Lifecycle'
    PROVE  SInv'
<1>1. Live
  BY DEF Reads, Receive, HelloRecord, FlightRecord, RecvRecord, At, SInv, Lifecycle, CallsNest, Live
<1>2. PICK g \in Groups \ ServerGroups, s \in ServerGroups :
        /\ readUpTo = 1 /\ out = <<HelloOut(g)>> /\ At("hello")
        /\ srvTranscript = <<EntryOf(HelloMsg(g)), EntryOf(RetryMsg(s))>>
        /\ ~call.hadHrr /\ share = g /\ transcript = <<EntryOf(HelloMsg(g))>> /\ alpn = "none"
        /\ toClient = <<RetryOut(s)>> /\ buf = <<>>
  BY <1>1 DEF Reads, SInv, InPhase, BeforeRetry, AfterRetry
<1>3. Head(toClient) = RetryOut(s) /\ Tail(toClient) = <<>>
  BY <1>2
<1>4. PICK r : r = RetryOut(s) /\ HelloRecord(r)
  <2>1. Receive(RetryOut(s))
    BY <1>3 DEF Reads
  <2> QED
    BY <1>2, <2>1 DEF Receive, FlightRecord, RecvRecord, At
<1>5. r.outer = "handshake" /\ r.hs = <<Whole(RetryMsg(s))>>
  BY <1>4, RecordsAre DEF RetryOut
<1>6. Fits(buf, r.hs) /\ buf \o r.hs = <<Whole(RetryMsg(s))>>
  BY <1>2, <1>5, SessionAssumption, ClientAssumption DEF Fits
<1>7. /\ buf' = <<Whole(RetryMsg(s))>>
      /\ UNCHANGED <<state, call, conn, keys, share, alpn, transcript, authentic, got, pending,
                     accepted, out>>
  BY <1>4, <1>5, <1>6 DEF HelloRecord, ownVars, dataVars
<1>8. toClient' = <<>> /\ UNCHANGED <<serverVars, broken>> /\ told' = told
  BY <1>3, <1>7 DEF Reads, SInv, ServerTyped
<1>9. AfterRetry'
  <2>1. /\ readUpTo' = 1
        /\ srvTranscript' = <<EntryOf(HelloMsg(g)), EntryOf(RetryMsg(s))>>
    BY <1>2, <1>8 DEF serverVars
  <2> QED
    BY <1>2, <1>7, <1>8, <2>1 DEF AfterRetry, At
<1>10. ClientShape'
  <2>1. InOrder'
    BY <1>7 DEF SInv, ClientShape, InOrder
  <2> QED
    BY <1>7, <1>8, <2>1 DEF SInv, ClientShape, Live
<1>11. ServerTyped' /\ ServerShape'
  <2>1. readUpTo \in 0..Len(out') /\ toClient' \in Seq(Record)
    BY <1>2, <1>7, <1>8, EmptySeq
  <2> QED
    BY <1>8, <2>1, ServerStays DEF SInv, ServerTyped
<1>12. phase' = "hello"
  BY <1>8 DEF serverVars
<1> QED
  BY <1>9, <1>10, <1>11, <1>12, HelloPhase

LEMMA HelloKeeps ==
    ASSUME SInv, ClientSteps, phase = "hello", TypeOK', Lifecycle'
    PROVE  SInv'
<1>1. Live => At("hello") /\ conn = 1
  BY DEF SInv, InPhase, BeforeRetry, AfterRetry, ClientShape, Live
<1>2. CASE Calls
  <2>1. UNCHANGED <<serverVars, toClient, broken, told>> /\ (ClientCall \/ ClientRecv)
    BY <1>2 DEF Calls
  <2>2. ~Live
    BY <1>1, <2>1 DEF ClientCall, ClientRecv, Connect, BeginConnect, Send, KeyUpdate, Close, Reset,
       RecvPending, RecvStart, At
  <2>3. \/ \E g \in Groups : Connect(g)
        \/ (\E ok \in BOOLEAN : Close(ok)) \/ Reset
    BY <2>1, <2>2 DEF ClientCall, ClientRecv, Send, KeyUpdate, RecvPending, RecvStart, Live
  <2>4. ASSUME (\E ok \in BOOLEAN : Close(ok)) \/ Reset
        PROVE  Dies /\ state' # "FAILED" /\ call' = call
    <3>1. CASE \E ok \in BOOLEAN : Close(ok)
      BY <3>1 DEF Close, Dies, Live, At, ownVars, noteVars, dataVars
    <3>2. CASE Reset
      BY <3>2 DEF Reset, Dies, Live, At
    <3> QED
      BY <2>4, <3>1, <3>2
  <2> QED
    BY <2>1, <2>3, <2>4, ConnectKeeps, HelloDies
<1>3. CASE Runs
  <2>1. UNCHANGED <<serverVars, toClient, broken, told>> /\ ClientLocalStep
    BY <1>3 DEF Runs
  <2>2. Live
    BY <2>1 DEF ClientLocalStep, HelloRejected, HelloRetry, ServerHello, AtHello, FlightRejected,
      EncryptedExtensions, Certificate, CertificateVerify, Finished, AtFlight, PostDone, AtPost,
      NewSessionTicket, PostRejected, PeerKeyUpdate, PeerKeyUpdateRequested, PeerKeyUpdateFails,
      AtKeyUpdate, SendChunk, SendDone, At, SInv, Lifecycle, CallsNest, Live
  <2>3. \/ HelloRejected \/ ServerHello
        \/ \E ok \in BOOLEAN : Reliable(ok) /\ HelloRetry(ok)
    BY <1>1, <2>1, <2>2 DEF ClientLocalStep, FlightRejected,
      EncryptedExtensions, Certificate, CertificateVerify, Finished, AtFlight, PostDone, AtPost,
      NewSessionTicket, PostRejected, PeerKeyUpdate, PeerKeyUpdateRequested, PeerKeyUpdateFails,
      AtKeyUpdate, SendChunk, SendDone, At
  <2>4. ~HelloRejected /\ ~ServerHello
    <3>1. ASSUME AtHello
          PROVE  HelloError(First(buf)) = "OK" /\ First(buf).type = "hello_retry_request"
      <4>1. PICK s \in ServerGroups : First(buf) = RetryMsg(s)
        BY <3>1, RetryAccepted
      <4>2. First(buf).type = "hello_retry_request"
        BY <4>1 DEF RetryMsg, Msg
      <4> QED
        BY <3>1, <4>2, RetryAccepted
    <3> QED
      BY <3>1 DEF HelloRejected, ServerHello
  <2>5. HelloRetry(TRUE) \/ (broken /\ HelloRetry(FALSE))
    <3>1. PICK ok \in BOOLEAN : Reliable(ok) /\ HelloRetry(ok)
      BY <2>3, <2>4
    <3>2. CASE ok = TRUE
      BY <3>1, <3>2
    <3>3. CASE ok = FALSE
      BY <3>1, <3>3 DEF Reliable
    <3> QED
      BY <3>2, <3>3
  <2>6. broken /\ HelloRetry(FALSE) => Dies
    BY ErrorsTyped, FailDies DEF HelloRetry, FailWith, noteVars, dataVars
  <2>7. CASE HelloRetry(TRUE)
    BY <2>1, <2>7, RetryKeeps
  <2>8. CASE broken /\ HelloRetry(FALSE)
    BY <1>1, <2>1, <2>2, <2>6, <2>8, HelloDies
  <2> QED
    BY <2>5, <2>7, <2>8
<1>4. CASE Reads
  BY <1>4, RetryReadKeeps
<1>5. CASE ReadsNothing
  <2>1. Dies /\ UNCHANGED <<serverVars, toClient, broken, told>>
    BY <1>5, FailDies DEF ReadsNothing, ReadFails, noteVars
  <2>2. Live
    BY <1>5 DEF ReadsNothing, ReadFails, SInv, Lifecycle, CallsNest, Live
  <2> QED
    BY <1>1, <2>1, <2>2, HelloDies
<1> QED
  BY <1>2, <1>3, <1>4, <1>5 DEF ClientSteps

-----------------------------------------------------------------------------
(* The server's steps *)

\* A step of the server leaves the client and the streams alone.
Rests == UNCHANGED <<vars, broken, told>>

LEMMA ClientRests ==
    ASSUME Rests
    PROVE  /\ ClientShape => ClientShape'
           /\ (TypeOK => TypeOK') /\ (Lifecycle => Lifecycle')
           /\ (Live <=> Live') /\ state' = state /\ conn' = conn /\ out' = out /\ keys' = keys
           /\ accepted' = accepted /\ told' = told /\ broken' = broken
           /\ call' = call /\ transcript' = transcript /\ share' = share /\ alpn' = alpn
           /\ buf' = buf /\ authentic' = authentic /\ got' = got /\ pending' = pending
<1> USE DEF Rests, vars, ownVars, handshakeVars, dataVars, noteVars
<1>1. /\ (Live <=> Live') /\ state' = state /\ conn' = conn /\ out' = out /\ keys' = keys
      /\ accepted' = accepted /\ told' = told /\ broken' = broken
      /\ call' = call /\ transcript' = transcript /\ share' = share /\ alpn' = alpn
      /\ buf' = buf /\ authentic' = authentic /\ got' = got /\ pending' = pending
  BY DEF Live
<1>2. ClientShape => ClientShape'
  BY <1>1 DEF ClientShape, InOrder
<1>3. TypeOK => TypeOK'
  BY DEF TypeOK
<1>4. Lifecycle => Lifecycle'
  BY DEF Lifecycle, CallsNest, SecretsWiped, Live
<1> QED
  BY <1>1, <1>2, <1>3, <1>4

LEMMA ClientStandsStill ==
    ASSUME Rests, NEW th, NEW n, NEW v, ClientAt(th, n, v)
    PROVE  ClientAt(th, n, v)'
<1>1. /\ state' = state /\ keys' = keys /\ call' = call /\ transcript' = transcript
      /\ share' = share /\ alpn' = alpn /\ buf' = buf /\ authentic' = authentic
      /\ got' = got /\ pending' = pending
  BY ClientRests
<1>2. AwaitsHello(th, n, v) => AwaitsHello(th, n, v)'
  BY <1>1 DEF AwaitsHello, Checked, At
<1>3. InFlight(th, n, v) => InFlight(th, n, v)'
  BY <1>1 DEF InFlight, Checked, At
<1>4. IsConnected(th, n, v) => IsConnected(th, n, v)'
  BY <1>1 DEF IsConnected, Checked, At
<1> QED
  BY <1>1, <1>2, <1>3, <1>4 DEF ClientAt

\* What the client has read and checked does not depend on what the server hashes next.
LEMMA ClientAtGrows ==
    ASSUME TypeOK, NEW th \in Seq(Entry), NEW e \in Entry, NEW n \in 1..Len(th),
           NEW v \in Stage, ClientAt(th, n, v)
    PROVE  ClientAt(Append(th, e), n, v)
<1> DEFINE more == Append(th, e)
<1>1. PICK k \in Nat : k = Len(th)
  BY LenProperties
<1>2. /\ Len(more) = k + 1 /\ n \in 1..k /\ n \in Nat
      /\ \A i \in 1..k : more[i] = th[i]
      /\ \A i \in 0..k : SubSeq(more, 1, i) = SubSeq(th, 1, i)
  BY <1>1, BeginningsKept
<1>3. /\ ThroughHello(more, n) = ThroughHello(th, n)
      /\ ServerHelloOf(more, n) = ServerHelloOf(th, n)
      /\ n + 4 <= k => /\ ThroughFlight(more, n) = ThroughFlight(th, n)
                       /\ WithClientFinished(more, n) = WithClientFinished(th, n)
  BY <1>1, NamedBeginningsGrow
<1>4. \A fs, a, b : Spans(th, n, fs, a, b) => Spans(more, n, fs, a, b)
  BY SpansGrows
<1> HIDE DEF more
<1>5. ASSUME NEW q \in 0..4, n + q <= k, Checked(th, n, q)
      PROVE  Checked(more, n, q)
  <2>1. more[n] = th[n] /\ (q # 0 => more[n + 1] = th[n + 1])
    BY <1>2, <1>5
  <2> QED
    BY <1>5, <2>1 DEF Checked
<1>6. CASE AwaitsHello(th, n, v)
  <2>1. n - 1 \in 0..k /\ n + 0 <= k
    BY <1>2
  <2>2. Checked(more, n, 0) /\ SubSeq(more, 1, n - 1) = SubSeq(th, 1, n - 1)
    BY <1>2, <1>5, <1>6, <2>1 DEF AwaitsHello
  <2>3. AwaitsHello(more, n, v)
    BY <1>3, <1>6, <2>2 DEF AwaitsHello
  <2> QED
    BY <2>3 DEF ClientAt, more
<1>7. CASE InFlight(th, n, v)
  <2>1. PICK q \in 0..3 :
          /\ n + q <= k /\ transcript = SubSeq(th, 1, n + q) /\ Checked(th, n, q)
          /\ Spans(th, n, buf, 2 * q, v.pos)
    BY <1>1, <1>7 DEF InFlight
  <2>2. n + q \in 0..k /\ q \in 0..4
    BY <1>2, <2>1
  <2>3. /\ n + q <= Len(more) /\ transcript = SubSeq(more, 1, n + q) /\ Checked(more, n, q)
        /\ Spans(more, n, buf, 2 * q, v.pos)
    BY <1>2, <1>4, <1>5, <2>1, <2>2
  <2>4. v.pos = 8 => n + 4 <= k
    <3>1. v.pos = 8 => buf # <<>>
      BY <2>1 DEF Spans
    <3> QED
      BY <1>1, <1>2, <2>1, <3>1, SpansEnd DEF TypeOK, Stage
  <2>5. InFlight(more, n, v)
    BY <1>3, <1>7, <2>3, <2>4 DEF InFlight
  <2> QED
    BY <2>5 DEF ClientAt, more
<1>8. CASE IsConnected(th, n, v)
  <2>1. n + 4 <= k /\ n + 4 <= Len(more)
    BY <1>1, <1>2, <1>8 DEF IsConnected
  <2>2. Checked(more, n, 4)
    BY <1>5, <1>8, <2>1 DEF IsConnected
  <2>3. IsConnected(more, n, v)
    BY <1>3, <1>8, <2>1, <2>2 DEF IsConnected
  <2> QED
    BY <2>3 DEF ClientAt, more
<1> QED
  BY <1>6, <1>7, <1>8 DEF ClientAt

\* The server's transcript stays or has one more message, and ServerHello stays where it is.
HashesOn == /\ HelloEnd' = HelloEnd
            /\ \/ srvTranscript' = srvTranscript
               \/ \E e \in Entry : srvTranscript' = Append(srvTranscript, e)

LEMMA PathsGrow ==
    ASSUME TypeOK, srvTranscript \in Seq(Entry), HelloEnd \in 1..Len(srvTranscript), Rests, HashesOn
    PROVE  /\ \A v \in Stage : ClientAt(srvTranscript, HelloEnd, v)
                                 => ClientAt(srvTranscript, HelloEnd, v)'
           /\ \A r, a, b : Sends(srvTranscript, HelloEnd, r, a, b)
                                 => Sends(srvTranscript, HelloEnd, r, a, b)'
           /\ \A r : \A a, b \in Stage : Carries(srvTranscript, HelloEnd, r, a, b)
                                 => Carries(srvTranscript, HelloEnd, r, a, b)'
<1>n. PICK n : n = HelloEnd
  OBVIOUS
<1>1. PICK th \in Seq(Entry) : th = srvTranscript /\ n = HelloEnd /\ n \in 1..Len(th)
  BY <1>n
<1>2. PICK tt : tt = srvTranscript'
  OBVIOUS
<1>3. HelloEnd' = n /\ (tt = th \/ \E e \in Entry : tt = Append(th, e))
  BY <1>1, <1>2 DEF HashesOn
<1>4. \A v \in Stage : ClientAt(th, n, v) => ClientAt(tt, n, v)
  BY <1>1, <1>3, ClientAtGrows
<1>5. \A v : ClientAt(tt, n, v) => ClientAt(tt, n, v)'
  BY ClientStandsStill
<1>6. \A r, a, b : Sends(th, n, r, a, b) => Sends(tt, n, r, a, b)
  BY <1>1, <1>3, SendsGrows
<1>7. \A r : \A a, b \in Stage : Carries(th, n, r, a, b) => Carries(tt, n, r, a, b)
  BY <1>1, <1>3, CarriesGrows
<1>8. \A v \in Stage : ClientAt(srvTranscript, HelloEnd, v) => ClientAt(srvTranscript, HelloEnd, v)'
  <2>1. ASSUME NEW v \in Stage, ClientAt(srvTranscript, HelloEnd, v)
        PROVE  ClientAt(tt, n, v)'
    BY <1>1, <1>4, <1>5, <2>1
  <2> QED
    BY <1>2, <1>3, <2>1
<1>9. \A r, a, b : Sends(srvTranscript, HelloEnd, r, a, b) => Sends(srvTranscript, HelloEnd, r, a, b)'
  BY <1>1, <1>2, <1>3, <1>6
<1>10. \A r : \A a, b \in Stage :
          Carries(srvTranscript, HelloEnd, r, a, b) => Carries(srvTranscript, HelloEnd, r, a, b)'
  BY <1>1, <1>2, <1>3, <1>7
<1> QED
  BY <1>8, <1>9, <1>10

LEMMA StageOKStays ==
    ASSUME phase' = "flight" => phase = "flight",
           \/ UNCHANGED <<srvSent, srvEnded>>
           \/ ~srvEnded /\ Len(srvSent) \in Nat /\ Len(srvSent') \in Nat /\ Len(srvSent) <= Len(srvSent'),
           NEW s \in Stage, StageOK(s)
    PROVE  StageOK(s)'
  BY DEF StageOK, Stage

\* The server neither sends to the client nor changes how far it is with the stream.
LEMMA ToClientHolds ==
    ASSUME TypeOK, srvTranscript \in Seq(Entry), HelloEnd \in 1..Len(srvTranscript), Rests, HashesOn,
           toClient' = toClient, toClient \in Seq(Record),
           \A s \in Stage : StageOK(s) => StageOK(s)',
           NEW g \in [Nat -> Stage], PathToClient(g), ServerAt(g[Len(toClient)])'
    PROVE  PathToClient(g)'
<1>1. PICK k \in Nat : k = Len(toClient)
  BY LenProperties
<1>2. /\ \A i \in 0..k : i \in Nat /\ g[i] \in Stage
      /\ \A i \in 1..k : i - 1 \in 0..k /\ i \in 0..k
  OBVIOUS
<1>3. ClientAt(srvTranscript, HelloEnd, g[0])'
  BY <1>1, <1>2, PathsGrow DEF PathToClient
<1>4. (\A i \in 0..Len(toClient) : StageOK(g[i]))'
  <2>1. ASSUME NEW i \in 0..k PROVE StageOK(g[i])'
    BY <1>1, <1>2 DEF PathToClient
  <2> QED
    BY <1>1, <2>1
<1>5. (\A i \in 1..Len(toClient) : Carries(srvTranscript, HelloEnd, toClient[i], g[i - 1], g[i]))'
  <2>1. ASSUME NEW i \in 1..k
        PROVE  Carries(srvTranscript, HelloEnd, toClient[i], g[i - 1], g[i])'
    <3>1. /\ g[i] \in Stage /\ g[i - 1] \in Stage
          /\ Carries(srvTranscript, HelloEnd, toClient[i], g[i - 1], g[i])
      BY <1>1, <1>2 DEF PathToClient
    <3>2. PICK r : r = toClient[i] /\ r = toClient'[i]
      OBVIOUS
    <3>3. Carries(srvTranscript, HelloEnd, r, g[i - 1], g[i])'
      BY <3>1, <3>2, PathsGrow
    <3> QED
      BY <3>2, <3>3
  <2> QED
    BY <1>1, <2>1
<1> QED
  BY <1>3, <1>4, <1>5 DEF PathToClient

\* The server sends a record.
LEMMA ToClientExtends ==
    ASSUME TypeOK, srvTranscript \in Seq(Entry), HelloEnd \in 1..Len(srvTranscript), Rests, HashesOn,
           NEW r \in Record, toClient' = Append(toClient, r), toClient \in Seq(Record),
           \A s \in Stage : StageOK(s) => StageOK(s)',
           NEW g \in [Nat -> Stage], PathToClient(g),
           NEW b \in Stage, Carries(srvTranscript, HelloEnd, r, g[Len(toClient)], b),
           ServerAt(b)', StageOK(b)'
    PROVE  \E h \in [Nat -> Stage] : PathToClient(h)'
<1>1. PICK k \in Nat : k = Len(toClient)
  BY LenProperties
<1> DEFINE h == [g EXCEPT ![k + 1] = b]
<1>2. /\ h \in [Nat -> Stage] /\ h[k + 1] = b
      /\ \A i \in 0..k : h[i] = g[i] /\ g[i] \in Stage
      /\ h[0] = g[0]
  OBVIOUS
<1> HIDE DEF h
<1>3. /\ Len(toClient') = k + 1 /\ toClient'[k + 1] = r
      /\ \A i \in 1..k : toClient'[i] = toClient[i]
  BY <1>1, AppendProperties
<1>4. ClientAt(srvTranscript, HelloEnd, h[0])'
  BY <1>1, <1>2, PathsGrow DEF PathToClient
<1>5. ServerAt(h[Len(toClient)])'
  BY <1>2, <1>3
<1>6. (\A i \in 0..Len(toClient) : StageOK(h[i]))'
  <2>1. ASSUME NEW i \in 0..(k + 1) PROVE StageOK(h[i])'
    <3>1. CASE i = k + 1
      BY <1>2, <3>1
    <3>2. CASE i # k + 1
      <4>1. i \in 0..k /\ h[i] = g[i] /\ g[i] \in Stage
        BY <1>2, <3>2
      <4>2. StageOK(g[i])
        BY <1>1, <4>1 DEF PathToClient
      <4> QED
        BY <4>1, <4>2
    <3> QED
      BY <3>1, <3>2
  <2> QED
    BY <1>3, <2>1
<1>7. (\A i \in 1..Len(toClient) : Carries(srvTranscript, HelloEnd, toClient[i], h[i - 1], h[i]))'
  <2>1. ASSUME NEW i \in 1..(k + 1)
        PROVE  Carries(srvTranscript, HelloEnd, toClient[i], h[i - 1], h[i])'
    <3>1. CASE i = k + 1
      <4>1. toClient'[i] = r /\ h[i - 1] = g[k] /\ h[i] = b /\ g[k] \in Stage
        BY <1>2, <1>3, <3>1
      <4>2. Carries(srvTranscript, HelloEnd, r, g[k], b)'
        BY <1>1, <4>1, PathsGrow
      <4> QED
        BY <4>1, <4>2
    <3>2. CASE i # k + 1
      <4>1. i \in 1..k /\ i \in 0..k /\ i - 1 \in 0..k
        BY <3>2
      <4>2. PICK q : q = toClient[i] /\ q = toClient'[i]
        BY <1>3, <4>1
      <4>3. h[i - 1] = g[i - 1] /\ h[i] = g[i] /\ g[i - 1] \in Stage /\ g[i] \in Stage
        BY <1>2, <4>1
      <4>4. Carries(srvTranscript, HelloEnd, q, g[i - 1], g[i])
        BY <1>1, <4>1, <4>2 DEF PathToClient
      <4>5. Carries(srvTranscript, HelloEnd, q, g[i - 1], g[i])'
        BY <4>3, <4>4, PathsGrow
      <4> QED
        BY <4>2, <4>3, <4>5
    <3> QED
      BY <3>1, <3>2
  <2> QED
    BY <1>3, <2>1
<1> QED
  BY <1>2, <1>4, <1>5, <1>6, <1>7 DEF PathToClient

\* The server reads on, or not at all.
LEMMA ToServerReads ==
    ASSUME TypeOK, srvTranscript \in Seq(Entry), HelloEnd \in 1..Len(srvTranscript), Rests, HashesOn,
           srvKeys'["client_hs"] = srvKeys["client_hs"],
           readUpTo \in Nat, readUpTo' \in Nat, readUpTo <= readUpTo',
           NEW g \in [Nat -> WriteStage], PathToServer(g), ServerReadsAt(g[readUpTo])'
    PROVE  PathToServer(g)'
<1>1. PICK u \in Nat, w \in Nat, k \in Nat : u = readUpTo /\ w = readUpTo' /\ k = Len(out) /\ u <= w
  BY LenProperties DEF TypeOK
<1>2. /\ out' = out /\ (Live <=> Live') /\ state' = state /\ keys' = keys /\ accepted' = accepted
  BY ClientRests
<1>3. (Live => ClientWritesAt(g[Len(out)]))'
  BY <1>2 DEF PathToServer, ClientWritesAt
<1>4. (\A i \in readUpTo..Len(out) : WriteStageOK(g[i]))'
  <2>1. ASSUME NEW i \in w..k PROVE WriteStageOK(g[i])
    <3>1. i \in u..k
      BY <1>1
    <3> QED
      BY <1>1, <3>1 DEF PathToServer
  <2>2. \A s : WriteStageOK(s) => WriteStageOK(s)'
    BY <1>2 DEF WriteStageOK
  <2> QED
    BY <1>1, <1>2, <2>1, <2>2
<1>5. (\A i \in (readUpTo + 1)..Len(out) : Sends(srvTranscript, HelloEnd, out[i], g[i - 1], g[i]))'
  <2>1. ASSUME NEW i \in (w + 1)..k
        PROVE  Sends(srvTranscript, HelloEnd, out[i], g[i - 1], g[i])'
    <3>1. i \in (u + 1)..k
      BY <1>1
    <3>2. PICK r : r = out[i] /\ r = out'[i]
      BY <1>2
    <3>3. Sends(srvTranscript, HelloEnd, r, g[i - 1], g[i])
      BY <1>1, <3>1, <3>2 DEF PathToServer
    <3>4. Sends(srvTranscript, HelloEnd, r, g[i - 1], g[i])'
      BY <3>3, PathsGrow
    <3> QED
      BY <3>2, <3>4
  <2> QED
    BY <1>1, <1>2, <2>1
<1> QED
  BY <1>3, <1>4, <1>5 DEF PathToServer

LEMMA BreakKeeps ==
    ASSUME SInv, StreamBreaks \/ UNCHANGED sessionVars
    PROVE  SInv'
<1>1. UNCHANGED <<vars, serverVars, toClient, told>> /\ (broken' = broken \/ broken' = TRUE)
  BY DEF StreamBreaks, sessionVars
<1> USE DEF vars, ownVars, handshakeVars, dataVars, noteVars, serverVars
<1>2. TypeOK' /\ Lifecycle'
  BY <1>1 DEF SInv, TypeOK, Lifecycle, CallsNest, SecretsWiped, Live
<1>3. ClientShape'
  BY <1>1 DEF SInv, ClientShape, InOrder, Live
<1>4. ServerTyped'
  BY <1>1 DEF SInv, ServerTyped
<1>5. ServerShape' /\ HelloEnd' = HelloEnd
  BY <1>1 DEF SInv, ServerShape, HelloEnd
<1>6. InPhase'
  BY <1>1 DEF SInv, InPhase, BeforeRetry, AfterRetry, At, Live
<1>7. ToClient'
  <2>1. \A th, n, v : ClientAt(th, n, v) => ClientAt(th, n, v)'
    BY <1>1 DEF ClientAt, AwaitsHello, InFlight, IsConnected, Checked, At
  <2>2. ASSUME NEW g, PathToClient(g) PROVE PathToClient(g)'
    BY <1>1, <1>5, <2>1, <2>2 DEF PathToClient, ServerAt, StageOK
  <2> QED
    BY <1>1, <2>2 DEF SInv, ToClient, Live
<1>8. ToServer'
  <2>1. ASSUME NEW g, PathToServer(g) PROVE PathToServer(g)'
    BY <1>1, <1>5, <2>1 DEF PathToServer, ServerReadsAt, ClientWritesAt, WriteStageOK, Live
  <2> QED
    BY <1>1, <2>1 DEF SInv, ToServer
<1> QED
  BY <1>2, <1>3, <1>4, <1>5, <1>6, <1>7, <1>8 DEF SInv

LEMMA HashesNothing ==
    ASSUME SInv, phase # "hello", srvTranscript' = srvTranscript,
           srvKeys'["server_hs"].th = srvKeys["server_hs"].th
    PROVE  /\ HashesOn /\ srvTranscript \in Seq(Entry)
           /\ HelloEnd \in 1..Len(srvTranscript) /\ toClient \in Seq(Record)
           /\ readUpTo \in Nat /\ readUpTo <= Len(out) /\ Len(out) \in Nat
  BY LenProperties DEF SInv, TypeOK, ServerTyped, ServerShape, HashesOn, HelloEnd

\* One record under the server's application key.
LEMMA WriteKeeps ==
    ASSUME SInv, MayWrite, NEW r \in Record, NEW next \in Key, Writes(r, next),
           next.label = "server_app", owes' \in BOOLEAN, srvEnded' \in BOOLEAN,
           srvSent' \in Seq(Nat), srvSent' = Run(0, Len(srvSent')), Len(srvSent) <= Len(srvSent'),
           \A a \in Stage :
              a.key = srvKeys["server_app"] /\ a.key.label = "server_app"
              /\ a.pos = 8 /\ a.data = Len(srvSent) /\ ~a.ended
              => \E b \in Stage : /\ Carries(srvTranscript, HelloEnd, r, a, b)
                                  /\ b.key = next /\ b.pos = 8
                                  /\ b.data = Len(srvSent') /\ b.ended = srvEnded'
    PROVE  SInv'
<1>1. /\ Rests /\ phase' = phase /\ srvTranscript' = srvTranscript /\ left' = left /\ held' = held
      /\ srvGot' = srvGot /\ readUpTo' = readUpTo /\ toClient' = Append(toClient, r)
      /\ srvKeys' = [srvKeys EXCEPT !["server_app"] = next]
      /\ phase \in {"finished", "connected"} /\ ~srvEnded
  BY DEF Writes, MayWrite, Rests
<1>2. /\ srvKeys' \in [Slots -> Key] /\ srvKeys'["server_app"] = next
      /\ \A s \in {"client_hs", "server_hs", "client_app"} : srvKeys'[s] = srvKeys[s]
  BY <1>1 DEF SInv, ServerTyped, Slots
<1>3. HelloEnd' = HelloEnd
  BY <1>2 DEF HelloEnd
<1>4. /\ HashesOn /\ srvTranscript \in Seq(Entry)
      /\ HelloEnd \in 1..Len(srvTranscript) /\ toClient \in Seq(Record)
      /\ readUpTo \in Nat /\ readUpTo <= Len(out) /\ Len(out) \in Nat
  BY <1>1, <1>2, HashesNothing
<1>5. TypeOK' /\ Lifecycle' /\ ClientShape'
  BY <1>1, ClientRests DEF SInv
<1>6. toClient' \in Seq(Record)
  BY <1>1, <1>4, AppendProperties
<1>7. ServerTyped'
  BY <1>1, <1>2, <1>6, ClientRests DEF SInv, ServerTyped
<1>8. ServerShape'
  BY <1>1, <1>2, <1>3 DEF SInv, ServerShape
<1>9. InPhase'
  BY <1>1, ClientRests DEF SInv, InPhase
<1>10. ToClient'
  <2> SUFFICES ASSUME Live' PROVE \E h \in [Nat -> Stage] : PathToClient(h)'
    BY DEF ToClient
  <2>1. PICK g \in [Nat -> Stage] : PathToClient(g)
    BY <1>1, ClientRests DEF SInv, ToClient
  <2>2. PICK a \in Stage : a = g[Len(toClient)]
    BY <1>4, LenProperties
  <2>3. /\ a.key = srvKeys["server_app"] /\ a.pos = 8 /\ a.data = Len(srvSent) /\ ~a.ended
        /\ a.key.label = "server_app"
    BY <1>1, <2>1, <2>2 DEF PathToClient, ServerAt, SInv, ServerShape
  <2>4. PICK b \in Stage : /\ Carries(srvTranscript, HelloEnd, r, a, b)
                           /\ b.key = next /\ b.pos = 8
                           /\ b.data = Len(srvSent') /\ b.ended = srvEnded'
    BY <2>3
  <2>5. ServerAt(b)'
    BY <1>1, <1>2, <2>4 DEF ServerAt
  <2>6. StageOK(b)'
    BY <1>1, <2>4 DEF StageOK, Stage
  <2>7. \A s \in Stage : StageOK(s) => StageOK(s)'
    <3>1. Len(srvSent) \in Nat /\ Len(srvSent') \in Nat
      BY LenProperties DEF SInv, ServerTyped
    <3> QED
      BY <1>1, <3>1, StageOKStays
  <2>8. Carries(srvTranscript, HelloEnd, r, g[Len(toClient)], b)
    BY <2>2, <2>4
  <2> QED
    BY <1>1, <1>4, <2>1, <2>4, <2>5, <2>6, <2>7, <2>8, ToClientExtends DEF SInv
<1>11. ToServer'
  <2>1. ASSUME phase' \in {"flight", "finished", "connected"}
        PROVE  \E g \in [Nat -> WriteStage] : PathToServer(g)'
    <3>1. PICK g \in [Nat -> WriteStage] : PathToServer(g)
      BY <1>1, <2>1 DEF SInv, ToServer
    <3>2. ServerReadsAt(g[readUpTo])'
      BY <1>1, <1>2, <3>1 DEF PathToServer, ServerReadsAt
    <3>3. /\ readUpTo \in Nat /\ readUpTo' \in Nat /\ readUpTo <= readUpTo'
          /\ srvKeys'["client_hs"] = srvKeys["client_hs"] /\ TypeOK
      BY <1>1, <1>2, <1>4 DEF SInv
    <3>4. PathToServer(g)'
      BY <1>1, <1>4, <3>1, <3>2, <3>3, ToServerReads
    <3> QED
      BY <3>4
  <2> QED
    BY <2>1 DEF ToServer
<1> QED
  BY <1>5, <1>7, <1>8, <1>9, <1>10, <1>11 DEF SInv

\* What the server may write when it has its application keys.
LEMMA WishKeeps ==
    ASSUME SInv, ServerData \/ ServerTicket \/ ServerCloses \/ ServerAnswers
                 \/ \E request \in BOOLEAN : ServerUpdates(request)
    PROVE  SInv'
<1> DEFINE k == srvKeys["server_app"]
<1>1. /\ k \in Key /\ srvSent \in Seq(Nat) /\ srvSent = Run(0, Len(srvSent)) /\ Len(srvSent) \in Nat
      /\ owes \in BOOLEAN /\ srvEnded \in BOOLEAN
  BY LenProperties DEF SInv, ServerTyped, Slots
<1>2. MayWrite /\ k.label = "server_app" /\ ~srvEnded
  BY DEF ServerData, ServerTicket, ServerCloses, ServerAnswers, ServerUpdates, MayWrite,
     SInv, ServerShape
<1> HIDE DEF k
<1>3. /\ AfterRecord(k) \in Key /\ AfterUpdate(k) \in Key
      /\ AfterRecord(k).label = "server_app" /\ AfterUpdate(k).label = "server_app"
  <2>1. k.gen + 1 \in Nat /\ k.seq + 1 \in Nat /\ 0 \in Nat
    BY <1>1 DEF Key
  <2>2. AfterRecord(k) \in Key /\ AfterUpdate(k) \in Key
    BY <1>1, <2>1 DEF Key, AfterRecord, AfterUpdate
  <2> QED
    BY <1>1, <1>2, <2>2, LabelsAre
<1>4. CASE ServerData
  <2>1. PICK n \in 1..(MaxUnits - Len(srvSent)) :
          LET d == [i \in 1..n |-> Len(srvSent) + i] IN
          Writes(ProtectedData(k, d), AfterRecord(k)) /\ srvSent' = srvSent \o d
    BY <1>4 DEF ServerData, k
  <2>2. PICK l \in Nat, m \in Nat : l = Len(srvSent) /\ m = n /\ m # 0
    BY <1>1, ClientAssumption
  <2>3. PICK d : d = Run(l, m)
    OBVIOUS
  <2>4. Writes(ProtectedData(k, d), AfterRecord(k)) /\ srvSent' = srvSent \o d
    BY <2>1, <2>2, <2>3 DEF Run
  <2>5. srvSent' = Run(0, l + m) /\ Len(srvSent') = l + m /\ srvSent' \in Seq(Nat)
    <3>1. srvSent = Run(0, l) /\ 0 + l = l /\ 0 \in Nat /\ l + m \in Nat
      BY <1>1, <2>2
    <3>2. Run(0, l) \o Run(0 + l, m) = Run(0, l + m)
      BY <3>1, RunsJoin
    <3>3. srvSent' = Run(0, l + m)
      BY <2>3, <2>4, <3>1, <3>2
    <3> QED
      BY <3>1, <3>3, RunIs
  <2>6. d \in Seq(Nat) /\ ProtectedData(k, d) \in Record
    BY <1>1, <2>3, RunIs, RecordTyped
  <2>7. ASSUME NEW a \in Stage, a.key = k, a.key.label = "server_app",
               a.pos = 8, a.data = l, ~a.ended
        PROVE  \E b \in Stage : /\ Carries(srvTranscript, HelloEnd, ProtectedData(k, d), a, b)
                                /\ b.key = AfterRecord(k) /\ b.pos = 8
                                /\ b.data = l + m /\ b.ended = srvEnded
    <3> DEFINE b == [a EXCEPT !.key = AfterRecord(@), !.data = @ + m]
    <3>1. l + m \in Nat
      OBVIOUS
    <3>2. /\ b \in Stage /\ b.key = AfterRecord(k) /\ b.pos = 8 /\ b.data = l + m /\ ~b.ended
      BY <1>3, <2>7, <3>1 DEF Stage
    <3>3. CarriesData(ProtectedData(k, d), a, b)
      BY <2>2, <2>3, <2>7 DEF CarriesData
    <3> HIDE DEF b
    <3>4. Carries(srvTranscript, HelloEnd, ProtectedData(k, d), a, b)
      BY <2>7, <3>3 DEF Carries
    <3>5. b.ended = srvEnded
      BY <1>1, <1>2, <3>2 DEF Stage
    <3> QED
      BY <3>2, <3>4, <3>5
  <2>8. owes' = owes /\ srvEnded' = srvEnded /\ l <= l + m
    BY <1>4 DEF ServerData
  <2>9. PICK r \in Record : r = ProtectedData(k, d)
    BY <2>6
  <2>10. Writes(r, AfterRecord(k)) /\ Len(srvSent) <= Len(srvSent') /\ srvSent' = Run(0, Len(srvSent'))
    BY <2>2, <2>4, <2>5, <2>8, <2>9
  <2>11. \A a \in Stage :
              a.key = srvKeys["server_app"] /\ a.key.label = "server_app"
              /\ a.pos = 8 /\ a.data = Len(srvSent) /\ ~a.ended
              => \E b \in Stage : /\ Carries(srvTranscript, HelloEnd, r, a, b)
                                  /\ b.key = AfterRecord(k) /\ b.pos = 8
                                  /\ b.data = Len(srvSent') /\ b.ended = srvEnded'
    BY <2>2, <2>5, <2>7, <2>8, <2>9 DEF k
  <2> QED
    BY <1>1, <1>2, <1>3, <2>5, <2>8, <2>10, <2>11, WriteKeeps
<1>5. ASSUME NEW r \in Record, NEW next \in Key, Writes(r, next), next.label = "server_app",
             owes' \in BOOLEAN, srvSent' = srvSent, srvEnded' \in BOOLEAN,
             \A a \in Stage :
                 a.key = k /\ a.key.label = "server_app" /\ ~a.ended
                 => Carries(srvTranscript, HelloEnd, r, a,
                            [a EXCEPT !.key = next, !.ended = srvEnded'])
      PROVE  SInv'
  <2>1. ASSUME NEW a \in Stage, a.key = k, a.key.label = "server_app",
               a.pos = 8, a.data = Len(srvSent), ~a.ended
        PROVE  \E b \in Stage : /\ Carries(srvTranscript, HelloEnd, r, a, b)
                                /\ b.key = next /\ b.pos = 8
                                /\ b.data = Len(srvSent') /\ b.ended = srvEnded'
    <3> DEFINE b == [a EXCEPT !.key = next, !.ended = srvEnded']
    <3>1. b \in Stage /\ b.key = next /\ b.pos = 8 /\ b.data = Len(srvSent) /\ b.ended = srvEnded'
      BY <1>5, <2>1 DEF Stage
    <3>2. Carries(srvTranscript, HelloEnd, r, a, b)
      BY <1>5, <2>1
    <3> HIDE DEF b
    <3> QED
      BY <1>5, <3>1, <3>2
  <2>2. \A a \in Stage :
              a.key = srvKeys["server_app"] /\ a.key.label = "server_app"
              /\ a.pos = 8 /\ a.data = Len(srvSent) /\ ~a.ended
              => \E b \in Stage : /\ Carries(srvTranscript, HelloEnd, r, a, b)
                                  /\ b.key = next /\ b.pos = 8
                                  /\ b.data = Len(srvSent') /\ b.ended = srvEnded'
    BY <2>1 DEF k
  <2>3. srvSent' \in Seq(Nat) /\ srvSent' = Run(0, Len(srvSent')) /\ Len(srvSent) <= Len(srvSent')
    <3>1. PICK s : s = srvSent /\ s = srvSent'
      BY <1>5
    <3>2. s \in Seq(Nat) /\ s = Run(0, Len(s)) /\ Len(s) \in Nat /\ Len(s) <= Len(s)
      BY <1>1, <3>1
    <3> QED
      BY <3>1, <3>2
  <2> QED
    BY <1>2, <1>5, <2>2, <2>3, WriteKeeps
<1>6. \A a \in Stage, x \in Key : ~a.ended =>
          [a EXCEPT !.key = x, !.ended = FALSE] = [a EXCEPT !.key = x]
  BY DEF Stage
<1>7. CASE ServerTicket
  <2> DEFINE m == Msg("new_session_ticket", "none", 0)
             r == ProtectedHandshake(k, <<Whole(m)>>)
  <2>1. /\ Writes(r, AfterRecord(k)) /\ srvSent' = srvSent /\ owes' = owes /\ srvEnded' = FALSE
    BY <1>2, <1>7 DEF ServerTicket, k
  <2>2. r \in Record
    BY <1>1, NamesTyped, MessageTyped, OneMessageTyped, RecordTyped
  <2>3. ASSUME NEW a \in Stage, a.key = k, a.key.label = "server_app", ~a.ended
        PROVE  Carries(srvTranscript, HelloEnd, r, a, [a EXCEPT !.key = AfterRecord(k), !.ended = FALSE])
    <3>1. CarriesTicket(r, a, [a EXCEPT !.key = AfterRecord(k)])
      BY <2>3 DEF CarriesTicket
    <3>2. Carries(srvTranscript, HelloEnd, r, a, [a EXCEPT !.key = AfterRecord(k)])
      BY <2>3, <3>1 DEF Carries
    <3> QED
      BY <1>3, <1>6, <2>3, <3>2
  <2> HIDE DEF r
  <2> QED
    BY <1>1, <1>3, <1>5, <2>1, <2>2, <2>3
<1>8. ASSUME NEW request \in BOOLEAN,
             Writes(ProtectedHandshake(k, <<Whole(KeyUpdateMsg(request))>>), AfterUpdate(k)),
             srvSent' = srvSent, owes' \in BOOLEAN, srvEnded' = srvEnded
      PROVE  SInv'
  <2> DEFINE r == ProtectedHandshake(k, <<Whole(KeyUpdateMsg(request))>>)
  <2>1. r \in Record
    BY <1>1, NamesTyped, MessageTyped, OneMessageTyped, RecordTyped DEF KeyUpdateMsg
  <2>2. ASSUME NEW a \in Stage, a.key = k, a.key.label = "server_app", ~a.ended
        PROVE  Carries(srvTranscript, HelloEnd, r, a, [a EXCEPT !.key = AfterUpdate(k), !.ended = FALSE])
    <3>1. CarriesUpdate(r, a, [a EXCEPT !.key = AfterUpdate(k)])
      BY <2>2 DEF CarriesUpdate
    <3>2. Carries(srvTranscript, HelloEnd, r, a, [a EXCEPT !.key = AfterUpdate(k)])
      BY <2>2, <3>1 DEF Carries
    <3> QED
      BY <1>3, <1>6, <2>2, <3>2
  <2>3. Writes(r, AfterUpdate(k)) /\ srvEnded' = FALSE
    BY <1>2, <1>8
  <2> HIDE DEF r
  <2> QED
    BY <1>1, <1>3, <1>5, <1>8, <2>1, <2>2, <2>3
<1>9. CASE ServerAnswers
  BY <1>8, <1>9 DEF ServerAnswers, k
<1>10. CASE \E request \in BOOLEAN : ServerUpdates(request)
  BY <1>1, <1>8, <1>10 DEF ServerUpdates, k
<1>11. CASE ServerCloses
  <2> DEFINE r == ProtectedAlert(k, "close_notify")
  <2>1. /\ Writes(r, AfterRecord(k)) /\ srvSent' = srvSent /\ owes' = owes /\ srvEnded' = TRUE
    BY <1>11 DEF ServerCloses, k
  <2>2. r \in Record
    BY <1>1, RecordTyped DEF Alerts
  <2>3. ASSUME NEW a \in Stage, a.key = k, a.key.label = "server_app", ~a.ended
        PROVE  Carries(srvTranscript, HelloEnd, r, a, [a EXCEPT !.key = AfterRecord(k), !.ended = TRUE])
    <3>1. CarriesEnd(r, a, [a EXCEPT !.key = AfterRecord(k), !.ended = TRUE])
      BY <2>3 DEF CarriesEnd
    <3> QED
      BY <2>3, <3>1 DEF Carries
  <2> HIDE DEF r
  <2> QED
    BY <1>1, <1>3, <1>5, <2>1, <2>2, <2>3
<1> QED
  BY <1>4, <1>7, <1>9, <1>10, <1>11

LEMMA FullBeginning ==
    ASSUME NEW th \in Seq(Entry), NEW k \in Nat, k = Len(th)
    PROVE  SubSeq(th, 1, k) = th
<1>1. k \in 0..Len(th)
  OBVIOUS
<1>2. /\ SubSeq(th, 1, k) \in Seq(Entry) /\ Len(SubSeq(th, 1, k)) = k
      /\ \A j \in 1..k : SubSeq(th, 1, k)[j] = th[j]
  BY <1>1, BeginningIs
<1> QED
  BY <1>2, SeqEqual

\* The client's Finished is what the server expects, and its keys go on to application data.
LEMMA ReadsFinishedKeeps ==
    ASSUME SInv, ServerReadsFinished
    PROVE  SInv'
<1>1. /\ Rests /\ phase = "finished" /\ readUpTo < Len(out) /\ readUpTo' = readUpTo + 1
      /\ UNCHANGED <<srvKeys, left, held, srvSent, srvGot, owes, srvEnded, toClient>>
  BY DEF ServerReadsFinished, Rests
<1>2. PICK th \in Seq(Entry), n \in Nat : /\ th = srvTranscript /\ n = HelloEnd /\ n \in 1..Len(th)
                                          /\ Len(th) = n + 4 /\ HelloEnd' = HelloEnd
  BY <1>1, LenProperties DEF SInv, ServerTyped, ServerShape, HelloEnd
<1>3. PICK u \in Nat, k \in Nat : u = readUpTo /\ k = Len(out) /\ u < k
  <2>1. out \in Seq(Record) /\ readUpTo \in 0..Len(out)
    BY DEF SInv, TypeOK, ServerTyped
  <2>2. Len(out) \in Nat
    BY <2>1, LenProperties
  <2>3. readUpTo \in Nat
    BY <2>1, <2>2
  <2> QED
    BY <1>1, <2>2, <2>3
<1>4. PICK g \in [Nat -> WriteStage] : PathToServer(g)
  BY <1>1 DEF SInv, ToServer
<1>5. PICK a \in WriteStage, b \in WriteStage :
        /\ a = g[u] /\ b = g[u + 1] /\ Sends(th, n, out[u + 1], a, b)
  <2>1. u + 1 \in (u + 1)..k /\ u + 1 \in Nat /\ (u + 1) - 1 = u
    BY <1>3
  <2>2. Sends(th, n, out[u + 1], g[(u + 1) - 1], g[u + 1])
    BY <1>2, <1>3, <1>4, <2>1 DEF PathToServer
  <2> QED
    BY <2>1, <2>2
<1>6. a = [key |-> srvKeys["client_hs"], data |-> 0, ended |-> FALSE]
  BY <1>1, <1>3, <1>4, <1>5 DEF PathToServer, ServerReadsAt
<1>7. srvKeys["client_hs"] = KeyOver("client_hs", ThroughHello(th, n))
      /\ srvKeys["client_app"] = KeyOver("client_app", ThroughFlight(th, n))
  BY <1>1, <1>2 DEF SInv, ServerShape
<1>8. a.key.label = "client_hs"
  BY <1>6, <1>7 DEF KeyOver
<1>9. SendsFinished(th, n, out[u + 1], a, b)
  BY <1>5, <1>8 DEF Sends
<1>10. ThroughFlight(th, n) = th
  BY <1>2, FullBeginning DEF ThroughFlight
<1>11. PICK e \in Entry : e = EntryOf(ClientFinished(th))
  BY <1>2, NamesTyped, MessageTyped DEF ClientFinished
<1>12. phase' = "connected" /\ srvTranscript' = Append(th, e)
  <2>1. /\ out[u + 1] = ProtectedHandshake(a.key, <<Whole(ClientFinished(th))>>)
        /\ a.key = srvKeys["client_hs"]
    BY <1>6, <1>9, <1>10 DEF SendsFinished
  <2>2. FromClient.key = srvKeys["client_hs"] /\ FromClient.hs = <<Whole(ClientFinished(th))>>
    BY <1>3, <2>1, RecordsAre DEF FromClient
  <2> QED
    BY <1>2, <1>11, <2>2 DEF ServerReadsFinished, ClientFinished
<1>13. /\ HashesOn /\ srvTranscript \in Seq(Entry)
       /\ HelloEnd \in 1..Len(srvTranscript) /\ toClient \in Seq(Record)
  BY <1>2, <1>12 DEF SInv, ServerTyped, HashesOn
<1>14. TypeOK' /\ Lifecycle' /\ ClientShape'
  BY <1>1, ClientRests DEF SInv
<1>15. PICK tt : tt = srvTranscript' /\ tt = Append(th, e)
  BY <1>12
<1>16. /\ tt \in Seq(Entry) /\ Len(tt) = n + 5 /\ tt[n] = th[n]
       /\ ThroughHello(tt, n) = ThroughHello(th, n) /\ ServerHelloOf(tt, n) = ServerHelloOf(th, n)
       /\ tt = WithClientFinished(tt, n)
  <2>1. n \in 1..Len(th) /\ n + 4 <= Len(th)
    BY <1>2
  <2>2. /\ ThroughHello(tt, n) = ThroughHello(th, n) /\ ServerHelloOf(tt, n) = ServerHelloOf(th, n)
        /\ WithClientFinished(tt, n) = WithClientFinished(th, n)
    BY <1>15, <2>1, NamedBeginningsGrow
  <2>3. WithClientFinished(th, n) = Append(th, e)
    BY <1>10, <1>11 DEF WithClientFinished
  <2>4. tt \in Seq(Entry) /\ Len(tt) = Len(th) + 1 /\ tt[n] = th[n]
    BY <1>15, <2>1, BeginningsKept
  <2> QED
    BY <1>2, <1>15, <2>2, <2>3, <2>4
<1>17. ServerTyped'
  <2>1. readUpTo' \in 0..Len(out')
    BY <1>1, <1>3, ClientRests
  <2> QED
    BY <1>1, <1>12, <1>15, <1>16, <2>1, ClientRests DEF SInv, ServerTyped
<1>18. ServerShape'
  <2>1. HelloEnd' = n /\ srvTranscript' = tt /\ n + 4 <= Len(tt) /\ n \in 1..Len(tt)
    BY <1>2, <1>15, <1>16
  <2>2. /\ srvKeys["server_hs"].th = ThroughHello(tt, n) /\ srvKeys["server_hs"].label = "server_hs"
        /\ tt[n] = EntryOf(ServerHelloOf(tt, n)) /\ tt[n].val \in ServerGroups
        /\ srvKeys["client_hs"] = KeyOver("client_hs", ThroughHello(tt, n))
        /\ left = <<>> /\ held = <<>> /\ srvKeys["server_app"].label = "server_app"
    BY <1>1, <1>2, <1>7, <1>16 DEF SInv, ServerShape
  <2>3. srvKeys["client_app"].label = "client_app"
    BY <1>7 DEF KeyOver
  <2> QED
    BY <1>1, <1>12, <1>16, <2>1, <2>2, <2>3 DEF ServerShape
<1>19. InPhase'
  <2>1. conn = 1 /\ state # "HANDSHAKING"
    BY <1>1 DEF SInv, InPhase
  <2>2. \E i \in 1..Len(out) : out[i].key.label = "client_hs"
    <3>1. out[u + 1].key.label = "client_hs" /\ u + 1 \in 1..k
      BY <1>3, <1>8, <1>9, RecordsAre DEF SendsFinished
    <3> QED
      BY <1>3, <3>1
  <2>3. state = "CONNECTED" => /\ \A i \in 1..Len(out) : out[i].inner # "alert"
                              /\ \E i \in 1..Len(out) : out[i].key.label = "client_hs"
    BY DEF SInv, InPhase
  <2> QED
    BY <1>1, <1>12, <2>1, <2>2, <2>3, ClientRests DEF InPhase
<1>20. ToClient'
  <2> SUFFICES ASSUME Live' PROVE \E h \in [Nat -> Stage] : PathToClient(h)'
    BY DEF ToClient
  <2>1. PICK h \in [Nat -> Stage] : PathToClient(h)
    BY <1>1, ClientRests DEF SInv, ToClient
  <2>2. \A s \in Stage : StageOK(s) => StageOK(s)'
    BY <1>1, <1>12, StageOKStays
  <2>3. ServerAt(h[Len(toClient)])'
    BY <1>1, <1>12, <2>1 DEF PathToClient, ServerAt
  <2>4. PathToClient(h)'
    BY <1>1, <1>13, <2>1, <2>2, <2>3, ToClientHolds DEF SInv
  <2> QED
    BY <2>4
<1>21. ToServer'
  <2>1. b = [key |-> srvKeys["client_app"], data |-> 0, ended |-> FALSE]
    BY <1>6, <1>7, <1>9 DEF SendsFinished
  <2>2. Len(srvGot) = 0
    BY <1>1 DEF SInv, ServerShape
  <2>3. ServerReadsAt(b)'
    BY <1>1, <1>12, <2>1, <2>2 DEF ServerReadsAt
  <2>4. ServerReadsAt(g[readUpTo])'
    BY <1>1, <1>3, <1>5, <2>3
  <2>5. /\ readUpTo \in Nat /\ readUpTo' \in Nat /\ readUpTo <= readUpTo'
        /\ srvKeys'["client_hs"] = srvKeys["client_hs"] /\ TypeOK
    BY <1>1, <1>3 DEF SInv
  <2>6. PathToServer(g)'
    BY <1>1, <1>4, <1>13, <2>4, <2>5, ToServerReads
  <2> QED
    BY <2>6 DEF ToServer
<1> QED
  BY <1>14, <1>17, <1>18, <1>19, <1>20, <1>21 DEF SInv

\* Whatever the client sends under its application key, the server can open.
LEMMA ReadsKeep ==
    ASSUME SInv, ServerReads
    PROVE  SInv'
<1> DEFINE k == srvKeys["client_app"]
<1>1. /\ Rests /\ phase = "connected" /\ readUpTo < Len(out) /\ readUpTo' = readUpTo + 1
      /\ UNCHANGED <<srvTranscript, left, held, srvSent, srvEnded, toClient>>
  BY DEF ServerReads, Rests
<1>2. k \in Key /\ k.label = "client_app" /\ srvKeys \in [Slots -> Key]
      /\ srvGot \in Seq(Nat) /\ owes \in BOOLEAN
  BY <1>1 DEF SInv, ServerTyped, ServerShape, Slots
<1>3. PICK u \in Nat, w \in Nat : u = readUpTo /\ w = Len(out) /\ u < w
  <2>1. out \in Seq(Record) /\ readUpTo \in 0..Len(out)
    BY DEF SInv, TypeOK, ServerTyped
  <2>2. Len(out) \in Nat
    BY <2>1, LenProperties
  <2>3. readUpTo \in Nat
    BY <2>1, <2>2
  <2> QED
    BY <1>1, <2>2, <2>3
<1>4. PICK g \in [Nat -> WriteStage] : PathToServer(g)
  BY <1>1 DEF SInv, ToServer
<1>r. PICK r : r = out[u + 1]
  OBVIOUS
<1>5. PICK a \in WriteStage, b \in WriteStage :
        /\ a = g[u] /\ b = g[u + 1] /\ r = out[u + 1]
        /\ Sends(srvTranscript, HelloEnd, r, a, b)
  <2>1. u + 1 \in (u + 1)..w /\ u + 1 \in Nat /\ (u + 1) - 1 = u
    BY <1>3
  <2>2. Sends(srvTranscript, HelloEnd, out[u + 1], g[(u + 1) - 1], g[u + 1])
    BY <1>3, <1>4, <2>1 DEF PathToServer
  <2> QED
    BY <1>r, <2>1, <2>2
<1>6. a = [key |-> k, data |-> Len(srvGot), ended |-> FALSE]
  BY <1>1, <1>3, <1>4, <1>5 DEF PathToServer, ServerReadsAt
<1>7. a.key = k /\ a.data = Len(srvGot) /\ ~a.ended
  BY <1>6
<1> HIDE DEF k
<1>8. SendsData(r, a, b) \/ SendsUpdate(r, a, b) \/ SendsEnd(r, a, b)
  BY <1>2, <1>5, <1>7 DEF Sends, SendsFinished, KeyOver
<1>9. r.key = k /\ FromClient = r
  <2>1. FromClient = r
    BY <1>3, <1>5 DEF FromClient
  <2>2. SendsData(r, a, b) => r.key = k
    BY <1>7, RecordsAre DEF SendsData
  <2>3. SendsUpdate(r, a, b) => r.key = k
    BY <1>7, RecordsAre DEF SendsUpdate
  <2>4. SendsEnd(r, a, b) => r.key = k
    BY <1>7, RecordsAre DEF SendsEnd
  <2> QED
    BY <1>8, <2>1, <2>2, <2>3, <2>4
<1>10. \/ /\ r.inner = "application_data" /\ srvGot' = srvGot \o r.data
          /\ srvKeys' = [srvKeys EXCEPT !["client_app"] = AfterRecord(@)]
          /\ phase' = phase /\ owes' = owes
       \/ /\ r.inner = "handshake"
          /\ srvKeys' = [srvKeys EXCEPT !["client_app"] = AfterUpdate(@)]
          /\ owes' \in BOOLEAN /\ phase' = phase /\ srvGot' = srvGot
       \/ /\ r.alert = "close_notify"
          /\ phase' = "closed" /\ srvKeys' = srvKeys /\ srvGot' = srvGot /\ owes' = owes
  BY <1>2, <1>9 DEF ServerReads, k
<1>11. /\ AfterRecord(k) \in Key /\ AfterUpdate(k) \in Key
       /\ AfterRecord(k).label = "client_app" /\ AfterUpdate(k).label = "client_app"
  <2>1. k.gen + 1 \in Nat /\ k.seq + 1 \in Nat /\ 0 \in Nat
    BY <1>2 DEF Key
  <2>2. AfterRecord(k) \in Key /\ AfterUpdate(k) \in Key
    BY <1>2, <2>1 DEF Key, AfterRecord, AfterUpdate
  <2> QED
    BY <1>2, <2>2, LabelsAre
<1>12. ProtectedAlert(k, "close_notify").inner = "alert"
       /\ (\A d : ProtectedData(k, d).inner = "application_data" /\ ProtectedData(k, d).alert = "none")
       /\ (\A fs : ProtectedHandshake(k, fs).inner = "handshake"
                   /\ ProtectedHandshake(k, fs).alert = "none")
  BY DEF ProtectedAlert, ProtectedData, ProtectedHandshake, Blank
<1>13. /\ srvKeys' \in [Slots -> Key] /\ owes' \in BOOLEAN
       /\ srvGot' \in Seq(Nat) /\ srvGot' = Run(0, Len(srvGot'))
       /\ \A s \in {"client_hs", "server_hs", "server_app"} : srvKeys'[s] = srvKeys[s]
       /\ \/ phase' = "closed" /\ srvKeys' = srvKeys
          \/ /\ phase' = "connected" /\ srvKeys'["client_app"].label = "client_app"
             /\ b = [key |-> srvKeys'["client_app"], data |-> Len(srvGot'), ended |-> FALSE]
  <2>1. CASE SendsData(r, a, b)
    <3>1. r = ProtectedData(k, <<Len(srvGot) + 1>>)
          /\ b = [a EXCEPT !.key = AfterRecord(@), !.data = @ + 1]
      BY <1>7, <2>1 DEF SendsData
    <3>2. r.inner = "application_data" /\ r.alert = "none" /\ r.data = <<Len(srvGot) + 1>>
      BY <1>12, <3>1, RecordsAre
    <3>3. /\ srvGot' = srvGot \o <<Len(srvGot) + 1>> /\ phase' = "connected" /\ owes' = owes
          /\ srvKeys' = [srvKeys EXCEPT !["client_app"] = AfterRecord(@)]
      BY <1>1, <1>10, <3>2
    <3>4. PICK l \in Nat : l = Len(srvGot)
      BY <1>2, LenProperties
    <3>5. srvGot' = Run(0, l + 1) /\ Len(srvGot') = l + 1 /\ srvGot' \in Seq(Nat)
      <4>1. <<l + 1>> = Run(l, 1) /\ 0 + l = l /\ 0 \in Nat /\ 1 \in Nat /\ l + 1 \in Nat
        BY <3>4, OneRun
      <4>2. srvGot = Run(0, l)
        BY <3>4 DEF SInv, ServerTyped
      <4>3. Run(0, l) \o Run(0 + l, 1) = Run(0, l + 1)
        BY <4>1, RunsJoin, ZenonT(40)
      <4>4. srvGot' = Run(0, l + 1)
        BY <3>3, <3>4, <4>1, <4>2, <4>3
      <4> QED
        BY <4>1, <4>4, RunIs
    <3>6. /\ srvKeys' \in [Slots -> Key] /\ srvKeys'["client_app"] = AfterRecord(k)
          /\ \A s \in {"client_hs", "server_hs", "server_app"} : srvKeys'[s] = srvKeys[s]
      BY <1>2, <1>11, <3>3 DEF k, Slots
    <3>7. b = [key |-> AfterRecord(k), data |-> l + 1, ended |-> FALSE]
      BY <1>6, <3>1, <3>4
    <3> QED
      BY <1>2, <1>11, <3>3, <3>5, <3>6, <3>7
  <2>2. CASE SendsUpdate(r, a, b)
    <3>1. /\ r.inner = "handshake" /\ r.alert = "none" /\ b = [a EXCEPT !.key = AfterUpdate(@)]
      BY <1>7, <1>12, <2>2 DEF SendsUpdate
    <3>2. /\ srvGot' = srvGot /\ phase' = "connected" /\ owes' \in BOOLEAN
          /\ srvKeys' = [srvKeys EXCEPT !["client_app"] = AfterUpdate(@)]
      BY <1>1, <1>10, <3>1
    <3>3. /\ srvKeys' \in [Slots -> Key] /\ srvKeys'["client_app"] = AfterUpdate(k)
          /\ \A s \in {"client_hs", "server_hs", "server_app"} : srvKeys'[s] = srvKeys[s]
      BY <1>2, <1>11, <3>2 DEF k, Slots
    <3>4. b = [key |-> AfterUpdate(k), data |-> Len(srvGot), ended |-> FALSE]
      BY <1>6, <3>1
    <3>5. srvGot' \in Seq(Nat) /\ srvGot' = Run(0, Len(srvGot'))
      BY <3>2 DEF SInv, ServerTyped
    <3> QED
      BY <1>11, <3>2, <3>3, <3>4, <3>5
  <2>3. CASE SendsEnd(r, a, b)
    <3>1. r.inner = "alert"
      BY <1>7, <1>12, <2>3 DEF SendsEnd
    <3>2. phase' = "closed" /\ srvKeys' = srvKeys /\ srvGot' = srvGot /\ owes' = owes
      BY <1>10, <3>1
    <3>3. srvGot' \in Seq(Nat) /\ srvGot' = Run(0, Len(srvGot'))
      BY <3>2 DEF SInv, ServerTyped
    <3> QED
      BY <1>2, <3>2, <3>3
  <2> QED
    BY <1>8, <2>1, <2>2, <2>3
<1>14. /\ HashesOn /\ srvTranscript \in Seq(Entry)
       /\ HelloEnd \in 1..Len(srvTranscript) /\ toClient \in Seq(Record) /\ HelloEnd' = HelloEnd
  BY <1>1, <1>13, HashesNothing DEF HashesOn
<1>15. TypeOK' /\ Lifecycle' /\ ClientShape'
  BY <1>1, ClientRests DEF SInv
<1>16. ServerTyped'
  <2>1. readUpTo' \in 0..Len(out')
    BY <1>1, <1>3, ClientRests
  <2> QED
    BY <1>1, <1>13, <2>1, ClientRests DEF SInv, ServerTyped
<1>17. ServerShape'
  BY <1>1, <1>13, <1>14 DEF SInv, ServerShape
<1>18. InPhase'
  BY <1>1, <1>13, ClientRests DEF SInv, InPhase
<1>19. ToClient'
  <2> SUFFICES ASSUME Live' PROVE \E h \in [Nat -> Stage] : PathToClient(h)'
    BY DEF ToClient
  <2>1. PICK h \in [Nat -> Stage] : PathToClient(h)
    BY <1>1, ClientRests DEF SInv, ToClient
  <2>2. \A s \in Stage : StageOK(s) => StageOK(s)'
    BY <1>1, <1>13, StageOKStays
  <2>3. ServerAt(h[Len(toClient)])'
    BY <1>1, <1>13, <2>1 DEF PathToClient, ServerAt
  <2>4. PathToClient(h)'
    BY <1>1, <1>14, <2>1, <2>2, <2>3, ToClientHolds DEF SInv
  <2> QED
    BY <2>4
<1>20. ToServer'
  <2> SUFFICES ASSUME phase' = "connected" PROVE PathToServer(g)'
    BY <1>13 DEF ToServer
  <2>1. ServerReadsAt(b)'
    BY <1>13 DEF ServerReadsAt
  <2>2. ServerReadsAt(g[readUpTo])'
    BY <1>1, <1>3, <1>5, <2>1
  <2>3. /\ readUpTo \in Nat /\ readUpTo' \in Nat /\ readUpTo <= readUpTo'
        /\ srvKeys'["client_hs"] = srvKeys["client_hs"] /\ TypeOK
    BY <1>1, <1>3, <1>13 DEF SInv
  <2> QED
    BY <1>1, <1>4, <1>14, <2>2, <2>3, ToServerReads
<1> QED
  BY <1>15, <1>16, <1>17, <1>18, <1>19, <1>20 DEF SInv

LEMMA EndShortens ==
    ASSUME NEW S, NEW s \in Seq(S), NEW k \in Nat, k = Len(s), NEW j \in 1..k
    PROVE  /\ Head(SubSeq(s, j, k)) = s[j]
           /\ Tail(SubSeq(s, j, k)) = SubSeq(s, j + 1, k)
<1> DEFINE A == SubSeq(s, j, k)
           B == SubSeq(s, j + 1, k)
<1>1. /\ A \in Seq(S) /\ Len(A) = k - j + 1
      /\ \A i \in 1..(k - j + 1) : A[i] = s[j + i - 1]
  <2>1. j \in 1..(Len(s) + 1) /\ k \in (j - 1)..Len(s)
    OBVIOUS
  <2>2. Len(A) = IF j <= k THEN k - j + 1 ELSE 0
    BY <2>1, SubSeqProperties
  <2> QED
    BY <2>1, <2>2, SubSeqProperties
<1>2. /\ B \in Seq(S) /\ Len(B) = k - j
      /\ \A i \in 1..(k - j) : B[i] = s[j + 1 + i - 1]
  <2>1. j + 1 \in 1..(Len(s) + 1) /\ k \in ((j + 1) - 1)..Len(s)
    OBVIOUS
  <2>2. Len(B) = IF j + 1 <= k THEN k - (j + 1) + 1 ELSE 0
    BY <2>1, SubSeqProperties
  <2>3. Len(B) = k - j
    BY <2>2
  <2>4. B \in Seq(S) /\ \A i \in 1..(k - (j + 1) + 1) : B[i] = s[j + 1 + i - 1]
    BY <2>1, SubSeqProperties
  <2> QED
    BY <2>3, <2>4
<1> HIDE DEF A, B
<1>3. A # <<>>
  BY <1>1, EmptySeq
<1>4. /\ Head(A) = A[1] /\ Tail(A) \in Seq(S) /\ Len(Tail(A)) = Len(A) - 1
      /\ \A i \in 1..(Len(A) - 1) : Tail(A)[i] = A[i + 1]
  BY <1>1, <1>3, HeadTailProperties
<1>5. Head(A) = s[j]
  <2>1. A[1] = s[j + 1 - 1] /\ j + 1 - 1 = j
    BY <1>1
  <2> QED
    BY <1>4, <2>1
<1>6. Tail(A) = B
  <2>1. Len(Tail(A)) = Len(B)
    BY <1>1, <1>2, <1>4
  <2>2. ASSUME NEW i \in 1..Len(B)
        PROVE  Tail(A)[i] = B[i]
    <3>1. i \in 1..(k - j) /\ i + 1 \in 1..(k - j + 1) /\ j + (i + 1) - 1 = j + 1 + i - 1
      BY <1>2
    <3>2. Tail(A)[i] = A[i + 1]
      BY <1>1, <1>4, <3>1
    <3> QED
      BY <1>1, <1>2, <3>1, <3>2
  <2> QED
    BY <1>2, <1>4, <2>1, <2>2, SeqEqual
<1> QED
  BY <1>5, <1>6 DEF A, B

\* The message the server hashes next is the next of its flight.
LEMMA PreparedIsOfFlight ==
    ASSUME SInv, phase = "flight", left # <<>>, NEW m \in FlightMessage(Head(left))
    PROVE  /\ m \in Message /\ Place(m) = 5 - Len(left) /\ Len(left) \in 1..4
           /\ left = SubSeq(Flight, 5 - Len(left), 4)
           /\ Tail(left) = SubSeq(Flight, 6 - Len(left), 4) /\ Len(Tail(left)) = Len(left) - 1
           /\ Tail(left) \in Seq(FlightTypes)
           /\ OfFlight(Append(srvTranscript, EntryOf(m)), HelloEnd, m)
<1>1. /\ Len(left) <= 4 /\ left = SubSeq(Flight, 5 - Len(left), 4) /\ left \in Seq(FlightTypes)
      /\ srvTranscript \in Seq(Entry) /\ Len(srvTranscript) = HelloEnd + 4 - Len(left)
      /\ HelloEnd \in 1..Len(srvTranscript)
  BY DEF SInv, ServerTyped, ServerShape
<1>2. PICK l \in 1..4 : l = Len(left)
  <2>1. Len(left) \in Nat /\ Len(left) # 0
    BY <1>1, EmptySeq, LenProperties
  <2> QED
    BY <1>1, <2>1
<1>3. PICK th \in Seq(Entry), n \in Nat : /\ th = srvTranscript /\ n = HelloEnd
                                          /\ Len(th) = n + 4 - l /\ n \in 1..Len(th)
  <2>1. HelloEnd \in Nat
    BY <1>1, LenProperties
  <2> QED
    BY <1>1, <1>2, <2>1
<1>4. /\ Head(left) = Flight[5 - l]
      /\ Tail(left) = SubSeq(Flight, 6 - l, 4) /\ Len(Tail(left)) = l - 1
      /\ Tail(left) \in Seq(FlightTypes)
  <2>1. left = SubSeq(Flight, 5 - l, 4) /\ 5 - l \in 1..4 /\ 5 - l + 1 = 6 - l
    BY <1>1, <1>2
  <2>2. Tail(left) \in Seq(FlightTypes) /\ Len(Tail(left)) = Len(left) - 1
    BY <1>1, HeadTailProperties
  <2>3. Flight \in Seq(FlightTypes) /\ Len(Flight) = 4
    BY DEF Flight, FlightTypes
  <2>4. /\ Head(SubSeq(Flight, 5 - l, 4)) = Flight[5 - l]
        /\ Tail(SubSeq(Flight, 5 - l, 4)) = SubSeq(Flight, (5 - l) + 1, 4)
    BY <2>1, <2>3, EndShortens
  <2> QED
    BY <1>2, <2>1, <2>2, <2>4
<1>5. /\ l = 4 => \E v \in ServerAlpns : m = Msg("encrypted_extensions", v, 0)
      /\ l = 3 => m = Msg("certificate", ServerChain, 0)
      /\ l = 2 => m = Covering("certificate_verify", ServerChain, th)
      /\ l = 1 => m = Covering("finished", "server", th)
  BY <1>3, <1>4 DEF FlightMessage, Flight
<1>6. /\ m \in Message /\ m.n = 0 /\ m.type = Flight[5 - l] /\ m.type \in FlightTypes
      /\ m.val \in FlightVals(m) /\ m.over = IF l >= 3 THEN <<>> ELSE th
  <2>1. ServerChain \in Values /\ ServerAlpns \subseteq Values /\ "server" \in Values
    BY SessionAssumption, ClientAssumption, NamesTyped
  <2>2. CASE l = 4
    BY <1>5, <2>1, <2>2, NamesTyped, MessageTyped DEF Msg, FlightVals, Flight, FlightTypes
  <2>3. CASE l = 3
    BY <1>5, <2>1, <2>3, NamesTyped, MessageTyped DEF Msg, FlightVals, Flight, FlightTypes
  <2>4. CASE l = 2
    BY <1>5, <2>1, <2>4, NamesTyped, MessageTyped DEF Covering, FlightVals, Flight, FlightTypes
  <2>5. CASE l = 1
    BY <1>5, <2>1, <2>5, NamesTyped, MessageTyped DEF Covering, FlightVals, Flight, FlightTypes
  <2> QED
    BY <2>2, <2>3, <2>4, <2>5
<1>7. Place(m) = 5 - l
  BY <1>6 DEF Place, Flight
<1>8. PICK e \in Entry : e = EntryOf(m)
  BY <1>6, MessageTyped
<1>9. /\ Len(Append(th, e)) = n + 5 - l /\ Append(th, e)[n + 5 - l] = e
      /\ SubSeq(Append(th, e), 1, n + 4 - l) = th
  <2>1. PICK k \in Nat : k = Len(th) /\ k = n + 4 - l
    BY <1>3, LenProperties
  <2>2. /\ Len(Append(th, e)) = k + 1 /\ Append(th, e)[k + 1] = e
        /\ SubSeq(Append(th, e), 1, k) = SubSeq(th, 1, k)
    <3>1. k \in 0..Len(th)
      BY <2>1
    <3>2. /\ Len(Append(th, e)) = Len(th) + 1 /\ Append(th, e)[Len(th) + 1] = e
          /\ \A i \in 0..Len(th) : SubSeq(Append(th, e), 1, i) = SubSeq(th, 1, i)
      BY BeginningsKept
    <3> QED
      BY ONLY <2>1, <3>1, <3>2
  <2>3. SubSeq(th, 1, k) = th
    BY <2>1, FullBeginning
  <2>4. k + 1 = n + 5 - l
    BY <2>1
  <2> QED
    BY <2>1, <2>2, <2>3, <2>4
<1>10. OfFlight(Append(th, e), n, m)
  <2>1. n + Place(m) = n + 5 - l /\ n + Place(m) - 1 = n + 4 - l /\ (Place(m) <= 2 <=> l >= 3)
    BY <1>7
  <2>2. n + Place(m) <= Len(Append(th, e))
    BY <1>9, <2>1
  <2> QED
    BY <1>6, <1>8, <1>9, <2>1, <2>2 DEF OfFlight
<1> QED
  BY <1>1, <1>2, <1>3, <1>4, <1>6, <1>7, <1>8, <1>10

LEMMA PreparesKeeps ==
    ASSUME SInv, ServerPrepares
    PROVE  SInv'
<1>1. /\ Rests /\ phase = "flight" /\ left # <<>> /\ Len(held) < 2 /\ left' = Tail(left)
      /\ UNCHANGED <<phase, srvKeys, srvSent, srvGot, owes, srvEnded, readUpTo, toClient>>
  BY DEF ServerPrepares, Rests
<1>2. PICK m, fs : /\ m \in FlightMessage(Head(left)) /\ fs \in CutsOf(m)
                   /\ held' = held \o fs /\ srvTranscript' = Append(srvTranscript, EntryOf(m))
  BY DEF ServerPrepares
<1>3. /\ m \in Message /\ Place(m) = 5 - Len(left) /\ Len(left) \in 1..4
      /\ left = SubSeq(Flight, 5 - Len(left), 4)
      /\ Tail(left) = SubSeq(Flight, 6 - Len(left), 4) /\ Len(Tail(left)) = Len(left) - 1
      /\ Tail(left) \in Seq(FlightTypes)
      /\ OfFlight(srvTranscript', HelloEnd, m)
  BY <1>1, <1>2, PreparedIsOfFlight
<1>4. PICK l \in 1..4 : l = Len(left)
  BY <1>3
<1>5. PICK e \in Entry : e = EntryOf(m)
  BY <1>3, MessageTyped
<1>6. PICK th \in Seq(Entry), n \in Nat :
        /\ th = srvTranscript /\ n = HelloEnd /\ n \in 1..Len(th) /\ HelloEnd' = n
        /\ Len(th) = n + 4 - l
  <2>1. /\ srvTranscript \in Seq(Entry) /\ HelloEnd \in 1..Len(srvTranscript)
        /\ Len(srvTranscript) = HelloEnd + 4 - l
    BY <1>1, <1>4 DEF SInv, ServerTyped, ServerShape
  <2>2. HelloEnd \in Nat
    BY <2>1, LenProperties
  <2> QED
    BY <1>1, <2>1, <2>2 DEF HelloEnd
<1>7. PICK tt \in Seq(Entry) : /\ tt = srvTranscript' /\ tt = Append(th, e) /\ Len(tt) = n + 5 - l
                               /\ tt[n] = th[n] /\ n \in 1..Len(tt)
  <2>1. Append(th, e) \in Seq(Entry) /\ Len(Append(th, e)) = Len(th) + 1 /\ Append(th, e)[n] = th[n]
    BY <1>6, BeginningsKept
  <2>2. srvTranscript' = Append(th, e)
    BY <1>2, <1>5, <1>6
  <2>3. Len(Append(th, e)) = n + 5 - l /\ n \in 1..Len(Append(th, e))
    <3>1. PICK k \in Nat : k = Len(th)
      BY LenProperties
    <3>2. k + 1 = n + 5 - l /\ n \in 1..(k + 1)
      BY <1>6, <3>1
    <3> QED
      BY <2>1, <3>1, <3>2
  <2> QED
    BY <2>1, <2>2, <2>3
<1>8. HashesOn /\ toClient \in Seq(Record)
  BY <1>5, <1>6, <1>7 DEF HashesOn, SInv, ServerTyped
<1>9. /\ fs \in Seq(Fragment) /\ Len(fs) \in 1..2
      /\ Spans(tt, n, fs, 2 * (4 - l), 2 * (4 - (l - 1)))
  <2>1. OfFlight(tt, n, m) /\ Place(m) = 5 - l
    BY <1>3, <1>4, <1>6, <1>7
  <2>2. \A p \in {"whole", "head", "tail"} : Cut(m, p) \in Fragment /\ Cut(m, p).msg = m /\ Cut(m, p).part = p
    BY <1>3, MessageTyped DEF Cut
  <2>3. Whole(m) = Cut(m, "whole")
    BY DEF Whole, Cut
  <2>4. CASE fs = <<Cut(m, "whole")>>
    <3>1. PICK f \in Fragment : f = Cut(m, "whole") /\ f.msg = m /\ f.part = "whole"
      BY <2>2
    <3>2. fs = <<f>> /\ From(f) = 2 * (4 - l) /\ To(f) = 2 * (4 - (l - 1))
      BY <2>1, <2>4, <3>1, Halves
    <3>3. /\ fs \in Seq(Fragment) /\ Len(fs) = 1 /\ fs[1] = f /\ fs # <<>>
      BY <3>2
    <3>4. Spans(tt, n, fs, 2 * (4 - l), 2 * (4 - (l - 1)))
      BY <2>1, <3>1, <3>2, <3>3 DEF Spans
    <3> QED
      BY <3>3, <3>4
  <2>5. CASE fs = <<Cut(m, "head"), Cut(m, "tail")>>
    <3>1. PICK f \in Fragment, h \in Fragment :
            /\ f = Cut(m, "head") /\ f.msg = m /\ f.part = "head"
            /\ h = Cut(m, "tail") /\ h.msg = m /\ h.part = "tail"
      BY <2>2
    <3>2. /\ fs = <<f, h>> /\ From(f) = 2 * (4 - l) /\ To(h) = 2 * (4 - (l - 1))
          /\ To(f) = From(h)
      BY <2>1, <2>5, <3>1, Halves
    <3>3. /\ fs \in Seq(Fragment) /\ Len(fs) = 2 /\ fs[1] = f /\ fs[2] = h /\ fs # <<>>
      BY <3>2
    <3>4. Spans(tt, n, fs, 2 * (4 - l), 2 * (4 - (l - 1)))
      BY <2>1, <3>1, <3>2, <3>3 DEF Spans
    <3> QED
      BY <3>3, <3>4
  <2> QED
    BY <1>2, <2>3, <2>4, <2>5 DEF CutsOf
<1>10. /\ held \in Seq(Fragment) /\ held' \in Seq(Fragment) /\ held' # <<>>
       /\ \A a : Spans(th, n, held, a, 2 * (4 - l)) => Spans(tt, n, held', a, 2 * (4 - (l - 1)))
  <2>1. held \in Seq(Fragment)
    BY DEF SInv, ServerTyped
  <2>2. PICK x \in 0..1, y \in 1..2 : x = Len(held) /\ y = Len(fs)
    <3>1. Len(held) \in Nat /\ Len(held) < 2
      BY <1>1, <2>1, LenProperties
    <3>2. \A z \in Nat : z < 2 => z \in 0..1
      OBVIOUS
    <3>3. PICK z \in Nat : z = Len(held) /\ z < 2
      BY ONLY <3>1
    <3>4. z \in 0..1
      BY ONLY z \in Nat, <3>2, <3>3
    <3> QED
      BY <1>9, <3>3, <3>4
  <2>3. /\ held \o fs \in Seq(Fragment) /\ Len(held \o fs) = Len(held) + Len(fs)
    BY <1>9, <2>1, ConcatProperties
  <2>4. held' # <<>>
    BY <1>2, <2>2, <2>3, Elements
  <2>5. ASSUME NEW a, Spans(th, n, held, a, 2 * (4 - l))
        PROVE  Spans(tt, n, held', a, 2 * (4 - (l - 1)))
    <3>1. Spans(tt, n, held, a, 2 * (4 - l))
      BY <1>6, <1>7, <2>5, SpansGrows
    <3>2. Len(held) + Len(fs) <= 3
      <4>1. x + y <= 3
        OBVIOUS
      <4> QED
        BY <2>2, <4>1
    <3>3. Spans(tt, n, held \o fs, a, 2 * (4 - (l - 1)))
      BY <1>9, <2>1, <3>1, <3>2, SpansJoin
    <3> QED
      BY <1>2, <3>3
  <2> QED
    BY <1>2, <2>1, <2>3, <2>4, <2>5
<1>11. TypeOK' /\ Lifecycle' /\ ClientShape'
  BY <1>1, ClientRests DEF SInv
<1>12. ServerTyped'
  BY <1>1, <1>3, <1>7, <1>10, ClientRests DEF SInv, ServerTyped
<1>13. ServerShape'
  <2>1. /\ ThroughHello(tt, n) = ThroughHello(th, n)
        /\ ServerHelloOf(tt, n) = ServerHelloOf(th, n)
    BY <1>6, <1>7, NamedBeginningsGrow
  <2>2. /\ srvKeys["server_hs"].th = ThroughHello(tt, n) /\ srvKeys["server_hs"].label = "server_hs"
        /\ tt[n] = EntryOf(ServerHelloOf(tt, n)) /\ tt[n].val \in ServerGroups
        /\ srvKeys["client_hs"] = KeyOver("client_hs", ThroughHello(tt, n))
        /\ srvSent = <<>> /\ ~srvEnded /\ srvGot = <<>>
    BY <1>1, <1>6, <1>7, <2>1 DEF SInv, ServerShape
  <2>3. Len(left') = l - 1 /\ l - 1 <= 4 /\ left' = SubSeq(Flight, 5 - (l - 1), 4)
        /\ Len(tt) = n + 4 - (l - 1)
    <3>1. 5 - (l - 1) = 6 - l /\ n + 4 - (l - 1) = n + 5 - l
      OBVIOUS
    <3> QED
      BY <1>1, <1>3, <1>4, <1>7, <3>1
  <2> QED
    BY <1>1, <1>6, <1>7, <1>10, <2>2, <2>3 DEF ServerShape
<1>14. InPhase'
  BY <1>1, ClientRests DEF SInv, InPhase
<1>15. ToClient'
  <2> SUFFICES ASSUME Live' PROVE \E h \in [Nat -> Stage] : PathToClient(h)'
    BY DEF ToClient
  <2>1. PICK h \in [Nat -> Stage] : PathToClient(h)
    BY <1>1, ClientRests DEF SInv, ToClient
  <2>2. \A s \in Stage : StageOK(s) => StageOK(s)'
    BY <1>1, StageOKStays
  <2>3. ServerAt(h[Len(toClient)])'
    <3>1. PICK v : v = h[Len(toClient)]
      OBVIOUS
    <3>2. /\ v.data = Len(srvSent) /\ v.ended = srvEnded /\ v.key = srvKeys["server_hs"]
          /\ Spans(th, n, held, v.pos, 2 * (4 - l))
      BY <1>1, <1>4, <1>6, <2>1, <3>1 DEF PathToClient, ServerAt
    <3>3. Spans(tt, n, held', v.pos, 2 * (4 - (l - 1)))
      BY <1>10, <3>2
    <3>4. Len(left') = l - 1
      BY <1>1, <1>3, <1>4
    <3>5. ServerAt(v)'
      BY <1>1, <1>6, <1>7, <3>2, <3>3, <3>4 DEF ServerAt
    <3> QED
      BY <1>1, <3>1, <3>5
  <2>4. PathToClient(h)'
    BY <1>1, <1>6, <1>8, <2>1, <2>2, <2>3, ToClientHolds DEF SInv
  <2> QED
    BY <2>4
<1>16. ToServer'
  <2>1. PICK g \in [Nat -> WriteStage] : PathToServer(g)
    BY <1>1 DEF SInv, ToServer
  <2>2. ServerReadsAt(g[readUpTo])'
    BY <1>1, <2>1 DEF PathToServer, ServerReadsAt
  <2>3. /\ readUpTo \in Nat /\ readUpTo' \in Nat /\ readUpTo <= readUpTo'
        /\ srvKeys'["client_hs"] = srvKeys["client_hs"] /\ TypeOK
    <3>1. readUpTo \in Nat
      BY LenProperties DEF SInv, TypeOK, ServerTyped
    <3> QED
      BY <1>1, <3>1 DEF SInv
  <2>4. PathToServer(g)'
    BY <1>1, <1>6, <1>8, <2>1, <2>2, <2>3, ToServerReads
  <2> QED
    BY <2>4 DEF ToServer
<1> QED
  BY <1>11, <1>12, <1>13, <1>14, <1>15, <1>16 DEF SInv

\* The flight goes out in as many records as it likes.
LEMMA SendsKeep ==
    ASSUME SInv, ServerSends
    PROVE  SInv'
<1> DEFINE k == srvKeys["server_hs"]
<1>1. /\ Rests /\ phase = "flight" /\ held # <<>>
      /\ UNCHANGED <<srvTranscript, left, srvSent, srvGot, owes, srvEnded, readUpTo>>
  BY DEF ServerSends, Rests
<1>c. PICK c \in 1..Len(held) :
        /\ c \in 1..2 /\ held' = SubSeq(held, c + 1, Len(held))
        /\ toClient' = Append(toClient, ProtectedHandshake(k, SubSeq(held, 1, c)))
  <2>1. PICK c \in 1..(IF Cuts THEN Least(2, Len(held)) ELSE 1) :
          /\ toClient' = Append(toClient, ProtectedHandshake(k, SubSeq(held, 1, c)))
          /\ held' = SubSeq(held, c + 1, Len(held))
    BY DEF ServerSends
  <2>2. PICK z \in Nat : z = Len(held) /\ z # 0
    BY <1>1, Elements DEF SInv, ServerTyped
  <2>3. c \in 1..z /\ c \in 1..2
    BY <2>1, <2>2 DEF Least
  <2> QED
    BY <2>1, <2>2, <2>3
<1>2. PICK fst, snd :
        /\ c \in 1..2 /\ fst = SubSeq(held, 1, c) /\ snd = SubSeq(held, c + 1, Len(held))
        /\ toClient' = Append(toClient, ProtectedHandshake(k, fst)) /\ held' = snd
  BY <1>c
<1>3. PICK th \in Seq(Entry), n \in Nat, l \in 0..4 :
        /\ th = srvTranscript /\ n = HelloEnd /\ n \in 1..Len(th) /\ l = Len(left)
        /\ Len(th) = n + 4 - l /\ (l = 0 <=> left = <<>>)
  <2>1. /\ srvTranscript \in Seq(Entry) /\ HelloEnd \in 1..Len(srvTranscript)
        /\ left \in Seq(FlightTypes) /\ Len(left) <= 4
        /\ Len(srvTranscript) = HelloEnd + 4 - Len(left)
    BY <1>1 DEF SInv, ServerTyped, ServerShape
  <2>2. HelloEnd \in Nat /\ Len(left) \in Nat /\ (Len(left) = 0 <=> left = <<>>)
    BY <2>1, LenProperties, EmptySeq
  <2>3. PICK l \in Nat : l = Len(left) /\ l <= 4
    BY <2>1, <2>2
  <2>4. l \in 0..4
    BY <2>3
  <2> QED
    BY <2>1, <2>2, <2>3, <2>4
<1>4. /\ held \in Seq(Fragment) /\ srvKeys \in [Slots -> Key] /\ k \in Key
      /\ k.label = "server_hs" /\ k.th = ThroughHello(th, n)
      /\ srvSent = <<>> /\ ~srvEnded /\ srvGot = <<>> /\ toClient \in Seq(Record)
  BY <1>1, <1>3 DEF SInv, ServerTyped, ServerShape, Slots
<1> HIDE DEF k
<1>5. AfterRecord(k) \in Key /\ AfterRecord(k).label = "server_hs" /\ AfterRecord(k).th = k.th
  <2>1. k.seq + 1 \in Nat
    BY <1>4 DEF Key
  <2>2. AfterRecord(k) \in Key /\ AfterRecord(k).th = k.th
    BY <1>4, <2>1 DEF Key, AfterRecord
  <2> QED
    BY <1>4, <2>2, LabelsAre
<1>6. PICK last \in BOOLEAN : last <=> (left = <<>> /\ snd = <<>>)
  OBVIOUS
<1>7. /\ last => /\ phase' = "finished"
                 /\ srvKeys' = [srvKeys EXCEPT
                       !["server_hs"] = AfterRecord(k),
                       !["client_app"] = KeyOver("client_app", th),
                       !["server_app"] = KeyOver("server_app", th)]
      /\ ~last => /\ phase' = "flight" /\ srvKeys' = [srvKeys EXCEPT !["server_hs"] = AfterRecord(k)]
  BY <1>1, <1>2, <1>3, <1>6 DEF ServerSends, k
<1>8. KeyOver("client_app", th) \in Key /\ KeyOver("server_app", th) \in Key
  BY <1>3 DEF KeyOver, Key, Slots
<1>9. /\ srvKeys' \in [Slots -> Key] /\ srvKeys'["server_hs"] = AfterRecord(k)
      /\ srvKeys'["client_hs"] = srvKeys["client_hs"]
      /\ last => /\ srvKeys'["client_app"] = KeyOver("client_app", th)
                 /\ srvKeys'["server_app"] = KeyOver("server_app", th)
  BY <1>4, <1>5, <1>7, <1>8 DEF Slots
<1>10. HelloEnd' = n /\ HashesOn /\ srvTranscript' = th
  BY <1>1, <1>3, <1>5, <1>9 DEF HelloEnd, HashesOn, k
<1>11. last => ThroughFlight(th, n) = th /\ Len(th) = n + 4
  <2>1. last => Len(th) = n + 4
    BY <1>3, <1>6
  <2> QED
    BY <2>1, FullBeginning DEF ThroughFlight
<1>12. PICK r \in Record : /\ r = ProtectedHandshake(k, fst) /\ toClient' = Append(toClient, r)
                           /\ fst \in Seq(Fragment) /\ snd \in Seq(Fragment) /\ Len(fst) = c
  <2>1. fst \in Seq(Fragment) /\ snd \in Seq(Fragment) /\ Len(fst) = c
    <3>1. c \in Nat /\ Len(held) \in Nat /\ c <= Len(held)
      BY <1>4, LenProperties
    <3>2. 1 \in 1..(Len(held) + 1) /\ c \in (1 - 1)..Len(held)
      BY <3>1
    <3>3. c + 1 \in 1..(Len(held) + 1) /\ Len(held) \in ((c + 1) - 1)..Len(held)
      BY <3>1
    <3>4. Len(fst) = IF 1 <= c THEN c - 1 + 1 ELSE 0
      BY <1>2, <1>4, <3>2, SubSeqProperties
    <3>5. fst \in Seq(Fragment) /\ snd \in Seq(Fragment)
      BY <1>2, <1>4, <3>2, <3>3, SubSeqProperties
    <3> QED
      BY <3>1, <3>4, <3>5
  <2>2. ProtectedHandshake(k, fst) \in Record
    BY <1>4, <2>1, RecordTyped
  <2> QED
    BY <1>2, <2>1, <2>2
<1>13. TypeOK' /\ Lifecycle' /\ ClientShape'
  BY <1>1, ClientRests DEF SInv
<1>14. ServerTyped'
  <2>1. toClient' \in Seq(Record)
    BY <1>4, <1>12, AppendProperties
  <2>2. phase' \in {"flight", "finished"} /\ held' \in Seq(Fragment)
    BY <1>2, <1>7, <1>12
  <2> QED
    BY <1>1, <1>9, <2>1, <2>2, ClientRests DEF SInv, ServerTyped
<1>15. ServerShape'
  <2>1. /\ AfterRecord(k).th = ThroughHello(th, n) /\ AfterRecord(k).label = "server_hs"
        /\ th[n] = EntryOf(ServerHelloOf(th, n)) /\ th[n].val \in ServerGroups
        /\ srvKeys'["client_hs"] = KeyOver("client_hs", ThroughHello(th, n))
    BY <1>1, <1>3, <1>4, <1>5, <1>9 DEF SInv, ServerShape
  <2>2. CASE last
    <3>1. /\ left' = <<>> /\ held' = <<>> /\ n + 4 <= Len(th) /\ Len(th) = n + 4
          /\ srvKeys'["server_app"].label = "server_app"
          /\ srvKeys'["client_app"] = KeyOver("client_app", ThroughFlight(th, n))
      <4>1. srvKeys'["server_app"].label = "server_app"
        BY <1>9, <2>2 DEF KeyOver
      <4>2. n + 4 <= n + 4
        OBVIOUS
      <4> QED
        BY <1>1, <1>2, <1>6, <1>9, <1>11, <2>2, <4>1, <4>2
    <3> QED
      BY <1>1, <1>3, <1>4, <1>7, <1>9, <1>10, <2>1, <2>2, <3>1 DEF ServerShape
  <2>3. CASE ~last
    <3>1. /\ Len(left') <= 4 /\ left' = SubSeq(Flight, 5 - Len(left'), 4)
          /\ Len(th) = n + 4 - Len(left') /\ (left' # <<>> \/ held' # <<>>)
      BY <1>1, <1>2, <1>3, <1>6, <2>3 DEF SInv, ServerShape
    <3> QED
      BY <1>1, <1>3, <1>4, <1>7, <1>9, <1>10, <2>1, <2>3, <3>1 DEF ServerShape
  <2> QED
    BY <2>2, <2>3
<1>16. InPhase'
  <2>1. /\ conn = 1 /\ state # "CONNECTED" /\ readUpTo = Len(out)
        /\ \A i \in 1..Len(out) : Plain(out[i])
    BY <1>1 DEF SInv, InPhase
  <2> QED
    BY <1>1, <1>7, <2>1, ClientRests DEF InPhase
<1>17. ToClient'
  <2> SUFFICES ASSUME Live' PROVE \E h \in [Nat -> Stage] : PathToClient(h)'
    BY DEF ToClient
  <2>1. PICK g \in [Nat -> Stage] : PathToClient(g)
    BY <1>1, ClientRests DEF SInv, ToClient
  <2>2. PICK a \in Stage : a = g[Len(toClient)] /\ ServerAt(a) /\ StageOK(a)
    <3>1. Len(toClient) \in Nat /\ Len(toClient) \in 0..Len(toClient)
      BY <1>4, LenProperties
    <3> QED
      BY <2>1, <3>1 DEF PathToClient
  <2>3. /\ a.data = 0 /\ ~a.ended /\ a.key = k /\ a.pos \in 0..8
        /\ Spans(th, n, held, a.pos, 2 * (4 - l))
    BY <1>1, <1>3, <1>4, <2>2 DEF ServerAt, Stage, k
  <2>4. PICK p : /\ p = To(held[c]) /\ Spans(th, n, fst, a.pos, p) /\ Spans(th, n, snd, p, 2 * (4 - l))
    BY <1>2, <1>4, <2>3, SpansSplit
  <2>5. p \in 0..8 /\ a.pos < p /\ fst # <<>>
    <3>1. fst # <<>>
      BY <1>2, <1>12, SomeElements
    <3>2. p \in a.pos..8 /\ a.pos < p
      BY <1>12, <2>3, <2>4, <3>1, SpansTypes
    <3> QED
      BY <2>3, <3>1, <3>2
  <2>6. last <=> p = 8
    <3>1. 2 * (4 - l) \in p..8 /\ (snd # <<>> => p < 2 * (4 - l)) /\ (snd = <<>> => p = 2 * (4 - l))
      <4>1. PICK e \in 0..8 : e = 2 * (4 - l)
        BY <1>3
      <4>2. Spans(th, n, snd, p, e) /\ snd \in Seq(Fragment) /\ p \in 0..8
        BY <1>12, <2>4, <2>5, <4>1
      <4>3. e \in p..8 /\ (snd # <<>> => p < e) /\ (snd = <<>> => p = e)
        BY <4>2, SpansTypes
      <4> QED
        BY <4>1, <4>3
    <3> QED
      BY <1>3, <1>6, <2>5, <3>1
  <2>7. PICK b \in Stage :
          /\ b.pos = p /\ b.data = 0 /\ ~b.ended
          /\ b.key = IF last THEN KeyOver("server_app", th) ELSE AfterRecord(k)
    <3> DEFINE s == [key |-> IF last THEN KeyOver("server_app", th) ELSE AfterRecord(k),
                     pos |-> p, data |-> 0, ended |-> FALSE]
    <3>1. /\ s \in Stage /\ s.pos = p /\ s.data = 0 /\ ~s.ended
          /\ s.key = IF last THEN KeyOver("server_app", th) ELSE AfterRecord(k)
      BY <1>5, <1>8, <2>5 DEF Stage
    <3> HIDE DEF s
    <3> QED
      BY <3>1
  <2>8. Carries(th, n, r, a, b)
    <3>1. b.key = IF b.pos = 8 THEN KeyOver("server_app", ThroughFlight(th, n)) ELSE AfterRecord(a.key)
      BY <1>11, <2>3, <2>6, <2>7
    <3>2. CarriesFlight(th, n, r, a, b)
      BY <1>2, <1>4, <1>12, <2>3, <2>4, <2>7, <3>1 DEF CarriesFlight
    <3> QED
      BY <2>3, <3>2 DEF Carries
  <2>9. ServerAt(b)'
    <3>1. b.data = Len(srvSent') /\ b.ended = srvEnded'
      <4>1. b.data = Len(srvSent') /\ srvEnded' = FALSE
        BY <1>1, <1>4, <2>7 DEF SInv, ServerTyped
      <4> QED
        BY <2>7, <4>1 DEF Stage
    <3>2. CASE last
      BY <1>7, <1>9, <2>6, <2>7, <3>1, <3>2 DEF ServerAt
    <3>3. CASE ~last
      BY <1>1, <1>2, <1>3, <1>7, <1>9, <1>10, <2>4, <2>7, <3>1, <3>3 DEF ServerAt
    <3> QED
      BY <3>2, <3>3
  <2>10. StageOK(b)'
    <3>1. b.data <= Len(srvSent')
      BY <1>1, <1>4, <2>7
    <3>2. b.pos = 8 => phase' # "flight" /\ b.key.label = "server_app"
      BY <1>7, <2>6, <2>7 DEF KeyOver
    <3>3. b.pos < 8 => b.key.label # "server_app"
      BY <1>5, <2>6, <2>7
    <3> QED
      BY <2>7, <3>1, <3>2, <3>3 DEF StageOK
  <2>11. \A s \in Stage : StageOK(s) => StageOK(s)'
    BY <1>1, StageOKStays
  <2>12. Carries(srvTranscript, HelloEnd, r, g[Len(toClient)], b)
    BY <1>3, <2>2, <2>8
  <2> QED
    BY <1>1, <1>3, <1>4, <1>10, <1>12, <2>1, <2>7, <2>9, <2>10, <2>11, <2>12, ToClientExtends DEF SInv
<1>18. ToServer'
  <2>1. PICK g \in [Nat -> WriteStage] : PathToServer(g)
    BY <1>1 DEF SInv, ToServer
  <2>2. ServerReadsAt(g[readUpTo])'
    BY <1>1, <1>7, <1>9, <2>1 DEF PathToServer, ServerReadsAt
  <2>3. /\ readUpTo \in Nat /\ readUpTo' \in Nat /\ readUpTo <= readUpTo'
        /\ srvKeys'["client_hs"] = srvKeys["client_hs"] /\ TypeOK
    <3>1. readUpTo \in Nat
      BY LenProperties DEF SInv, TypeOK, ServerTyped
    <3> QED
      BY <1>1, <1>9, <3>1 DEF SInv
  <2>4. PathToServer(g)'
    BY <1>1, <1>3, <1>10, <2>1, <2>2, <2>3, ToServerReads
  <2> QED
    BY <2>4 DEF ToServer
<1> QED
  BY <1>13, <1>14, <1>15, <1>16, <1>17, <1>18 DEF SInv

LEMMA FirstElements ==
    ASSUME NEW S, NEW a \in S, NEW b \in S
    PROVE  /\ Append(<<>>, a) = <<a>>
           /\ <<>> \o <<a, b>> = <<a, b>>
<1> DEFINE none == <<>>
           one == <<a>>
           two == <<a, b>>
<1>1. /\ none \in Seq(S) /\ Len(none) = 0
      /\ one \in Seq(S) /\ Len(one) = 1 /\ one[1] = a
      /\ two \in Seq(S) /\ Len(two) = 2 /\ two[1] = a /\ two[2] = b
  OBVIOUS
<1> HIDE DEF none, one, two
<1>2. /\ Append(none, a) \in Seq(S) /\ Len(Append(none, a)) = Len(none) + 1
      /\ Append(none, a)[Len(none) + 1] = a
  BY <1>1, AppendProperties
<1>3. Append(none, a) = one
  <2>1. Len(Append(none, a)) = 1 /\ Append(none, a)[1] = a
    BY <1>1, <1>2
  <2> QED
    BY <1>1, <1>2, <2>1, SeqEqual
<1>4. /\ none \o two \in Seq(S) /\ Len(none \o two) = Len(none) + Len(two)
      /\ \A i \in 1..(Len(none) + Len(two)) :
            (none \o two)[i] = IF i <= Len(none) THEN none[i] ELSE two[i - Len(none)]
  BY <1>1, ConcatProperties
<1>5. none \o two = two
  <2>1. Len(none \o two) = 2
    BY <1>1, <1>4
  <2>2. ASSUME NEW i \in 1..2 PROVE (none \o two)[i] = two[i]
    <3>1. i - 0 = i /\ ~(i <= 0)
      OBVIOUS
    <3> QED
      BY <1>1, <1>4, <3>1
  <2> QED
    BY <1>1, <1>4, <2>1, <2>2, SeqEqual
<1> QED
  BY <1>3, <1>5 DEF none, one, two

\* A hello the server reads is the client's last word, of the first or the second kind.
LEMMA HelloReadIs ==
    ASSUME SInv, ClientHellos
    PROVE  \E s \in Groups :
             /\ HelloRead = HelloMsg(s) /\ readUpTo + 1 = Len(out) /\ conn = 1
             /\ Live => /\ At("hello") /\ buf = <<>> /\ share = s /\ alpn = "none" /\ toClient = <<>>
                        /\ transcript = Append(srvTranscript, EntryOf(HelloMsg(s)))
             /\ s \notin ServerGroups => /\ readUpTo = 0 /\ out = <<HelloOut(s)>> /\ toClient = <<>>
                                         /\ srvTranscript = <<>> /\ (Live => ~call.hadHrr)
<1>1. phase = "hello" /\ readUpTo < Len(out) /\ (BeforeRetry \/ AfterRetry)
  BY DEF ClientHellos, SInv, InPhase
<1>2. \A x : /\ Len(<<x>>) = 1 /\ <<x>>[1] = x
             /\ \A y : Len(<<y, x>>) = 2 /\ <<y, x>>[2] = x
  OBVIOUS
<1>3. out # <<>> => conn = 1
  BY DEF SInv, ClientShape, TypeOK
<1>4. \A s : HelloOut(s).hs[1].msg = HelloMsg(s)
  BY RecordsAre DEF HelloOut, Whole
<1>5. CASE BeforeRetry
  <2>1. readUpTo = 0 /\ srvTranscript = <<>> /\ toClient = <<>> /\ out # <<>>
    BY <1>1, <1>5 DEF BeforeRetry
  <2>2. PICK s \in Groups :
          /\ out = <<HelloOut(s)>>
          /\ Live => /\ At("hello") /\ ~call.hadHrr /\ buf = <<>> /\ share = s
                     /\ transcript = <<EntryOf(HelloMsg(s))>> /\ alpn = "none"
    BY <1>5, <2>1 DEF BeforeRetry
  <2>3. PICK o : o = HelloOut(s)
    OBVIOUS
  <2>4. Len(out) = 1 /\ out[1] = o
    BY <1>2, <2>2, <2>3
  <2>5. HelloRead = HelloMsg(s) /\ readUpTo + 1 = Len(out)
    BY <1>4, <2>1, <2>3, <2>4 DEF HelloRead
  <2>6. PICK S, e : e = EntryOf(HelloMsg(s)) /\ S = {e}
    OBVIOUS
  <2>7. Append(<<>>, e) = <<e>>
    <3>1. e \in S
      BY <2>6
    <3> QED
      BY <3>1, FirstElements
  <2>8. Live => transcript = Append(srvTranscript, EntryOf(HelloMsg(s)))
    BY <2>1, <2>2, <2>6, <2>7
  <2> QED
    BY <1>3, <2>1, <2>2, <2>5, <2>8
<1>6. CASE AfterRetry
  <2>1. PICK g \in Groups \ ServerGroups, s \in ServerGroups :
        /\ readUpTo = 1
        /\ srvTranscript = <<EntryOf(HelloMsg(g)), EntryOf(RetryMsg(s))>>
        /\ \/ out = <<HelloOut(g)>>
           \/ /\ out = <<HelloOut(g), HelloOut(s)>>
              /\ Live => /\ At("hello") /\ call.hadHrr /\ share = s
                         /\ transcript = Append(srvTranscript, EntryOf(HelloMsg(s)))
                         /\ alpn = "none" /\ toClient = <<>> /\ buf = <<>>
    BY <1>6 DEF AfterRetry
  <2>2. PICK x, y : x = HelloOut(g) /\ y = HelloOut(s)
    OBVIOUS
  <2>3. out # <<x>>
    BY <1>1, <1>2, <2>1
  <2>4. /\ out = <<x, y>>
        /\ Live => /\ At("hello") /\ call.hadHrr /\ share = s
                   /\ transcript = Append(srvTranscript, EntryOf(HelloMsg(s)))
                   /\ alpn = "none" /\ toClient = <<>> /\ buf = <<>>
    BY <2>1, <2>2, <2>3
  <2>5. Len(out) = 2 /\ out[2] = y /\ out # <<>>
    BY <1>2, <2>4
  <2>6. HelloRead = HelloMsg(s) /\ readUpTo + 1 = Len(out)
    BY <1>4, <2>1, <2>2, <2>5 DEF HelloRead
  <2>7. s \in Groups
    BY SessionAssumption
  <2> QED
    BY <1>3, <2>4, <2>5, <2>6, <2>7
<1> QED
  BY <1>1, <1>5, <1>6

LEMMA RetriesKeep ==
    ASSUME SInv, ServerRetries
    PROVE  SInv'
<1>1. PICK g \in Groups :
        /\ HelloRead = HelloMsg(g) /\ readUpTo + 1 = Len(out)
        /\ Live => /\ At("hello") /\ buf = <<>> /\ share = g /\ alpn = "none"
                   /\ transcript = Append(srvTranscript, EntryOf(HelloMsg(g)))
        /\ g \notin ServerGroups => /\ readUpTo = 0 /\ out = <<HelloOut(g)>> /\ toClient = <<>>
                                    /\ srvTranscript = <<>> /\ (Live => ~call.hadHrr)
  BY HelloReadIs DEF ServerRetries
<1>2. g \notin ServerGroups /\ phase = "hello"
  BY <1>1 DEF ServerRetries, ClientHellos, HelloMsg, Msg
<1>3. PICK s \in ServerGroups :
        /\ Answer(RetryMsg(s), srvTranscript \o <<EntryOf(HelloMsg(g)), EntryOf(RetryMsg(s))>>)
        /\ UNCHANGED <<phase, srvKeys, left>>
  BY <1>1 DEF ServerRetries, RetryMsg
<1>4. /\ Rests /\ UNCHANGED <<phase, srvKeys, left, held, srvSent, srvGot, owes, srvEnded>>
      /\ readUpTo' = 1 /\ toClient' = Append(<<>>, RetryOut(s))
      /\ srvTranscript' = <<>> \o <<EntryOf(HelloMsg(g)), EntryOf(RetryMsg(s))>>
  BY <1>1, <1>2, <1>3 DEF Answer, Rests, RetryOut
<1>5. HelloMsg(g) \in Message /\ RetryMsg(s) \in Message
  BY SessionAssumption, NamesTyped, MessageTyped DEF HelloMsg, RetryMsg
<1>6. PICK a \in Entry, b \in Entry : a = EntryOf(HelloMsg(g)) /\ b = EntryOf(RetryMsg(s))
  BY <1>5, MessageTyped
<1>7. PICK r \in Record : r = RetryOut(s)
  BY <1>5, OneMessageTyped, RecordTyped DEF RetryOut
<1>8. srvTranscript' = <<a, b>> /\ toClient' = <<r>>
  BY <1>4, <1>6, <1>7, FirstElements
<1>9. srvTranscript' \in Seq(Entry) /\ toClient' \in Seq(Record)
  BY <1>8
<1>10. TypeOK' /\ Lifecycle' /\ ClientShape'
  BY <1>4, ClientRests DEF SInv
<1>11. ServerTyped'
  <2>1. readUpTo' \in 0..Len(out')
    <3>1. out' = out /\ Len(out) = 1
      BY <1>1, <1>2, <1>4, ClientRests
    <3> QED
      BY <1>4, <3>1
  <2> QED
    BY <1>4, <1>9, <2>1, ClientRests DEF SInv, ServerTyped
<1>12. ServerShape' /\ phase' = "hello"
  BY <1>2, <1>4 DEF SInv, ServerShape
<1>13. AfterRetry'
  <2>1. srvTranscript' = <<EntryOf(HelloMsg(g)), EntryOf(RetryMsg(s))>> /\ toClient' = <<RetryOut(s)>>
    BY <1>6, <1>7, <1>8
  <2>2. Live => transcript = <<a>>
    BY <1>1, <1>2, <1>6, FirstElements
  <2>3. /\ out' = <<HelloOut(g)>>
        /\ Live' => /\ At("hello")' /\ ~call'.hadHrr /\ share' = g /\ buf' = <<>>
                    /\ transcript' = <<EntryOf(HelloMsg(g))>> /\ alpn' = "none"
    BY <1>1, <1>2, <1>4, <1>6, <2>2, ClientRests DEF At
  <2> QED
    BY <1>2, <1>4, <2>1, <2>3 DEF AfterRetry
<1> QED
  BY <1>10, <1>11, <1>12, <1>13, HelloPhase

LEMMA AppendTwice ==
    ASSUME NEW s \in Seq(Entry), NEW a \in Entry, NEW b \in Entry
    PROVE  s \o <<a, b>> = Append(Append(s, a), b)
<1> DEFINE two == <<a, b>>
<1>1. two \in Seq(Entry) /\ Len(two) = 2 /\ two[1] = a /\ two[2] = b
  OBVIOUS
<1> HIDE DEF two
<1>2. PICK k \in Nat : k = Len(s)
  BY LenProperties
<1>3. PICK x \in Seq(Entry) : /\ x = Append(s, a) /\ Len(x) = k + 1 /\ x[k + 1] = a
                              /\ \A i \in 1..k : x[i] = s[i]
  BY <1>2, BeginningsKept
<1>4. PICK y \in Seq(Entry) : /\ y = Append(x, b) /\ Len(y) = k + 2 /\ y[k + 2] = b
                              /\ \A i \in 1..(k + 1) : y[i] = x[i]
  <2>1. /\ Append(x, b) \in Seq(Entry) /\ Len(Append(x, b)) = Len(x) + 1
        /\ \A i \in 1..Len(x) : Append(x, b)[i] = x[i]
        /\ Append(x, b)[Len(x) + 1] = b
    BY BeginningsKept
  <2>2. k + 1 + 1 = k + 2
    OBVIOUS
  <2> QED
    BY <1>3, <2>1, <2>2
<1>5. /\ s \o two \in Seq(Entry) /\ Len(s \o two) = Len(s) + Len(two)
      /\ \A i \in 1..(Len(s) + Len(two)) :
            (s \o two)[i] = IF i <= Len(s) THEN s[i] ELSE two[i - Len(s)]
  BY <1>1, ConcatProperties
<1>6. ASSUME NEW i \in 1..(k + 2) PROVE (s \o two)[i] = y[i]
  <2>1. (s \o two)[i] = IF i <= k THEN s[i] ELSE two[i - k]
    BY <1>1, <1>2, <1>5
  <2>2. CASE i \in 1..k
    <3>1. i <= k /\ i \in 1..(k + 1)
      BY <2>2
    <3> QED
      BY <1>3, <1>4, <2>1, <2>2, <3>1
  <2>3. CASE i = k + 1
    <3>1. ~(i <= k) /\ i - k = 1 /\ i \in 1..(k + 1)
      BY <2>3
    <3> QED
      BY <1>1, <1>3, <1>4, <2>1, <2>3, <3>1
  <2>4. CASE i = k + 2
    <3>1. ~(i <= k) /\ i - k = 2
      BY <2>4
    <3> QED
      BY <1>1, <1>4, <2>1, <2>4, <3>1
  <2>5. i \in 1..k \/ i = k + 1 \/ i = k + 2
    OBVIOUS
  <2> QED
    BY <2>2, <2>3, <2>4, <2>5
<1>7. Len(s \o two) = k + 2
  BY <1>1, <1>2, <1>5
<1>8. s \o two = y
  BY <1>4, <1>5, <1>6, <1>7, SeqEqual
<1> QED
  BY <1>3, <1>4, <1>8 DEF two

\* With ServerHello the two directions start: one record on the way, nothing to be read.
LEMMA SaysHelloKeeps ==
    ASSUME SInv, ServerSaysHello
    PROVE  SInv'
<1>1. PICK g \in Groups :
        /\ HelloRead = HelloMsg(g) /\ readUpTo + 1 = Len(out) /\ conn = 1
        /\ Live => /\ At("hello") /\ buf = <<>> /\ share = g /\ alpn = "none" /\ toClient = <<>>
                   /\ transcript = Append(srvTranscript, EntryOf(HelloMsg(g)))
  BY HelloReadIs DEF ServerSaysHello
<1> DEFINE m == Msg("server_hello", g, 0)
<1>2. g \in ServerGroups /\ phase = "hello" /\ HelloRead.val = g
  BY <1>1 DEF ServerSaysHello, ClientHellos, HelloMsg, Msg
<1>3. PICK th0 \in Seq(Entry), e \in Entry, d \in Entry :
        th0 = srvTranscript /\ e = EntryOf(HelloMsg(g)) /\ d = EntryOf(m)
  <2>1. HelloMsg(g) \in Message /\ m \in Message
    BY NamesTyped, MessageTyped DEF HelloMsg
  <2> QED
    BY <2>1, MessageTyped DEF SInv, ServerTyped
<1>4. PICK tt : /\ tt = th0 \o <<e, d>>
                /\ Answer(m, tt)
                /\ srvKeys' = [srvKeys EXCEPT !["client_hs"] = KeyOver("client_hs", tt),
                                              !["server_hs"] = KeyOver("server_hs", tt)]
  BY <1>1, <1>2, <1>3 DEF ServerSaysHello
<1>5. PICK n \in Nat : /\ n >= 1 /\ n = Len(tt) /\ tt \in Seq(Entry) /\ tt[n] = d
                       /\ SubSeq(tt, 1, n - 1) = Append(th0, e)
  <2>1. tt = Append(Append(th0, e), d)
    BY <1>3, <1>4, AppendTwice
  <2>2. Append(th0, e) \in Seq(Entry)
    BY BeginningsKept
  <2>3. PICK k \in Nat, x \in Seq(Entry) : x = Append(th0, e) /\ k = Len(x)
    BY <2>2, LenProperties
  <2>4. /\ tt \in Seq(Entry) /\ Len(tt) = k + 1 /\ tt[k + 1] = d
        /\ \A i \in 0..k : SubSeq(tt, 1, i) = SubSeq(x, 1, i)
    BY <2>1, <2>3, BeginningsKept
  <2>5. SubSeq(tt, 1, k) = x
    BY <2>3, <2>4, FullBeginning
  <2>6. k + 1 \in Nat /\ k + 1 >= 1 /\ (k + 1) - 1 = k
    OBVIOUS
  <2> QED
    BY <2>3, <2>4, <2>5, <2>6
<1>6. /\ Rests /\ UNCHANGED <<held, srvSent, srvGot, owes, srvEnded>>
      /\ readUpTo' = Len(out) /\ toClient' = Append(toClient, PlainHandshake(<<Whole(m)>>))
      /\ srvTranscript' = tt /\ phase' = "flight" /\ left' = Flight
  BY <1>1, <1>4 DEF Answer, Rests, ServerSaysHello
<1>7. /\ srvSent = <<>> /\ ~srvEnded /\ srvGot = <<>> /\ held = <<>> /\ srvKeys \in [Slots -> Key]
      /\ toClient \in Seq(Record)
  BY <1>2 DEF SInv, ServerTyped, ServerShape
<1>8. KeyOver("client_hs", tt) \in Key /\ KeyOver("server_hs", tt) \in Key
  BY <1>5 DEF KeyOver, Key, Slots
<1>9. /\ srvKeys' \in [Slots -> Key]
      /\ srvKeys'["client_hs"] = KeyOver("client_hs", tt)
      /\ srvKeys'["server_hs"] = KeyOver("server_hs", tt)
  BY <1>4, <1>7, <1>8 DEF Slots
<1>10. HelloEnd' = n /\ ThroughHello(tt, n) = tt
  <2>1. KeyOver("server_hs", tt).th = tt
    BY DEF KeyOver
  <2>2. SubSeq(tt, 1, n) = tt
    BY <1>5, FullBeginning
  <2> QED
    BY <1>5, <1>9, <2>1, <2>2 DEF HelloEnd, ThroughHello
<1>11. tt[n].val = g /\ ServerHelloOf(tt, n) = m
  <2>1. d.val = g
    BY <1>3 DEF EntryOf, Msg
  <2> QED
    BY <1>5, <2>1 DEF ServerHelloOf
<1>12. PICK r \in Record : r = PlainHandshake(<<Whole(m)>>) /\ toClient' = Append(toClient, r)
  <2>1. m \in Message
    BY NamesTyped, MessageTyped
  <2> QED
    BY <1>6, <2>1, OneMessageTyped, RecordTyped
<1> HIDE DEF m
<1>13. TypeOK' /\ Lifecycle' /\ ClientShape'
  BY <1>6, ClientRests DEF SInv
<1>14. Flight \in Seq(FlightTypes) /\ Len(Flight) = 4 /\ Flight = SubSeq(Flight, 5 - 4, 4) /\ Flight # <<>>
  <2>1. Flight \in Seq(FlightTypes) /\ Len(Flight) = 4 /\ Flight # <<>>
    BY DEF Flight, FlightTypes
  <2>2. \A S : \A s \in Seq(S) : Len(s) = 4 => SubSeq(s, 1, 4) = s
    <3> SUFFICES ASSUME NEW S, NEW s \in Seq(S), Len(s) = 4
                 PROVE  SubSeq(s, 1, 4) = s
      OBVIOUS
    <3>1. 1 \in 1..(Len(s) + 1) /\ 4 \in (1 - 1)..Len(s)
      OBVIOUS
    <3>2. /\ SubSeq(s, 1, 4) \in Seq(S)
          /\ Len(SubSeq(s, 1, 4)) = IF 1 <= 4 THEN 4 - 1 + 1 ELSE 0
          /\ \A i \in 1..(4 - 1 + 1) : SubSeq(s, 1, 4)[i] = s[1 + i - 1]
      BY <3>1, SubSeqProperties, SMTT(30)
    <3>3. /\ Len(SubSeq(s, 1, 4)) = 4
          /\ \A i \in 1..4 : SubSeq(s, 1, 4)[i] = s[i]
      BY <3>2
    <3> QED
      BY <3>2, <3>3, SeqEqual
  <2>3. SubSeq(Flight, 1, 4) = Flight /\ 5 - 4 = 1
    BY <2>1, <2>2
  <2> QED
    BY <2>1, <2>3
<1>15. ServerTyped'
  <2>1. readUpTo' \in 0..Len(out')
    BY <1>6, ClientRests, LenProperties DEF SInv, TypeOK
  <2>2. toClient' \in Seq(Record)
    BY <1>7, <1>12, AppendProperties
  <2> QED
    BY <1>5, <1>6, <1>9, <1>14, <2>1, <2>2, ClientRests DEF SInv, ServerTyped
<1>16. ServerShape'
  <2>1. /\ HelloEnd' = n /\ srvTranscript' = tt /\ n \in 1..Len(tt) /\ Len(tt) = n + 4 - 4
    BY <1>5, <1>6, <1>10
  <2>2. /\ srvKeys'["server_hs"].th = ThroughHello(tt, n)
        /\ srvKeys'["server_hs"].label = "server_hs"
        /\ srvKeys'["client_hs"] = KeyOver("client_hs", ThroughHello(tt, n))
    BY <1>9, <1>10 DEF KeyOver
  <2>3. tt[n] = EntryOf(ServerHelloOf(tt, n)) /\ tt[n].val \in ServerGroups
    BY <1>2, <1>3, <1>5, <1>11
  <2> QED
    BY <1>6, <1>7, <1>14, <2>1, <2>2, <2>3 DEF ServerShape
<1>17. (Live => state = "HANDSHAKING") /\ state # "CONNECTED"
  <2>1. Live => call.loop = "hello"
    BY <1>1 DEF At
  <2> QED
    BY <2>1 DEF SInv, Lifecycle, CallsNest, Live
<1>18. InPhase'
  <2>1. \A i \in 1..Len(out) : Plain(out[i])
    BY <1>2 DEF SInv, InPhase
  <2> QED
    BY <1>1, <1>6, <1>17, <2>1, ClientRests DEF InPhase
<1>19. Live => accepted = 0 /\ got = <<>> /\ pending = <<>>
  BY <1>17 DEF SInv, ClientShape, InOrder
<1>20. ToClient'
  <2> SUFFICES ASSUME Live PROVE \E h \in [Nat -> Stage] : PathToClient(h)'
    BY <1>6, ClientRests DEF ToClient
  <2>1. PICK a \in Stage, b \in Stage :
          /\ a = [key |-> Zero, pos |-> 0, data |-> 0, ended |-> FALSE]
          /\ b = [key |-> KeyOver("server_hs", tt), pos |-> 0, data |-> 0, ended |-> FALSE]
    <3>1. \A x \in Key : [key |-> x, pos |-> 0, data |-> 0, ended |-> FALSE] \in Stage
      BY DEF Stage
    <3>2. Zero \in Key
      BY KeyTyped
    <3> QED
      BY <1>8, <3>1, <3>2
  <2>2. PICK h \in [Nat -> Stage] : h[0] = a /\ h[1] = b
    <3> DEFINE f == [i \in Nat |-> IF i = 0 THEN a ELSE b]
    <3>1. f \in [Nat -> Stage] /\ f[0] = a /\ f[1] = b
      OBVIOUS
    <3> HIDE DEF f
    <3> QED
      BY <3>1
  <2>3. Len(toClient') = 1 /\ toClient'[1] = r
    <3>1. toClient = <<>>
      BY <1>1
    <3> QED
      BY <1>12, <3>1, FirstElements
  <2>4. ClientAt(tt, n, a)'
    <3>1. Checked(tt, n, 0)
      BY <1>1, <1>11 DEF Checked
    <3>2. AwaitsHello(tt, n, a)
      BY <1>1, <1>3, <1>5, <2>1, <3>1 DEF AwaitsHello
    <3>3. a.data = Len(got) + Len(pending) /\ ~a.ended
      BY <1>19, <2>1
    <3>4. ClientAt(tt, n, a)
      BY <3>2, <3>3 DEF ClientAt
    <3> QED
      BY <1>6, <3>4, ClientStandsStill
  <2>5. ServerAt(b)'
    <3>1. b.key = srvKeys'["server_hs"] /\ b.data = Len(srvSent') /\ b.ended = srvEnded'
      BY <1>6, <1>7, <1>9, <2>1 DEF SInv, ServerTyped
    <3>2. Spans(tt, n, <<>>, 0, 0) /\ 2 * (4 - 4) = 0 /\ b.pos = 0
      BY <2>1 DEF Spans
    <3>3. Len(left') = 4 /\ held' = <<>>
      BY <1>6, <1>7, <1>14
    <3> QED
      BY <1>6, <1>10, <3>1, <3>2, <3>3 DEF ServerAt
  <2>6. StageOK(a)' /\ StageOK(b)'
    BY <1>6, <1>7, <2>1 DEF StageOK, Zero, KeyOver
  <2>7. Carries(tt, n, r, a, b)
    <3>1. b = [a EXCEPT !.key = KeyOver("server_hs", ThroughHello(tt, n))] /\ a.key = Zero /\ ~a.ended
      <4>1. PICK x \in Key : x = KeyOver("server_hs", tt) /\ x = KeyOver("server_hs", ThroughHello(tt, n))
        BY <1>8, <1>10
      <4>2. PICK z \in Key : z = Zero
        BY KeyTyped
      <4>3. /\ a = [key |-> z, pos |-> 0, data |-> 0, ended |-> FALSE]
            /\ b = [key |-> x, pos |-> 0, data |-> 0, ended |-> FALSE]
        BY <2>1, <4>1, <4>2
      <4>4. b = [a EXCEPT !.key = x] /\ a.key = z /\ ~a.ended
        <5>1. [a EXCEPT !.key = x] \in Stage /\ b \in Stage
          BY DEF Stage
        <5>2. [a EXCEPT !.key = x].key = b.key
          BY <4>3 DEF Stage
        <5>3. /\ [a EXCEPT !.key = x].pos = b.pos /\ [a EXCEPT !.key = x].data = b.data
              /\ [a EXCEPT !.key = x].ended = b.ended
          BY <4>3 DEF Stage
        <5> QED
          BY <4>3, <5>1, <5>2, <5>3 DEF Stage
      <4> QED
        BY <4>1, <4>2, <4>4
    <3>2. CarriesHello(tt, n, r, a, b)
      BY <1>11, <1>12, <3>1 DEF CarriesHello
    <3> QED
      BY <3>1, <3>2 DEF Carries
  <2>8. PathToClient(h)'
    <3>1. ClientAt(srvTranscript, HelloEnd, h[0])' /\ ServerAt(h[Len(toClient)])'
      BY <1>6, <1>10, <2>2, <2>3, <2>4, <2>5
    <3>2. (\A i \in 0..Len(toClient) : StageOK(h[i]))'
      <4>1. \A i \in 0..1 : i = 0 \/ i = 1
        OBVIOUS
      <4> QED
        BY <2>2, <2>3, <2>6, <4>1
    <3>3. (\A i \in 1..Len(toClient) : Carries(srvTranscript, HelloEnd, toClient[i], h[i - 1], h[i]))'
      <4>1. \A i \in 1..1 : i = 1 /\ i - 1 = 0
        OBVIOUS
      <4> QED
        BY <1>6, <1>10, <2>2, <2>3, <2>7, <4>1
    <3> QED
      BY <3>1, <3>2, <3>3 DEF PathToClient
  <2> QED
    BY <2>8
<1>21. ToServer'
  <2>1. PICK a \in WriteStage : a = [key |-> KeyOver("client_hs", tt), data |-> 0, ended |-> FALSE]
    BY <1>8 DEF WriteStage
  <2>2. PICK h \in [Nat -> WriteStage] : \A i \in Nat : h[i] = a
    <3> DEFINE f == [i \in Nat |-> a]
    <3>1. f \in [Nat -> WriteStage] /\ \A i \in Nat : f[i] = a
      OBVIOUS
    <3> HIDE DEF f
    <3> QED
      BY <3>1
  <2>3. PICK k \in Nat : k = Len(out) /\ readUpTo' = k /\ Len(out') = k
    BY <1>6, ClientRests, LenProperties DEF SInv, TypeOK
  <2>4. ServerReadsAt(a)'
    BY <1>6, <1>9, <2>1 DEF ServerReadsAt
  <2>5. Live' => ClientWritesAt(a)'
    BY <1>6, <1>9, <1>17, <1>19, <2>1, ClientRests DEF ClientWritesAt
  <2>6. WriteStageOK(a)'
    <3>1. accepted' \in Nat /\ a.data = 0 /\ ~a.ended
      BY <1>13, <2>1 DEF TypeOK
    <3> QED
      BY <3>1 DEF WriteStageOK
  <2>7. \A i \in k..k : i = k
    OBVIOUS
  <2>8. (k + 1)..k = {}
    OBVIOUS
  <2>9. PathToServer(h)'
    <3>1. ServerReadsAt(h[readUpTo])' /\ (Live => ClientWritesAt(h[Len(out)]))'
      BY <2>2, <2>3, <2>4, <2>5
    <3>2. (\A i \in readUpTo..Len(out) : WriteStageOK(h[i]))'
      BY <2>2, <2>3, <2>6, <2>7
    <3>3. (\A i \in (readUpTo + 1)..Len(out) : Sends(srvTranscript, HelloEnd, out[i], h[i - 1], h[i]))'
      BY <2>3, <2>8
    <3> QED
      BY <3>1, <3>2, <3>3 DEF PathToServer
  <2> QED
    BY <2>9 DEF ToServer
<1> QED
  BY <1>13, <1>15, <1>16, <1>18, <1>20, <1>21 DEF SInv

-----------------------------------------------------------------------------
(* The theorems *)

LEMMA SInvInit == SessionInit => SInv
<1> SUFFICES ASSUME SessionInit PROVE SInv
  OBVIOUS
<1>1. Init
  BY DEF SessionInit
<1>2. /\ state = "IDLE" /\ conn = 0 /\ call = NoCall /\ out = <<>> /\ got = <<>> /\ pending = <<>>
      /\ accepted = 0 /\ keys = Wiped /\ share = "zero" /\ streamOpen = FALSE
  BY <1>1 DEF Init
<1>3. /\ phase = "hello" /\ srvTranscript = <<>> /\ srvKeys = Wiped /\ left = <<>> /\ held = <<>>
      /\ srvSent = <<>> /\ srvGot = <<>> /\ owes = FALSE /\ srvEnded = FALSE
      /\ toClient = <<>> /\ readUpTo = 0 /\ broken = FALSE /\ told = FALSE
  BY DEF SessionInit
<1>4. NoCall.loop = "none"
  BY DEF NoCall
<1>5. TypeOK /\ Lifecycle
  <2>1. TypeOK
    BY <1>1, InitTyped
  <2>2. Lifecycle
    BY <1>2, <1>4 DEF Lifecycle, SecretsWiped, CallsNest, Live
  <2> QED
    BY <2>1, <2>2
<1>6. <<>> \in Seq(Entry) /\ <<>> \in Seq(FlightTypes) /\ <<>> \in Seq(Fragment)
      /\ <<>> \in Seq(Nat) /\ <<>> \in Seq(Record) /\ Len(<<>>) = 0 /\ Run(0, 0) = <<>>
  BY EmptySeq, RunIs
<1>7. ServerTyped
  <2>1. srvTranscript \in Seq(Entry) /\ toClient \in Seq(Record)
    BY <1>3, <1>6
  <2>2. left \in Seq(FlightTypes) /\ held \in Seq(Fragment)
    BY <1>3, <1>6
  <2>3. srvSent = Run(0, Len(srvSent)) /\ srvSent \in Seq(Nat)
    BY <1>3, <1>6
  <2>4. srvGot = Run(0, Len(srvGot)) /\ srvGot \in Seq(Nat)
    BY <1>3, <1>6
  <2>5. srvKeys \in [Slots -> Key]
    BY <1>3, KeyTyped
  <2>6. readUpTo \in 0..Len(out)
    BY <1>2, <1>3, <1>6
  <2>7. phase \in {"hello", "flight", "finished", "connected", "closed"}
    BY <1>3
  <2>8. owes \in BOOLEAN /\ srvEnded \in BOOLEAN /\ told \in BOOLEAN /\ broken \in BOOLEAN
    BY <1>3
  <2> QED
    BY <2>1, <2>2, <2>3, <2>4, <2>5, <2>6, <2>7, <2>8 DEF ServerTyped
<1>8. ServerShape
  BY <1>3 DEF ServerShape
<1>9. ~Live
  BY <1>2 DEF Live
<1>10. ClientShape
  BY <1>2, <1>3, <1>4, <1>6, <1>9 DEF ClientShape, InOrder
<1>11. BeforeRetry
  BY <1>2, <1>3, <1>9 DEF BeforeRetry
<1>12. InPhase
  BY <1>2, <1>3, <1>11 DEF InPhase
<1>13. ToClient /\ ToServer
  BY <1>3 DEF ToClient, ToServer
<1> QED
  BY <1>5, <1>7, <1>8, <1>10, <1>12, <1>13 DEF SInv

LEMMA SInvStep == SInv /\ [SessionNext]_sessionVars => SInv'
<1> SUFFICES ASSUME SInv, [SessionNext]_sessionVars PROVE SInv'
  OBVIOUS
<1>1. TypeOK' /\ Lifecycle'
  BY SessionTypes DEF SInv, ServerTyped
<1>2. CASE ClientSteps
  BY <1>1, <1>2, ClientKeeps, HelloKeeps
<1>3. CASE ServerDuty
  <2>1. CASE ServerRetries
    BY <2>1, RetriesKeep
  <2>2. CASE ServerSaysHello
    BY <2>2, SaysHelloKeeps
  <2>3. CASE ServerPrepares
    BY <2>3, PreparesKeeps
  <2>4. CASE ServerSends
    BY <2>4, SendsKeep
  <2>5. CASE ServerReadsFinished
    BY <2>5, ReadsFinishedKeeps
  <2>6. CASE ServerReads
    BY <2>6, ReadsKeep
  <2>7. CASE ServerAnswers
    BY <2>7, WishKeeps
  <2> QED
    BY <1>3, <2>1, <2>2, <2>3, <2>4, <2>5, <2>6, <2>7 DEF ServerDuty
<1>4. CASE ServerWish
  BY <1>4, WishKeeps DEF ServerWish
<1>5. CASE StreamBreaks \/ UNCHANGED sessionVars
  BY <1>5, BreakKeeps
<1> QED
  BY <1>2, <1>3, <1>4, <1>5 DEF SessionNext, ClientSteps

\* The inductive invariant of the session: the two directions are streams of records, each
\* taken from one stage to the next, from the end that writes to the end that reads.
THEOREM SessionInvariant == SessionSpec => []SInv
  BY SInvInit, SInvStep, PTL DEF SessionSpec

\* The client of an honest server fails only when the streams break, and the server reads
\* every record of the client under the key and at the place it expects it.
THEOREM NoEndFails == SessionSpec => []HonestEndsNeverFail
<1>1. SInv => HonestEndsNeverFail
  BY DEF SInv, ClientShape, ServerTyped, HonestEndsNeverFail
<1> QED
  BY <1>1, SessionInvariant, PTL

LEMMA ConnectedIs ==
    ASSUME SInv, state = "CONNECTED"
    PROVE  /\ phase \in {"finished", "connected", "closed"}
           /\ srvTranscript \in Seq(Entry) /\ HelloEnd \in 1..Len(srvTranscript)
           /\ srvTranscript[HelloEnd].val \in ServerGroups
           /\ \E g \in [Nat -> Stage] : /\ PathToClient(g)
                                        /\ IsConnected(srvTranscript, HelloEnd, g[0])
<1>1. Live /\ ~At("hello") /\ ~At("flight")
  BY DEF Live, SInv, Lifecycle, CallsNest, At
<1>2. phase # "hello"
  BY <1>1 DEF SInv, InPhase, BeforeRetry, AfterRetry
<1>3. PICK g \in [Nat -> Stage] : PathToClient(g)
  BY <1>1, <1>2 DEF SInv, ToClient
<1>4. IsConnected(srvTranscript, HelloEnd, g[0])
  BY <1>1, <1>3 DEF PathToClient, ClientAt, AwaitsHello, InFlight
<1>5. phase # "flight"
  BY DEF SInv, InPhase
<1> QED
  BY <1>2, <1>3, <1>4, <1>5, ServerHelloThere DEF SInv, ServerTyped

\* A connection that is up is with that server: its chain is the one authenticated, the group
\* one it supports, the ALPN the one it chose, and the transcript its own, a HelloRetryRequest
\* included.
THEOREM ConnectsToServer == SessionSpec => []ConnectedToServer
<1>1. SInv => ConnectedToServer
  <2> SUFFICES ASSUME SInv, state = "CONNECTED"
               PROVE  /\ authentic = ServerChain /\ share \in ServerGroups
                      /\ phase \in {"finished", "connected", "closed"}
                      /\ SubSeq(transcript, 1, Len(transcript) - 1)
                            = SubSeq(srvTranscript, 1, Len(transcript) - 1)
                      /\ \E i \in 1..Len(srvTranscript) :
                            srvTranscript[i].type = "encrypted_extensions" /\ alpn = srvTranscript[i].val
    BY DEF ConnectedToServer
  <2>1. PICK th \in Seq(Entry), n \in Nat, k \in Nat :
          /\ th = srvTranscript /\ n = HelloEnd /\ k = Len(th) /\ n \in 1..k
    BY ConnectedIs, LenProperties
  <2>2. PICK v : IsConnected(th, n, v)
    BY <2>1, ConnectedIs
  <2>3. n + 4 <= k /\ transcript = WithClientFinished(th, n) /\ Checked(th, n, 4)
    BY <2>1, <2>2 DEF IsConnected
  <2>4. PICK x \in Seq(Entry), e \in Entry :
          x = ThroughFlight(th, n) /\ e = EntryOf(ClientFinished(x)) /\ Len(x) = n + 4
    <3>1. n + 4 \in 0..Len(th)
      BY <2>1, <2>3
    <3>2. ThroughFlight(th, n) \in Seq(Entry) /\ Len(ThroughFlight(th, n)) = n + 4
      BY <3>1, BeginningIs DEF ThroughFlight
    <3>3. ClientFinished(ThroughFlight(th, n)) \in Message
      BY <3>2, NamesTyped, MessageTyped DEF ClientFinished
    <3> QED
      BY <3>2, <3>3, MessageTyped
  <2>5. transcript = Append(x, e) /\ Len(transcript) = n + 5 /\ SubSeq(transcript, 1, n + 4) = x
    <3>1. transcript = Append(x, e)
      BY <2>3, <2>4 DEF WithClientFinished
    <3>2. n + 4 \in 0..Len(x)
      BY <2>4
    <3>3. Len(Append(x, e)) = Len(x) + 1 /\ SubSeq(Append(x, e), 1, n + 4) = SubSeq(x, 1, n + 4)
      BY <3>2, BeginningsKept
    <3>4. SubSeq(x, 1, n + 4) = x
      BY <2>4, FullBeginning
    <3> QED
      BY <2>4, <3>1, <3>3, <3>4
  <2>6. (n + 5) - 1 = n + 4 /\ n + 1 \in 1..k
    BY <2>1, <2>3
  <2>7. /\ authentic = ServerChain /\ share = th[n].val
        /\ th[n + 1].type = "encrypted_extensions" /\ alpn = th[n + 1].val
    BY <2>3 DEF Checked
  <2>8. SubSeq(transcript, 1, Len(transcript) - 1) = SubSeq(srvTranscript, 1, Len(transcript) - 1)
    <3>1. Len(transcript) - 1 = n + 4
      BY <2>5, <2>6
    <3> QED
      BY <2>1, <2>4, <2>5, <3>1 DEF ThroughFlight
  <2> QED
    BY <2>1, <2>6, <2>7, <2>8, ConnectedIs
<1> QED
  BY <1>1, SessionInvariant, PTL

\* When nothing is on the way, both ends hold the same transcript and the same application
\* keys, generation and sequence number included, after any crossing of key updates.
THEOREM BothEndsAgree == SessionSpec => []EndsAgree
<1>1. SInv => EndsAgree
  <2> SUFFICES ASSUME SInv, state = "CONNECTED", phase = "connected", toClient = <<>>,
                      readUpTo = Len(out), buf = <<>>
               PROVE  /\ transcript = srvTranscript
                      /\ keys["client_app"] = srvKeys["client_app"]
                      /\ keys["server_app"] = srvKeys["server_app"]
    BY DEF EndsAgree
  <2>1. PICK g \in [Nat -> Stage] : PathToClient(g) /\ IsConnected(srvTranscript, HelloEnd, g[0])
    BY ConnectedIs
  <2>2. transcript = WithClientFinished(srvTranscript, HelloEnd)
    BY <2>1 DEF IsConnected
  <2>3. srvTranscript = WithClientFinished(srvTranscript, HelloEnd)
    BY DEF SInv, ServerShape
  <2>4. g[0].key = keys["server_app"]
    <3>1. \A x : <<x>> # <<>>
      OBVIOUS
    <3> QED
      BY <2>1, <3>1 DEF IsConnected
  <2>5. g[0].key = srvKeys["server_app"]
    <3>1. ServerAt(g[0])
      BY <2>1 DEF PathToClient
    <3> QED
      BY <3>1 DEF ServerAt
  <2>6. PICK h \in [Nat -> WriteStage] : PathToServer(h)
    BY DEF SInv, ToServer
  <2>7. h[readUpTo].key = srvKeys["client_app"]
    <3>1. h[readUpTo] = [key |-> srvKeys["client_app"], data |-> Len(srvGot), ended |-> FALSE]
      BY <2>6 DEF PathToServer, ServerReadsAt
    <3> QED
      BY <3>1
  <2>8. h[Len(out)].key = keys["client_app"]
    <3>1. Live
      BY DEF Live
    <3> QED
      BY <2>6, <3>1 DEF PathToServer, ClientWritesAt
  <2> QED
    BY <2>2, <2>3, <2>4, <2>5, <2>7, <2>8
<1> QED
  BY <1>1, SessionInvariant, PTL

-----------------------------------------------------------------------------
(* The secure stream the two ends implement: the variables of module SecureStream, as the     *)
(* instance Stream of module TlsSession gives them, and what its steps are in their terms.    *)

\* Each end writes data after its Finished, and ends its direction with a close_notify.
ClientOpen  == conn > 0 /\ \E i \in 1..Len(out) : out[i].key.label = "client_hs"
ClientEnded == \E i \in 1..Len(out) : out[i].inner = "alert"
ServerOpen  == phase \notin {"hello", "flight"}
Pair(a, b)  == [client |-> a, server |-> b]
PairEnds    == {"client", "server"}

LEMMA PairsAre ==
    ASSUME NEW a, NEW b, NEW c
    PROVE  /\ Pair(a, b)["client"] = a /\ Pair(a, b)["server"] = b
           /\ [Pair(a, b) EXCEPT !["client"] = c] = Pair(c, b)
           /\ [Pair(a, b) EXCEPT !["server"] = c] = Pair(a, c)
           /\ Pair(a, a) = [e \in PairEnds |-> a]
<1>1. Pair(a, b)["client"] = a /\ Pair(a, b)["server"] = b
  BY DEF Pair
<1>2. [Pair(a, b) EXCEPT !["client"] = c] = Pair(c, b)
  BY DEF Pair
<1>3. [Pair(a, b) EXCEPT !["server"] = c] = Pair(a, c)
  BY DEF Pair
<1>4. Pair(a, a) = [e \in PairEnds |-> a]
  BY DEF Pair, PairEnds
<1> QED
  BY <1>1, <1>2, <1>3, <1>4

OpenBar     == Pair(ClientOpen, ServerOpen)
SentBar     == Pair([i \in 1..accepted |-> i], srvSent)
ReceivedBar == Pair(srvGot, got)
EndedBar    == Pair(ClientEnded, srvEnded)
ToldBar     == Pair(phase = "closed", told)

\* Each action of SecureStream, for either end.
LEMMA StreamOpens ==
    ASSUME NEW e \in PairEnds, ~OpenBar[e], NEW t, t = TRUE, OpenBar' = [OpenBar EXCEPT ![e] = t],
           UNCHANGED <<SentBar, ReceivedBar, EndedBar, ToldBar>>
    PROVE  Stream!Next
<1>1. Stream!Open(e)
  BY DEF Stream!Open, OpenBar, SentBar, ReceivedBar, EndedBar, ToldBar, Pair, ClientOpen,
         ServerOpen, ClientEnded
<1> QED
  BY <1>1 DEF Stream!Next, PairEnds

LEMMA StreamSends ==
    ASSUME NEW e \in PairEnds, OpenBar[e], ~EndedBar[e], NEW n \in 1..MaxUnits,
           SentBar' = [SentBar EXCEPT ![e] = @ \o [i \in 1..n |-> Len(@) + i]],
           UNCHANGED <<OpenBar, ReceivedBar, EndedBar, ToldBar>>
    PROVE  Stream!Next
<1>1. Stream!Send(e)
  BY DEF Stream!Send, OpenBar, SentBar, ReceivedBar, EndedBar, ToldBar, Pair, ClientOpen,
         ServerOpen, ClientEnded
<1> QED
  BY <1>1 DEF Stream!Next, PairEnds

LEMMA StreamDelivers ==
    ASSUME NEW e \in PairEnds, ~ToldBar[e],
           NEW n \in Len(ReceivedBar[e]) + 1 .. Len(SentBar[e]),
           ReceivedBar' = [ReceivedBar EXCEPT ![e] = SubSeq(SentBar[e], 1, n)],
           UNCHANGED <<OpenBar, SentBar, EndedBar, ToldBar>>
    PROVE  Stream!Next
<1>1. Stream!Deliver(e)
  BY DEF Stream!Deliver, OpenBar, SentBar, ReceivedBar, EndedBar, ToldBar, Pair, ClientOpen,
         ServerOpen, ClientEnded
<1> QED
  BY <1>1 DEF Stream!Next, PairEnds

LEMMA StreamEnds ==
    ASSUME NEW e \in PairEnds, OpenBar[e], ~EndedBar[e], NEW t, t = TRUE, EndedBar' = [EndedBar EXCEPT ![e] = t],
           UNCHANGED <<OpenBar, SentBar, ReceivedBar, ToldBar>>
    PROVE  Stream!Next
<1>1. Stream!End(e)
  BY DEF Stream!End, OpenBar, SentBar, ReceivedBar, EndedBar, ToldBar, Pair, ClientOpen,
         ServerOpen, ClientEnded
<1> QED
  BY <1>1 DEF Stream!Next, PairEnds

LEMMA StreamTells ==
    ASSUME NEW e \in PairEnds, EndedBar[e], ~ToldBar[e], ReceivedBar[e] = SentBar[e],
           NEW t, t = TRUE, ToldBar' = [ToldBar EXCEPT ![e] = t],
           UNCHANGED <<OpenBar, SentBar, ReceivedBar, EndedBar>>
    PROVE  Stream!Next
<1>1. Stream!Tell(e)
  BY DEF Stream!Tell, OpenBar, SentBar, ReceivedBar, EndedBar, ToldBar, Pair, ClientOpen,
         ServerOpen, ClientEnded
<1> QED
  BY <1>1 DEF Stream!Next, PairEnds

\* And no action of it.
LEMMA StreamRests ==
    ASSUME UNCHANGED <<OpenBar, SentBar, ReceivedBar, EndedBar, ToldBar>>
    PROVE  UNCHANGED Stream!streamVars
  BY DEF Stream!streamVars, OpenBar, SentBar, ReceivedBar, EndedBar, ToldBar, Pair, ClientOpen,
         ServerOpen, ClientEnded

LEMMA StreamBegins ==
    ASSUME /\ OpenBar = Pair(FALSE, FALSE) /\ SentBar = Pair(<<>>, <<>>)
           /\ ReceivedBar = Pair(<<>>, <<>>) /\ EndedBar = Pair(FALSE, FALSE)
           /\ ToldBar = Pair(FALSE, FALSE)
    PROVE  Stream!Init
  BY PairsAre DEF Stream!Init, OpenBar, SentBar, ReceivedBar, EndedBar, ToldBar, Pair, ClientOpen,
         ServerOpen, ClientEnded, PairEnds


-----------------------------------------------------------------------------
(* What a step of the client does to the stream *)

\* send() has no more to write than it was given.
Room == At("send") => accepted + call.todo <= MaxUnits

LEMMA RoomKept ==
    ASSUME TypeOK, Lifecycle, Room, ClientSteps
    PROVE  Room'
<1>0. call \in Call /\ accepted \in Nat /\ MaxUnits \in Nat /\ call.todo \in Nat
  BY ClientAssumption DEF TypeOK, Call
<1>1. \A e : Fail(e) \/ Return(e) => call'.loop # "send"
  BY DEF Fail, Return, NoCall
<1>2. \A l : GoTo(l) => call'.loop = l /\ call'.todo = call.todo
  BY <1>0 DEF GoTo, Call
<1>3. CASE Calls
  <2>1. ASSUME NEW g, Connect(g) PROVE Room'
    BY <1>2, <2>1 DEF Connect, Room, At
  <2>2. ASSUME NEW n \in 1..2, Send(n) PROVE Room'
    <3>1. call' = [call EXCEPT !.loop = "send", !.todo = n] /\ accepted + n <= MaxUnits
          /\ accepted' = accepted
      BY <2>2 DEF Send, dataVars
    <3>2. call'.todo = n
      BY <1>0, <3>1 DEF Call
    <3> QED
      BY <3>1, <3>2 DEF Room
  <2>3. ASSUME NEW n, RecvPending(n) \/ RecvStart(n) PROVE Room'
    <3>1. RecvStart(n) => call'.loop = "recv"
      BY <1>0 DEF RecvStart, Call
    <3> QED
      BY <1>1, <2>3, <3>1 DEF RecvPending, Room, At
  <2>4. ASSUME NEW request, NEW ok, KeyUpdate(request, ok) PROVE Room'
    BY <1>1, <2>4 DEF KeyUpdate, FailWith, Room, At
  <2>5. ASSUME NEW ok, Close(ok) PROVE Room'
    BY <2>5 DEF Close, Room, At
  <2>6. CASE Reset
    BY <2>6 DEF Reset, Room, At
  <2> QED
    BY <1>3, <2>1, <2>2, <2>3, <2>4, <2>5, <2>6 DEF Calls, ClientCall, ClientRecv
<1>4. CASE Runs
  <2>1. CASE \/ HelloRejected \/ FlightRejected \/ PostRejected \/ PeerKeyUpdateFails \/ SendDone
    BY <1>1, <2>1 DEF HelloRejected, FlightRejected, PostRejected, PeerKeyUpdateFails, SendDone,
       FailWith, Room, At
  <2>2. CASE ServerHello \/ PostDone
    BY <1>2, <2>2 DEF ServerHello, PostDone, Room, At
  <2>3. CASE NewSessionTicket \/ PeerKeyUpdate \/ PeerKeyUpdateRequested
    BY <2>3 DEF NewSessionTicket, PeerKeyUpdate, PeerKeyUpdateRequested, AtPost, AtKeyUpdate, PostGoesOn,
       Room, At
  <2>4. CASE EncryptedExtensions \/ Certificate \/ CertificateVerify
    <3>1. At("flight") /\ call'.loop = call.loop
      BY <1>0, <2>4 DEF EncryptedExtensions, Certificate, CertificateVerify, AtFlight, Call
    <3> QED
      BY <3>1 DEF Room, At
  <2>5. ASSUME NEW ok, HelloRetry(ok) PROVE Room'
    <3>1. At("hello") /\ (call' = [call EXCEPT !.hadHrr = TRUE] \/ FailWith(RetryErrors))
      BY <2>5 DEF HelloRetry, AtHello
    <3>2. call'.loop # "send"
      BY <1>0, <1>1, <3>1 DEF FailWith, At, Call
    <3> QED
      BY <3>2 DEF Room, At
  <2>6. ASSUME NEW ok, Finished(ok) PROVE Room'
    <3>1. call' = NoCall
      BY <2>6 DEF Finished, FailWith, Fail
    <3> QED
      BY <3>1 DEF Room, At, NoCall
  <2>7. ASSUME NEW ok, SendChunk(ok) PROVE Room'
    <3>1. CASE FailWith(SendErrors)
      BY <1>1, <3>1 DEF FailWith, Room, At
    <3>2. CASE accepted' = accepted + 1 /\ call' = [call EXCEPT !.todo = @ - 1]
      <4>1. call'.todo = call.todo - 1
        BY <1>0, <3>2 DEF Call
      <4>2. accepted' + call'.todo = accepted + call.todo
        BY <1>0, <3>2, <4>1
      <4> QED
        BY <2>7, <4>2 DEF Room, SendChunk
    <3> QED
      BY <2>7, <3>1, <3>2 DEF SendChunk
  <2> QED
    BY <1>4, <2>1, <2>2, <2>3, <2>4, <2>5, <2>6, <2>7 DEF Runs, ClientLocalStep
<1>5. CASE Reads
  <2>1. ~At("send") /\ (\/ call' = call \/ call'.loop # "send")
    BY <1>1, <1>2, <1>5 DEF Reads, Receive, HelloRecord, FlightRecord, RecvRecord, RemoteClose, NoCall, At
  <2> QED
    BY <2>1 DEF Room, At
<1>6. CASE ReadsNothing
  BY <1>1, <1>6 DEF ReadsNothing, ReadFails, Room, At
<1> QED
  BY <1>3, <1>4, <1>5, <1>6 DEF ClientSteps


SameStream == accepted' = accepted /\ got' = got /\ told' = told
\* Nothing, or recv() returns data.
Silent ==
    /\ out' = out /\ accepted' = accepted /\ told' = told
    /\ \/ got' = got
       \/ state = "CONNECTED" /\ state' = state /\ \E w \in Seq(Nat) : got' = got \o w
SpeaksHandshake == /\ SameStream
                   /\ \E r \in Record : out' = Append(out, r) /\ r.inner # "alert"
SpeaksData == /\ state = "CONNECTED" /\ accepted' = accepted + 1 /\ accepted' <= MaxUnits
              /\ got' = got /\ told' = told
              /\ out' = Append(out, ProtectedData(keys["client_app"], <<accepted + 1>>))
SpeaksEnd  == /\ state = "CONNECTED" /\ SameStream
              /\ out' = Append(out, ProtectedAlert(keys["client_app"], "close_notify"))
IsTold ==
    /\ ~told /\ told' = TRUE /\ out' = out /\ accepted' = accepted /\ got' = got
    /\ state = "CONNECTED" /\ state' = "CLOSED" /\ toClient # <<>> /\ RecvRecord(Head(toClient))

LEMMA HandshakeSpoken ==
    ASSUME TypeOK, SameStream, NEW k \in Key, NEW m \in Message, NEW r,
           r \in {PlainHandshake(<<Whole(m)>>), ProtectedHandshake(k, <<Whole(m)>>)},
           out' = Append(out, r)
    PROVE  SpeaksHandshake
<1>1. r \in Record
  BY OneMessageTyped, RecordTyped
<1>2. r.inner # "alert"
  BY RecordsAre
<1> QED
  BY <1>1, <1>2 DEF SpeaksHandshake

LEMMA DeliverGrows ==
    ASSUME NEW plain \in Seq(Nat), NEW n \in Nat, Deliver(plain, Least(n, Len(plain)))
    PROVE  \E w \in Seq(Nat) : got' = got \o w
<1>1. PICK k \in 0..Len(plain) : k = Least(n, Len(plain))
  BY LeastTyped
<1>2. SubSeq(plain, 1, k) \in Seq(Nat)
  BY SubSeqProperties
<1> QED
  BY <1>1, <1>2 DEF Deliver


Speaks == \/ Silent \/ SpeaksHandshake \/ SpeaksData \/ SpeaksEnd

LEMMA FirstTyped ==
    ASSUME TypeOK, Complete(buf)
    PROVE  First(buf) \in Message
  BY BufferTyped DEF TypeOK

LEMMA CallSpeaks ==
    ASSUME TypeOK, ClientCall \/ ClientRecv, UNCHANGED told
    PROVE  (Speaks /\ conn' = conn) \/ \E g \in Groups : Connect(g)
<1>2. ASSUME NEW n \in Nat, RecvPending(n)
      PROVE  Silent /\ conn' = conn
  <2>1. pending \in Seq(Nat)
    BY DEF TypeOK
  <2>2. \E w \in Seq(Nat) : got' = got \o w
    BY <1>2, <2>1, DeliverGrows DEF RecvPending
  <2> QED
    BY <1>2, <2>2 DEF RecvPending, Return, Silent, ownVars, noteVars
<1>3. ASSUME NEW n \in Nat, RecvStart(n) \/ Send(n)
      PROVE  Silent /\ conn' = conn
  BY <1>3 DEF RecvStart, Send, Silent, noteVars, dataVars
<1>4. ASSUME NEW request \in BOOLEAN, NEW ok \in BOOLEAN, KeyUpdate(request, ok)
      PROVE  Speaks /\ conn' = conn
  <2>1. UNCHANGED <<conn, accepted, got, told>> /\ keys["client_app"] \in Key
    BY <1>4 DEF KeyUpdate, noteVars, dataVars, TypeOK, Slots
  <2>2. CASE ok = FALSE
    BY <1>4, <2>1, <2>2 DEF KeyUpdate, Silent, Speaks
  <2>3. CASE ok = TRUE
    <3>1. KeyUpdateMsg(request) \in Message
      BY NamesTyped, MessageTyped DEF KeyUpdateMsg
    <3>2. out' = Append(out, ProtectedHandshake(keys["client_app"], <<Whole(KeyUpdateMsg(request))>>))
      BY <1>4, <2>3 DEF KeyUpdate
    <3> QED
      BY <2>1, <3>1, <3>2, HandshakeSpoken DEF SameStream, Speaks
  <2> QED
    BY <2>1, <2>2, <2>3
<1>5. ASSUME NEW ok \in BOOLEAN, Close(ok)
      PROVE  Speaks /\ conn' = conn
  BY <1>5 DEF Close, Silent, SpeaksEnd, Speaks, SameStream, noteVars, dataVars
<1>6. CASE Reset
  BY <1>6 DEF Reset, Silent, Speaks
<1> QED
  BY <1>2, <1>3, <1>4, <1>5, <1>6 DEF ClientCall, ClientRecv, Speaks

LEMMA LocalSpeaks ==
    ASSUME TypeOK, Lifecycle, Room, ClientLocalStep, UNCHANGED told
    PROVE  Speaks /\ conn' = conn
<1>1. CASE \/ HelloRejected \/ FlightRejected \/ PostDone \/ NewSessionTicket
           \/ PostRejected \/ PeerKeyUpdate \/ PeerKeyUpdateFails \/ SendDone
  BY <1>1 DEF HelloRejected, FlightRejected, PostDone, NewSessionTicket, PostRejected,
       PeerKeyUpdate, PeerKeyUpdateFails, SendDone, PostGoesOn, Silent, Speaks, noteVars, dataVars
<1>2. CASE ServerHello
  BY <1>2 DEF ServerHello, Silent, Speaks, noteVars, dataVars
<1>3. CASE EncryptedExtensions \/ Certificate \/ CertificateVerify
  BY <1>3 DEF EncryptedExtensions, Certificate, CertificateVerify, FlightGoesOn, Silent, Speaks, dataVars
<1>4. ASSUME NEW ok \in BOOLEAN, HelloRetry(ok)
      PROVE  Speaks /\ conn' = conn
  <2>1. UNCHANGED <<conn, accepted, got, told>> /\ AtHello
    BY <1>4 DEF HelloRetry, noteVars, dataVars
  <2>2. CASE ok = FALSE
    BY <1>4, <2>1, <2>2 DEF HelloRetry, Silent, Speaks
  <2>3. CASE ok = TRUE
    <3>1. PICK m \in Message : m = First(buf)
      BY <2>1, FirstTyped DEF AtHello
    <3>2. ClientHello(m.val) \in Message
      BY <3>1, NamesTyped, MessageTyped DEF ClientHello, TypeOK, Message
    <3>3. out' = Append(out, PlainHandshake(<<Whole(ClientHello(m.val))>>))
      BY <1>4, <2>3, <3>1 DEF HelloRetry
    <3> QED
      BY <2>1, <3>2, <3>3, KeyTyped, HandshakeSpoken DEF SameStream, Speaks
  <2> QED
    BY <2>1, <2>2, <2>3
<1>5. ASSUME NEW ok \in BOOLEAN, Finished(ok)
      PROVE  Speaks /\ conn' = conn
  <2>1. UNCHANGED <<conn, accepted, got, told>> /\ AtFlight("finished") /\ keys["client_hs"] \in Key
    BY <1>5 DEF Finished, noteVars, dataVars, TypeOK, Slots
  <2>2. CASE ok = FALSE
    BY <1>5, <2>1, <2>2 DEF Finished, Silent, Speaks
  <2>3. CASE ok = TRUE
    <3>1. PICK m \in Message : m = First(buf)
      BY <2>1, FirstTyped DEF AtFlight
    <3>2. EntryOf(m) \in Entry /\ transcript \in Seq(Entry)
      BY <3>1, MessageTyped DEF TypeOK
    <3>3. ThroughServerFinished(m) \in Seq(Entry)
      BY <3>2, AppendProperties DEF ThroughServerFinished
    <3>4. ClientFinished(ThroughServerFinished(m)) \in Message
      BY <3>3, NamesTyped, MessageTyped DEF ClientFinished
    <3>5. out' = Append(out, ProtectedHandshake(keys["client_hs"],
                                     <<Whole(ClientFinished(ThroughServerFinished(m)))>>))
      BY <1>5, <2>3, <3>1 DEF Finished
    <3> QED
      BY <2>1, <3>4, <3>5, HandshakeSpoken DEF SameStream, Speaks
  <2> QED
    BY <2>1, <2>2, <2>3
<1>6. CASE PeerKeyUpdateRequested
  <2>1. /\ out' = Append(out, ProtectedHandshake(keys["client_app"], <<Whole(KeyUpdateMsg(FALSE))>>))
        /\ UNCHANGED <<conn, accepted, got, told>>
    BY <1>6 DEF PeerKeyUpdateRequested, PostGoesOn, noteVars, dataVars
  <2>2. KeyUpdateMsg(FALSE) \in Message /\ keys["client_app"] \in Key
    BY NamesTyped, MessageTyped DEF KeyUpdateMsg, TypeOK, Slots
  <2> QED
    BY <2>1, <2>2, HandshakeSpoken DEF SameStream, Speaks
<1>7. ASSUME NEW ok \in BOOLEAN, SendChunk(ok)
      PROVE  Speaks /\ conn' = conn
  <2>1. accepted + 1 <= MaxUnits
    <3>1. /\ accepted \in Nat /\ call.todo \in Nat /\ call.todo > 0 /\ MaxUnits \in Nat
          /\ accepted + call.todo <= MaxUnits
      BY <1>7, ClientAssumption DEF SendChunk, Room, TypeOK, Call
    <3> QED
      BY <3>1
  <2> QED
    BY <1>7, <2>1 DEF SendChunk, At, Lifecycle, CallsNest, Silent, SpeaksData, Speaks, noteVars
<1> QED
  BY <1>1, <1>2, <1>3, <1>4, <1>5, <1>6, <1>7 DEF ClientLocalStep

LEMMA ReadSpeaks ==
    ASSUME TypeOK, Lifecycle, ServerTyped, Reads
    PROVE  (Speaks \/ IsTold) /\ conn' = conn
<1>1. PICK r \in Record : r = Head(toClient) /\ Receive(r) /\ toClient # <<>>
  BY HeadTailProperties DEF Reads, ServerTyped
<1>2. told \in BOOLEAN /\ told' = (told \/ (state = "CONNECTED" /\ state' = "CLOSED"))
  BY DEF Reads, ServerTyped
<1>3. CASE HelloRecord(r) \/ FlightRecord(r)
  <2>1. UNCHANGED <<conn, got, accepted, out>> /\ state = "HANDSHAKING"
    BY <1>3 DEF HelloRecord, FlightRecord, dataVars, At, Lifecycle, CallsNest
  <2> QED
    BY <1>2, <2>1 DEF Silent, Speaks
<1>4. CASE RecvRecord(r)
  <2>1. UNCHANGED <<conn, accepted, out>> /\ state = "CONNECTED"
    BY <1>4 DEF RecvRecord, At, Lifecycle, CallsNest
  <2>2. \/ got' = got
        \/ /\ state' = state /\ Deliver(r.data, Least(call.want, Len(r.data)))
    BY <1>4 DEF RecvRecord
  <2>3. CASE got' = got
    <3>1. CASE told' = told
      BY <2>1, <2>3, <3>1 DEF Silent, Speaks
    <3>2. CASE told' # told
      BY <1>1, <1>2, <1>4, <2>1, <2>3, <3>2 DEF IsTold
    <3> QED
      BY <2>1, <3>1, <3>2
  <2>4. CASE state' = state /\ Deliver(r.data, Least(call.want, Len(r.data)))
    <3>1. r.data \in Seq(Nat) /\ call.want \in Nat
      BY DEF Record, TypeOK, Call
    <3>2. \E w \in Seq(Nat) : got' = got \o w
      BY <2>4, <3>1, DeliverGrows
    <3>3. told' = told
      BY <1>2, <2>1, <2>4
    <3> QED
      BY <2>1, <2>4, <3>2, <3>3 DEF Silent, Speaks
  <2> QED
    BY <2>2, <2>3, <2>4
<1> QED
  BY <1>1, <1>3, <1>4 DEF Receive


-----------------------------------------------------------------------------
(* The steps of the stream that those are *)

\* One lemma for each: what changes, and what is as it was.

LEMMA NumbersAre ==
    ASSUME NEW n \in Nat
    PROVE  [i \in 1..n |-> i] = Run(0, n)
<1> DEFINE s == [i \in 1..n |-> i]
<1>1. s \in Seq(Nat) /\ Len(s) = n /\ \A i \in 1..n : s[i] = 0 + i
  OBVIOUS
<1> HIDE DEF s
<1>2. s = Run(0, n)
  BY <1>1, IsRun
<1> QED
  BY <1>2 DEF s

LEMMA Heard ==
    ASSUME TypeOK, NEW r, out' = Append(out, r), conn' = conn
    PROVE  /\ ClientOpen' = (ClientOpen \/ (conn > 0 /\ r.key.label = "client_hs"))
           /\ ClientEnded' = (ClientEnded \/ r.inner = "alert")
<1>1. PICK n \in Nat : /\ n = Len(out) /\ Len(out') = n + 1 /\ out'[n + 1] = r
                       /\ \A i \in 1..n : out'[i] = out[i]
                       /\ \A i \in 1..(n + 1) : i \in 1..n \/ i = n + 1
  BY OutAppended
<1>2. n + 1 \in 1..(n + 1) /\ \A i \in 1..n : i \in 1..(n + 1)
  OBVIOUS
<1>3. /\ ClientOpen = (conn > 0 /\ \E i \in 1..n : out[i].key.label = "client_hs")
      /\ ClientOpen' = (conn > 0 /\ \E i \in 1..(n + 1) : out'[i].key.label = "client_hs")
      /\ ClientEnded = (\E i \in 1..n : out[i].inner = "alert")
      /\ ClientEnded' = (\E i \in 1..(n + 1) : out'[i].inner = "alert")
  BY <1>1 DEF ClientOpen, ClientEnded
<1>4. (\E i \in 1..(n + 1) : out'[i].key.label = "client_hs")
        <=> (\E i \in 1..n : out[i].key.label = "client_hs") \/ r.key.label = "client_hs"
  BY <1>1, <1>2, Zenon
<1>5. (\E i \in 1..(n + 1) : out'[i].inner = "alert")
        <=> (\E i \in 1..n : out[i].inner = "alert") \/ r.inner = "alert"
  BY <1>1, <1>2, Zenon
<1> QED
  BY <1>3, <1>4, <1>5

LEMMA RestsOf ==
    ASSUME UNCHANGED <<accepted, srvSent, srvGot, got, srvEnded, told, phase>>,
           ClientOpen' = ClientOpen, ClientEnded' = ClientEnded
    PROVE  UNCHANGED Stream!streamVars
  BY StreamRests DEF OpenBar, SentBar, ReceivedBar, EndedBar, ToldBar, Pair, ServerOpen

LEMMA ClientOpens ==
    ASSUME UNCHANGED <<accepted, srvSent, srvGot, got, srvEnded, told, phase>>,
           ~ClientOpen, ClientOpen' = TRUE, ClientEnded' = ClientEnded
    PROVE  Stream!Next
<1>1. UNCHANGED <<SentBar, ReceivedBar, EndedBar, ToldBar>>
  BY DEF SentBar, ReceivedBar, EndedBar, ToldBar, Pair
<1>2. ~OpenBar["client"]
  BY PairsAre DEF OpenBar
<1>t. PICK t : t = TRUE
  OBVIOUS
<1>3. OpenBar' = [OpenBar EXCEPT !["client"] = t]
  <2>1. OpenBar' = Pair(t, ServerOpen)
    BY <1>t DEF OpenBar, Pair, ServerOpen
  <2>2. PICK a, b : OpenBar = Pair(a, b) /\ b = ServerOpen
    BY DEF OpenBar
  <2>3. [Pair(a, b) EXCEPT !["client"] = t] = Pair(t, b)
    BY PairsAre
  <2> QED
    BY <2>1, <2>2, <2>3
<1> QED
  BY <1>1, <1>2, <1>3, <1>t, StreamOpens DEF PairEnds

LEMMA ClientSends ==
    ASSUME UNCHANGED <<srvSent, srvGot, got, srvEnded, told, phase>>,
           accepted \in Nat, accepted' = accepted + 1, accepted' <= MaxUnits, 
           ClientOpen, ClientOpen' = ClientOpen, ~ClientEnded, ClientEnded' = ClientEnded
    PROVE  Stream!Next
<1>1. UNCHANGED <<OpenBar, ReceivedBar, EndedBar, ToldBar>>
  BY DEF OpenBar, ReceivedBar, EndedBar, ToldBar, Pair, ServerOpen
<1>2. OpenBar["client"] /\ ~EndedBar["client"]
  <2>1. OpenBar["client"]
    BY PairsAre DEF OpenBar
  <2>2. ~EndedBar["client"]
    BY PairsAre DEF EndedBar
  <2> QED
    BY <2>1, <2>2
<1>3. PICK a \in Nat : a = accepted
  OBVIOUS
<1>4. SentBar["client"] = Run(0, a) /\ SentBar = Pair(Run(0, a), srvSent)
  BY <1>3, NumbersAre, PairsAre DEF SentBar
<1>5. SentBar' = Pair(Run(0, a + 1), srvSent)
  <2>1. a + 1 \in Nat
    OBVIOUS
  <2>2. SentBar' = Pair([i \in 1..accepted' |-> i], srvSent')
    BY DEF SentBar, Pair
  <2> QED
    BY <1>3, <2>1, <2>2, NumbersAre
<1>6. Run(0, a) \o [i \in 1..1 |-> Len(Run(0, a)) + i] = Run(0, a + 1)
  <2>1. Len(Run(0, a)) = a /\ 0 + a = a /\ 0 \in Nat /\ 1 \in Nat
    BY RunIs
  <2>2. [i \in 1..1 |-> Len(Run(0, a)) + i] = Run(a, 1)
    BY <2>1 DEF Run
  <2>3. Run(0, a) \o Run(0 + a, 1) = Run(0, a + 1)
    BY <2>1, RunsJoin
  <2> QED
    BY <2>1, <2>2, <2>3
<1>7. SentBar' = [SentBar EXCEPT !["client"] = @ \o [i \in 1..1 |-> Len(@) + i]]
  <2>1. [SentBar EXCEPT !["client"] = Run(0, a + 1)] = Pair(Run(0, a + 1), srvSent)
    BY <1>4, PairsAre
  <2> QED
    BY <1>4, <1>5, <1>6, <2>1
<1>8. 1 \in 1..MaxUnits
  BY <1>3, ClientAssumption
<1> QED
  BY <1>1, <1>2, <1>7, <1>8, StreamSends DEF PairEnds

LEMMA ClientEnds ==
    ASSUME UNCHANGED <<accepted, srvSent, srvGot, got, srvEnded, told, phase>>,
           ClientOpen, ClientOpen' = ClientOpen, ~ClientEnded, ClientEnded' = TRUE
    PROVE  Stream!Next
<1>1. UNCHANGED <<OpenBar, SentBar, ReceivedBar, ToldBar>>
  BY DEF OpenBar, SentBar, ReceivedBar, ToldBar, Pair, ServerOpen
<1>2. OpenBar["client"] /\ ~EndedBar["client"]
  <2>1. OpenBar["client"]
    BY PairsAre DEF OpenBar
  <2>2. ~EndedBar["client"]
    BY PairsAre DEF EndedBar
  <2> QED
    BY <2>1, <2>2
<1>t. PICK t : t = TRUE
  OBVIOUS
<1>3. EndedBar' = [EndedBar EXCEPT !["client"] = t]
  <2>1. EndedBar' = Pair(t, srvEnded)
    BY <1>t DEF EndedBar, Pair
  <2>2. PICK a, b : EndedBar = Pair(a, b) /\ b = srvEnded
    BY DEF EndedBar
  <2>3. [Pair(a, b) EXCEPT !["client"] = t] = Pair(t, b)
    BY PairsAre
  <2> QED
    BY <2>1, <2>2, <2>3
<1> QED
  BY <1>1, <1>2, <1>3, <1>t, StreamEnds DEF PairEnds



LEMMA ServerDelivers ==
    ASSUME SInv, SInv', UNCHANGED <<accepted, srvSent, srvGot, srvEnded, told, phase>>, ~told,
           ClientOpen' = ClientOpen, ClientEnded' = ClientEnded,
           Len(got) < Len(got'), Len(got') <= Len(srvSent)
    PROVE  Stream!Next
<1>1. UNCHANGED <<OpenBar, SentBar, EndedBar, ToldBar>>
  BY DEF OpenBar, SentBar, EndedBar, ToldBar, Pair, ServerOpen
<1>2. ~ToldBar["server"]
  BY PairsAre DEF ToldBar
<1>3. ReceivedBar["server"] = got /\ SentBar["server"] = srvSent
  <2>1. ReceivedBar["server"] = got
    BY PairsAre DEF ReceivedBar
  <2>2. SentBar["server"] = srvSent
    BY PairsAre DEF SentBar
  <2> QED
    BY <2>1, <2>2
<1>4. PICK l \in Nat, m \in Nat, s \in Nat :
        l = Len(got) /\ m = Len(got') /\ s = Len(srvSent) /\ l < m /\ m <= s
  BY LenProperties DEF SInv, TypeOK, ServerTyped
<1>5. got' = SubSeq(srvSent, 1, m)
  <2>1. got' = Run(0, m) /\ srvSent = Run(0, s)
    BY <1>4 DEF SInv, ClientShape, InOrder, ServerTyped
  <2>2. m \in 0..s /\ 0 \in Nat
    BY <1>4
  <2>3. SubSeq(Run(0, s), 1, m) = Run(0, m)
    BY <2>2, RunSplits
  <2> QED
    BY <2>1, <2>3
<1>6. ReceivedBar' = [ReceivedBar EXCEPT !["server"] = SubSeq(SentBar["server"], 1, m)]
  <2>1. ReceivedBar' = Pair(srvGot, got')
    BY DEF ReceivedBar, Pair
  <2>2. ReceivedBar = Pair(srvGot, got)
    BY DEF ReceivedBar
  <2>3. [Pair(srvGot, got) EXCEPT !["server"] = got'] = Pair(srvGot, got')
    BY PairsAre
  <2> QED
    BY <1>3, <1>5, <2>1, <2>2, <2>3
<1>7. m \in Len(ReceivedBar["server"]) + 1 .. Len(SentBar["server"])
  BY <1>3, <1>4
<1> QED
  BY <1>1, <1>2, <1>6, <1>7, StreamDelivers DEF PairEnds

LEMMA ServerTells ==
    ASSUME UNCHANGED <<accepted, srvSent, srvGot, got, srvEnded, phase>>,
           ClientOpen' = ClientOpen, ClientEnded' = ClientEnded,
           ~told, told' = TRUE, srvEnded, got = srvSent
    PROVE  Stream!Next
<1>1. UNCHANGED <<OpenBar, SentBar, ReceivedBar, EndedBar>>
  BY DEF OpenBar, SentBar, ReceivedBar, EndedBar, Pair, ServerOpen
<1>2. ~ToldBar["server"]
  BY PairsAre DEF ToldBar
<1>3. EndedBar["server"]
  BY PairsAre DEF EndedBar
<1>4. ReceivedBar["server"] = SentBar["server"]
  <2>1. ReceivedBar["server"] = got
    BY PairsAre DEF ReceivedBar
  <2>2. SentBar["server"] = srvSent
    BY PairsAre DEF SentBar
  <2> QED
    BY <2>1, <2>2
<1>5. PICK t : t = TRUE
  OBVIOUS
<1>6. ToldBar' = [ToldBar EXCEPT !["server"] = t]
  <2>1. PICK a : a = (phase = "closed")
    OBVIOUS
  <2>2. ToldBar = Pair(a, told) /\ ToldBar' = Pair(a, t)
    BY <1>5, <2>1 DEF ToldBar, Pair
  <2>3. [Pair(a, told) EXCEPT !["server"] = t] = Pair(a, t)
    BY PairsAre
  <2> QED
    BY <2>2, <2>3
<1> QED
  BY <1>1, <1>2, <1>3, <1>4, <1>5, <1>6, StreamTells DEF PairEnds


LEMMA ClientSpeaks ==
    ASSUME SInv, Room, ClientSteps
    PROVE  \/ (Speaks \/ IsTold) /\ conn' = conn
           \/ UNCHANGED told /\ \E g \in Groups : Connect(g)
<1>1. TypeOK /\ Lifecycle /\ ServerTyped
  BY DEF SInv
<1>2. CASE Calls
  BY <1>1, <1>2, CallSpeaks DEF Calls
<1>3. CASE Runs
  BY <1>1, <1>3, LocalSpeaks DEF Runs
<1>4. CASE Reads
  BY <1>1, <1>4, ReadSpeaks
<1>5. CASE ReadsNothing
  BY <1>5 DEF ReadsNothing, ReadFails, Silent, Speaks, noteVars, dataVars
<1> QED
  BY <1>2, <1>3, <1>4, <1>5 DEF ClientSteps

\* What recv() makes of close_notify: everything before it has been returned.
LEMMA AllReturned ==
    ASSUME SInv, Reads, IsTold
    PROVE  srvEnded /\ got = srvSent
<1>1. Live /\ phase # "hello" /\ InOrder /\ TypeOK /\ Lifecycle
  <2>1. Live
    BY DEF IsTold, Live
  <2>2. phase # "hello"
    BY <2>1 DEF IsTold, SInv, InPhase, BeforeRetry, AfterRetry, At, Lifecycle, CallsNest, Live
  <2> QED
    BY <2>1, <2>2 DEF SInv, ClientShape
<1>2. PICK g \in [Nat -> Stage] : PathToClient(g)
  BY <1>1 DEF SInv, ToClient
<1>3. PICK th, n, r : /\ th = srvTranscript /\ n = HelloEnd /\ r = Head(toClient) /\ r = toClient[1]
                      /\ RecvRecord(r)
  BY DEF IsTold, SInv, ServerTyped
<1>4. 0 \in 0..Len(toClient) /\ 1 \in 0..Len(toClient) /\ 1 \in 1..Len(toClient) /\ 1 - 1 = 0
  <2>1. PICK l \in Nat : l = Len(toClient) /\ l # 0
    BY LenProperties, EmptySeq DEF IsTold, SInv, ServerTyped
  <2> QED
    BY <2>1
<1>5. PICK a \in Stage, b \in Stage :
         /\ ClientAt(th, n, a) /\ StageOK(a) /\ StageOK(b) /\ Carries(th, n, r, a, b)
  <2>1. /\ ClientAt(th, n, g[0]) /\ StageOK(g[0]) /\ StageOK(g[1])
        /\ Carries(th, n, r, g[0], g[1])
    BY <1>2, <1>3, <1>4 DEF PathToClient
  <2> QED
    BY <2>1
<1>6. a.pos = 8 => a.key.label = "server_app"
  BY <1>5 DEF StageOK
<1>7. b.ended /\ b.data = Len(got)
  BY <1>1, <1>3, <1>5, <1>6, DataTaken DEF IsTold, KeepsQuiet
<1>8. srvEnded /\ Len(got) = Len(srvSent)
  BY <1>5, <1>7 DEF StageOK
<1>9. got = Run(0, Len(got)) /\ srvSent = Run(0, Len(srvSent))
  BY <1>1 DEF InOrder, SInv, ServerTyped
<1> QED
  BY <1>8, <1>9

\* Every step of the client is a step of the stream or leaves it alone.
LEMMA ClientStreams ==
    ASSUME SInv, SInv', Room, ClientSteps
    PROVE  Stream!Next \/ UNCHANGED Stream!streamVars
<1>1. UNCHANGED <<phase, srvSent, srvGot, srvEnded>>
  BY DEF ClientSteps, Calls, Runs, Reads, ReadsNothing, serverVars
<1>2. TypeOK /\ accepted \in Nat /\ conn \in Nat
  BY DEF SInv, TypeOK
<1>3. ASSUME NEW g \in Groups, Connect(g), UNCHANGED told
      PROVE  UNCHANGED Stream!streamVars
  <2>1. conn = 0 /\ phase = "hello"
    <3>1. conn < 1
      BY <1>2, <1>3, SessionAssumption, ClientAssumption DEF Connect, BeginConnect
    <3>2. conn = 0
      BY <1>2, <3>1
    <3> QED
      BY <3>2 DEF SInv, InPhase
  <2>2. out = <<>> /\ got = <<>> /\ accepted = 0 /\ got' = <<>> /\ accepted' = 0
    BY <1>3, <2>1 DEF SInv, ClientShape, Connect, BeginConnect
  <2>3. \A i \in 1..Len(out') : Plain(out'[i])
    BY <1>1, <2>1 DEF SInv, InPhase
  <2>4. ClientOpen' = ClientOpen
    <3>1. ClientOpen = FALSE
      BY <2>1 DEF ClientOpen
    <3>2. ClientOpen' = FALSE
      BY <2>3, LabelsAre DEF ClientOpen, Plain
    <3> QED
      BY <3>1, <3>2
  <2>5. ClientEnded' = ClientEnded
    <3>1. ClientEnded = FALSE
      BY <2>2, EmptySeq DEF ClientEnded
    <3>2. ClientEnded' = FALSE
      BY <2>3 DEF ClientEnded, Plain
    <3> QED
      BY <3>1, <3>2
  <2> QED
    BY <1>1, <1>3, <2>2, <2>4, <2>5, RestsOf
<1>4. ASSUME out' = out, conn' = conn
      PROVE  ClientOpen' = ClientOpen /\ ClientEnded' = ClientEnded
  <2>1. ClientOpen' = ClientOpen
    BY <1>4 DEF ClientOpen
  <2>2. ClientEnded' = ClientEnded
    BY <1>4 DEF ClientEnded
  <2> QED
    BY <2>1, <2>2
<1>5. CASE Silent /\ conn' = conn
  <2>1. out' = out /\ accepted' = accepted /\ told' = told
    BY <1>5 DEF Silent
  <2>2. CASE got' = got
    BY <1>1, <1>4, <1>5, <2>1, <2>2, RestsOf
  <2>3. CASE got' # got
    <3>1. state = "CONNECTED" /\ state' = state /\ \E w \in Seq(Nat) : got' = got \o w
      BY <1>5, <2>3 DEF Silent
    <3>2. Live /\ Live' /\ ~told
      BY <3>1 DEF SInv, ClientShape, Live
    <3>3. phase' # "hello"
      BY <3>1, <1>1 DEF SInv, InPhase, BeforeRetry, AfterRetry, At, Lifecycle, CallsNest, Live
    <3>4. PICK g \in [Nat -> Stage] : PathToClient(g)'
      BY <3>2, <3>3 DEF SInv, ToClient
    <3>5. 0 \in 0..Len(toClient')
      BY LenProperties DEF SInv, ServerTyped
    <3>6. PICK v \in Stage : v.data = Len(got') + Len(pending') /\ v.data <= Len(srvSent')
      BY <3>4, <3>5 DEF PathToClient, ClientAt, StageOK
    <3>7. PICK l \in Nat, m \in Nat, p \in Nat, x \in Nat :
            l = Len(got) /\ m = Len(got') /\ p = Len(pending') /\ x = Len(srvSent')
      BY LenProperties DEF SInv, TypeOK, ServerTyped
    <3>8. l < m
      <4>1. PICK w \in Seq(Nat) : got' = got \o w
        BY <3>1
      <4>2. m = l + Len(w) /\ Len(w) \in Nat
        <5>1. got \in Seq(Nat)
          BY DEF SInv, TypeOK
        <5> QED
          BY <3>7, <4>1, <5>1, ConcatProperties, LenProperties
      <4>3. got = Run(0, l) /\ got' = Run(0, m)
        BY <3>7 DEF SInv, ClientShape, InOrder
      <4>4. l # m
        BY <2>3, <4>3
      <4> QED
        BY <4>2, <4>4
    <3>9. m <= x
      BY <3>6, <3>7
    <3> QED
      BY <1>1, <1>4, <1>5, <2>1, <3>2, <3>7, <3>8, <3>9, ServerDelivers
  <2> QED
    BY <2>2, <2>3
<1>6. CASE SpeaksHandshake /\ conn' = conn
  <2>1. PICK r \in Record : out' = Append(out, r) /\ r.inner # "alert"
    BY <1>6 DEF SpeaksHandshake
  <2>2. ClientEnded' = ClientEnded
    <3>1. ClientEnded' = (ClientEnded \/ r.inner = "alert")
      BY <1>2, <1>6, <2>1, Heard
    <3> QED
      BY <2>1, <3>1 DEF ClientEnded
  <2>3. UNCHANGED <<accepted, got, told>>
    BY <1>6 DEF SpeaksHandshake, SameStream
  <2>4. ClientOpen => ClientOpen' = ClientOpen
    <3>1. ClientOpen' = (ClientOpen \/ (conn > 0 /\ r.key.label = "client_hs"))
      BY <1>2, <1>6, <2>1, Heard
    <3> QED
      BY <3>1 DEF ClientOpen
  <2>5. ClientOpen' = TRUE \/ ClientOpen' = FALSE
    BY DEF ClientOpen
  <2>6. ClientOpen = TRUE \/ ClientOpen = FALSE
    BY DEF ClientOpen
  <2>7. CASE ClientOpen' = ClientOpen
    BY <1>1, <2>2, <2>3, <2>7, RestsOf
  <2>8. CASE ~ClientOpen /\ ClientOpen' = TRUE
    BY <1>1, <2>2, <2>3, <2>8, ClientOpens
  <2> QED
    BY <2>4, <2>5, <2>6, <2>7, <2>8
<1>7. ASSUME state = "CONNECTED", conn' = conn, NEW r, out' = Append(out, r)
      PROVE  /\ ClientOpen /\ ClientOpen' = ClientOpen /\ ~ClientEnded
             /\ r.inner # "alert" => ClientEnded' = ClientEnded
             /\ r.inner = "alert" => ClientEnded' = TRUE
  <2>1. conn > 0
    BY <1>7 DEF SInv, ClientShape, Live
  <2>2. ClientOpen
    BY <1>7, <2>1 DEF SInv, InPhase, ClientOpen
  <2>3. ~ClientEnded
    BY <1>7 DEF SInv, InPhase, ClientEnded
  <2>4. ClientOpen' = (ClientOpen \/ (conn > 0 /\ r.key.label = "client_hs"))
    BY <1>2, <1>7, Heard
  <2>5. ClientEnded' = (ClientEnded \/ r.inner = "alert")
    BY <1>2, <1>7, Heard
  <2>6. ClientOpen' = ClientOpen
    BY <2>2, <2>4 DEF ClientOpen
  <2>7. r.inner # "alert" => ClientEnded' = ClientEnded
    BY <2>3, <2>5 DEF ClientEnded
  <2>8. r.inner = "alert" => ClientEnded' = TRUE
    BY <2>5
  <2> QED
    BY <2>2, <2>3, <2>6, <2>7, <2>8
<1>8. CASE SpeaksData /\ conn' = conn
  <2>1. PICK r : r = ProtectedData(keys["client_app"], <<accepted + 1>>) /\ r.inner # "alert"
    BY RecordsAre
  <2>2. /\ state = "CONNECTED" /\ out' = Append(out, r) /\ UNCHANGED <<got, told>>
        /\ accepted' = accepted + 1 /\ accepted' <= MaxUnits
    BY <1>8, <2>1 DEF SpeaksData
  <2>3. ClientOpen /\ ClientOpen' = ClientOpen /\ ~ClientEnded /\ ClientEnded' = ClientEnded
    BY <1>7, <1>8, <2>1, <2>2
  <2> QED
    BY <1>1, <1>2, <2>2, <2>3, ClientSends
<1>9. CASE SpeaksEnd /\ conn' = conn
  <2>1. PICK r : r = ProtectedAlert(keys["client_app"], "close_notify") /\ r.inner = "alert"
    BY RecordsAre
  <2>2. /\ state = "CONNECTED" /\ out' = Append(out, r) /\ UNCHANGED <<accepted, got, told>>
    BY <1>9, <2>1 DEF SpeaksEnd, SameStream
  <2>3. ClientOpen /\ ClientOpen' = ClientOpen /\ ~ClientEnded /\ ClientEnded' = TRUE
    BY <1>7, <1>9, <2>1, <2>2
  <2> QED
    BY <1>1, <2>2, <2>3, ClientEnds
<1>10. CASE IsTold /\ conn' = conn
  <2>1. Reads
    BY <1>10 DEF IsTold, ClientSteps, Calls, Runs, ReadsNothing
  <2>2. srvEnded /\ got = srvSent
    BY <1>10, <2>1, AllReturned
  <2> QED
    BY <1>1, <1>4, <1>10, <2>2, ServerTells DEF IsTold
<1> QED
  BY <1>3, <1>5, <1>6, <1>8, <1>9, <1>10, ClientSpeaks DEF Speaks


-----------------------------------------------------------------------------
(* What a step of the server does to the stream *)

SameClient == UNCHANGED <<accepted, got, told, out, conn>>

LEMMA ClientSame ==
    ASSUME SameClient
    PROVE  ClientOpen' = ClientOpen /\ ClientEnded' = ClientEnded
<1>1. ClientOpen' = ClientOpen
  BY DEF ClientOpen, SameClient
<1>2. ClientEnded' = ClientEnded
  BY DEF ClientEnded, SameClient
<1> QED
  BY <1>1, <1>2

LEMMA ServerQuiet ==
    ASSUME SameClient, UNCHANGED <<srvSent, srvGot, srvEnded>>,
           (phase' \in {"hello", "flight"}) = (phase \in {"hello", "flight"}),
           (phase' = "closed") = (phase = "closed")
    PROVE  UNCHANGED Stream!streamVars
<1>1. UNCHANGED <<OpenBar, EndedBar>>
  BY ClientSame DEF OpenBar, EndedBar, Pair, ServerOpen
<1>2. UNCHANGED <<SentBar, ReceivedBar, ToldBar>>
  BY DEF SentBar, ReceivedBar, ToldBar, Pair, SameClient
<1> QED
  BY <1>1, <1>2, StreamRests

LEMMA ServerOpens ==
    ASSUME SameClient, UNCHANGED <<srvSent, srvGot, srvEnded>>,
           phase = "flight", phase' = "finished"
    PROVE  Stream!Next
<1>1. UNCHANGED <<SentBar, ReceivedBar, EndedBar, ToldBar>>
  BY ClientSame DEF SentBar, ReceivedBar, EndedBar, ToldBar, Pair, SameClient
<1>2. PICK a, t : a = ClientOpen /\ t = TRUE
  OBVIOUS
<1>3. OpenBar = Pair(a, FALSE)
  BY <1>2 DEF OpenBar, ServerOpen, Pair
<1>4. OpenBar' = Pair(a, t)
  BY <1>2, ClientSame DEF OpenBar, ServerOpen, Pair
<1>5. ~OpenBar["server"]
  BY <1>3 DEF Pair
<1>6. OpenBar' = [OpenBar EXCEPT !["server"] = t]
  <2>1. PICK b : b = FALSE
    OBVIOUS
  <2>2. [Pair(a, b) EXCEPT !["server"] = t] = Pair(a, t)
    BY PairsAre
  <2> QED
    BY <1>3, <1>4, <2>1, <2>2
<1> QED
  BY <1>1, <1>2, <1>5, <1>6, StreamOpens DEF PairEnds

LEMMA ServerSendsData ==
    ASSUME SInv, SameClient, UNCHANGED <<srvGot, srvEnded, phase>>,
           phase \notin {"hello", "flight"}, ~srvEnded, NEW n \in 1..MaxUnits,
           srvSent' = srvSent \o [i \in 1..n |-> Len(srvSent) + i]
    PROVE  Stream!Next
<1>1. UNCHANGED <<OpenBar, ReceivedBar, EndedBar, ToldBar>>
  BY ClientSame DEF OpenBar, ReceivedBar, EndedBar, ToldBar, Pair, SameClient, ServerOpen
<1>2. OpenBar["server"] /\ ~EndedBar["server"]
  <2>1. OpenBar["server"]
    BY DEF OpenBar, Pair, ServerOpen
  <2>2. ~EndedBar["server"]
    BY DEF EndedBar, Pair
  <2> QED
    BY <2>1, <2>2
<1>3. PICK x : x = [i \in 1..accepted |-> i]
  OBVIOUS
<1>4. SentBar = Pair(x, srvSent) /\ SentBar' = Pair(x, srvSent')
  BY <1>3 DEF SentBar, Pair, SameClient
<1>5. SentBar' = [SentBar EXCEPT !["server"] = @ \o [i \in 1..n |-> Len(@) + i]]
  <2>1. SentBar["server"] = srvSent
    BY <1>4, PairsAre
  <2>2. PICK y, z : y = srvSent /\ z = srvSent'
    OBVIOUS
  <2>3. [Pair(x, y) EXCEPT !["server"] = z] = Pair(x, z)
    BY PairsAre
  <2> QED
    BY <1>4, <2>1, <2>2, <2>3
<1> QED
  BY <1>1, <1>2, <1>5, StreamSends DEF PairEnds

LEMMA ServerEnds ==
    ASSUME SameClient, UNCHANGED <<srvSent, srvGot, phase>>,
           phase \notin {"hello", "flight"}, ~srvEnded, srvEnded' = TRUE, srvEnded \in BOOLEAN
    PROVE  Stream!Next
<1>1. UNCHANGED <<OpenBar, SentBar, ReceivedBar, ToldBar>>
  BY ClientSame DEF OpenBar, SentBar, ReceivedBar, ToldBar, Pair, SameClient, ServerOpen
<1>2. OpenBar["server"] /\ ~EndedBar["server"]
  <2>1. OpenBar["server"]
    BY DEF OpenBar, Pair, ServerOpen
  <2>2. ~EndedBar["server"]
    BY DEF EndedBar, Pair
  <2> QED
    BY <2>1, <2>2
<1>3. PICK a, t : a = ClientEnded /\ t = TRUE
  OBVIOUS
<1>4. EndedBar = Pair(a, srvEnded) /\ EndedBar' = Pair(a, t)
  BY <1>3, ClientSame DEF EndedBar, Pair
<1>5. EndedBar' = [EndedBar EXCEPT !["server"] = t]
  <2>1. [Pair(a, srvEnded) EXCEPT !["server"] = t] = Pair(a, t)
    BY PairsAre
  <2> QED
    BY <1>4, <2>1
<1> QED
  BY <1>1, <1>2, <1>3, <1>5, StreamEnds DEF PairEnds

LEMMA ClientDelivers ==
    ASSUME SInv, SInv', SameClient, UNCHANGED <<srvSent, srvEnded, phase>>, phase # "closed",
           Len(srvGot) < Len(srvGot'), Len(srvGot') <= accepted
    PROVE  Stream!Next
<1>1. UNCHANGED <<OpenBar, SentBar, EndedBar, ToldBar>>
  BY ClientSame DEF OpenBar, SentBar, EndedBar, ToldBar, Pair, SameClient, ServerOpen
<1>2. ~ToldBar["client"]
  BY DEF ToldBar, Pair
<1>3. PICK l \in Nat, m \in Nat, s \in Nat :
        l = Len(srvGot) /\ m = Len(srvGot') /\ s = accepted /\ l < m /\ m <= s
  BY LenProperties DEF SInv, TypeOK, ServerTyped
<1>4. ReceivedBar["client"] = srvGot /\ SentBar["client"] = Run(0, s)
  <2>1. ReceivedBar["client"] = srvGot
    BY PairsAre DEF ReceivedBar
  <2>2. SentBar["client"] = Run(0, s)
    BY <1>3, PairsAre, NumbersAre DEF SentBar
  <2> QED
    BY <2>1, <2>2
<1>5. srvGot' = SubSeq(Run(0, s), 1, m)
  <2>1. srvGot' = Run(0, m)
    BY <1>3 DEF SInv, ServerTyped
  <2>2. m \in 0..s /\ 0 \in Nat
    BY <1>3
  <2>3. SubSeq(Run(0, s), 1, m) = Run(0, m)
    BY <2>2, RunSplits
  <2> QED
    BY <2>1, <2>3
<1>6. ReceivedBar' = [ReceivedBar EXCEPT !["client"] = SubSeq(SentBar["client"], 1, m)]
  <2>1. ReceivedBar' = Pair(srvGot', got)
    BY DEF ReceivedBar, Pair, SameClient
  <2>2. ReceivedBar = Pair(srvGot, got)
    BY DEF ReceivedBar
  <2>3. [Pair(srvGot, got) EXCEPT !["client"] = srvGot'] = Pair(srvGot', got)
    BY PairsAre
  <2> QED
    BY <1>4, <1>5, <2>1, <2>2, <2>3
<1>7. m \in Len(ReceivedBar["client"]) + 1 .. Len(SentBar["client"])
  <2>1. Len(Run(0, s)) = s
    BY RunIs
  <2> QED
    BY <1>3, <1>4, <2>1
<1> QED
  BY <1>1, <1>2, <1>6, <1>7, StreamDelivers DEF PairEnds

LEMMA ClientTells ==
    ASSUME SInv, SameClient, UNCHANGED <<srvSent, srvGot, srvEnded>>,
           phase = "connected", phase' = "closed", ClientEnded, Len(srvGot) = accepted
    PROVE  Stream!Next
<1>1. UNCHANGED <<OpenBar, SentBar, ReceivedBar, EndedBar>>
  BY ClientSame DEF OpenBar, SentBar, ReceivedBar, EndedBar, Pair, SameClient, ServerOpen
<1>2. ~ToldBar["client"]
  BY DEF ToldBar, Pair
<1>3. EndedBar["client"]
  BY PairsAre DEF EndedBar
<1>4. ReceivedBar["client"] = SentBar["client"]
  <2>1. PICK s \in Nat : s = accepted /\ srvGot = Run(0, s)
    BY DEF SInv, TypeOK, ServerTyped
  <2>2. ReceivedBar["client"] = Run(0, s)
    BY <2>1, PairsAre DEF ReceivedBar
  <2>3. SentBar["client"] = Run(0, s)
    BY <2>1, PairsAre, NumbersAre DEF SentBar
  <2> QED
    BY <2>2, <2>3
<1>5. PICK f, t : f = FALSE /\ t = TRUE
  OBVIOUS
<1>6. ToldBar' = [ToldBar EXCEPT !["client"] = t]
  <2>1. ToldBar = Pair(f, told) /\ ToldBar' = Pair(t, told)
    BY <1>5 DEF ToldBar, Pair, SameClient
  <2>2. [Pair(f, told) EXCEPT !["client"] = t] = Pair(t, told)
    BY PairsAre
  <2> QED
    BY <2>1, <2>2
<1> QED
  BY <1>1, <1>2, <1>3, <1>4, <1>5, <1>6, StreamTells DEF PairEnds


\* The server reads the next of the data, and close_notify behind all of them.
LEMMA ReadStreams ==
    ASSUME SInv, SInv', ServerReads
    PROVE  Stream!Next \/ UNCHANGED Stream!streamVars
<1>1. /\ SameClient /\ UNCHANGED <<srvSent, srvEnded>> /\ phase = "connected" /\ readUpTo < Len(out)
  BY DEF ServerReads, SameClient, vars, noteVars, dataVars
<1>2. phase' # "failed"
  BY DEF SInv, ServerTyped
<1>3. PICK r \in Record : r = FromClient
  <2>1. out \in Seq(Record) /\ readUpTo + 1 \in 1..Len(out)
    <3>1. PICK n \in Nat : n = Len(out) /\ readUpTo \in 0..n
      BY LenProperties DEF SInv, TypeOK, ServerTyped
    <3> QED
      BY <1>1, <3>1 DEF SInv, TypeOK
  <2> QED
    BY <2>1, ElementOfSeq DEF FromClient
<1>4. \/ phase' = phase /\ srvGot' = srvGot \o r.data
      \/ phase' = phase /\ srvGot' = srvGot
      \/ phase' = "closed" /\ srvGot' = srvGot /\ r.alert = "close_notify"
  BY <1>2, <1>3 DEF ServerReads
<1>5. CASE phase' = phase /\ srvGot' = srvGot
  BY <1>1, <1>5, ServerQuiet
<1>6. CASE phase' = phase /\ srvGot' = srvGot \o r.data /\ srvGot' # srvGot
  <2>1. PICK l \in Nat, m \in Nat, a \in Nat : l = Len(srvGot) /\ m = Len(srvGot') /\ a = accepted
    BY LenProperties DEF SInv, ServerTyped, TypeOK
  <2>2. l < m
    <3>1. m = l + Len(r.data) /\ Len(r.data) \in Nat
      <4>1. srvGot \in Seq(Nat) /\ r.data \in Seq(Nat)
        BY DEF SInv, ServerTyped, Record
      <4> QED
        BY <1>6, <2>1, <4>1, ConcatProperties, LenProperties
    <3>2. srvGot = Run(0, l) /\ srvGot' = Run(0, m)
      BY <2>1 DEF SInv, ServerTyped
    <3>3. l # m
      BY <1>6, <3>2
    <3> QED
      BY <3>1, <3>3
  <2>3. m <= a
    <3>1. PICK g \in [Nat -> WriteStage] : PathToServer(g)'
      BY <1>1, <1>6 DEF SInv, ToServer
    <3>2. readUpTo' \in readUpTo'..Len(out')
      <4>1. PICK n \in Nat : n = Len(out') /\ readUpTo' \in 0..n
        BY LenProperties DEF SInv, TypeOK, ServerTyped
      <4> QED
        BY <4>1
    <3>3. g[readUpTo'].data <= accepted'
      BY <3>1, <3>2 DEF PathToServer, WriteStageOK
    <3>4. g[readUpTo'].data = Len(srvGot')
      BY <1>1, <1>6, <3>1 DEF PathToServer, ServerReadsAt
    <3> QED
      BY <1>1, <2>1, <3>3, <3>4 DEF SameClient
  <2> QED
    BY <1>1, <1>6, <2>1, <2>2, <2>3, ClientDelivers
<1>7. CASE phase' = "closed" /\ srvGot' = srvGot /\ r.alert = "close_notify"
  <2>1. PICK g \in [Nat -> WriteStage] : PathToServer(g)
    BY <1>1 DEF SInv, ToServer
  <2>2. PICK u \in Nat, w \in Nat : u = readUpTo /\ w = Len(out) /\ u < w
    <3>1. PICK w \in Nat : w = Len(out) /\ readUpTo \in 0..w
      BY LenProperties DEF SInv, TypeOK, ServerTyped
    <3>2. readUpTo \in Nat
      BY <3>1
    <3> QED
      BY <1>1, <3>1, <3>2
  <2>3. u + 1 \in (u + 1)..w /\ u + 1 \in u..w /\ (u + 1) - 1 = u /\ u + 1 \in Nat /\ u + 1 \in 1..w
    BY <2>2
  <2>4. PICK a \in WriteStage, b \in WriteStage :
          /\ a = g[u] /\ Sends(srvTranscript, HelloEnd, r, a, b) /\ WriteStageOK(b)
    <3>1. Sends(srvTranscript, HelloEnd, out[u + 1], g[(u + 1) - 1], g[u + 1])
      BY <2>1, <2>2, <2>3 DEF PathToServer
    <3>2. WriteStageOK(g[u + 1])
      BY <2>1, <2>2, <2>3 DEF PathToServer
    <3> QED
      BY <1>3, <2>2, <2>3, <3>1, <3>2 DEF FromClient
  <2>5. a.data = Len(srvGot)
    <3>1. a = [key |-> srvKeys["client_app"], data |-> Len(srvGot), ended |-> FALSE]
      BY <1>1, <2>1, <2>2, <2>4 DEF PathToServer, ServerReadsAt
    <3> QED
      BY <3>1
  <2>6. SendsEnd(r, a, b)
    <3>1. (\A k, d : ProtectedData(k, d).alert = "none")
          /\ (\A k, fs : ProtectedHandshake(k, fs).alert = "none")
      BY DEF ProtectedData, ProtectedHandshake, Blank
    <3>2. ~SendsData(r, a, b) /\ ~SendsUpdate(r, a, b) /\ ~SendsFinished(srvTranscript, HelloEnd, r, a, b)
      BY <1>7, <3>1 DEF SendsData, SendsUpdate, SendsFinished
    <3> QED
      BY <2>4, <3>2 DEF Sends
  <2>7. r.inner = "alert" /\ b.ended /\ b.data = a.data
    <3>1. r.inner = "alert"
      BY <2>6, RecordsAre DEF SendsEnd
    <3>2. b.ended /\ b.data = a.data
      BY <2>6 DEF SendsEnd, WriteStage
    <3> QED
      BY <3>1, <3>2
  <2>8. Len(srvGot) = accepted
    BY <2>4, <2>5, <2>7 DEF WriteStageOK
  <2>9. ClientEnded
    <3>1. r = out[u + 1] /\ u + 1 \in 1..Len(out)
      BY <1>3, <2>2, <2>3 DEF FromClient
    <3> QED
      BY <2>7, <3>1 DEF ClientEnded
  <2> QED
    BY <1>1, <1>7, <2>8, <2>9, ClientTells
<1> QED
  BY <1>4, <1>5, <1>6, <1>7

\* Every step of the server is a step of the stream or leaves it alone.
LEMMA ServerStreams ==
    ASSUME SInv, SInv', ServerDuty \/ ServerWish \/ StreamBreaks \/ UNCHANGED sessionVars
    PROVE  Stream!Next \/ UNCHANGED Stream!streamVars
<1>1. SameClient
  <2>1. UNCHANGED <<vars, told>>
    BY DEF ServerDuty, ServerWish, StreamBreaks, sessionVars, ServerRetries, ServerSaysHello, Answer,
           ServerPrepares, ServerSends, ServerReadsFinished, ServerReads, ServerAnswers, ServerData,
           ServerTicket, ServerCloses, ServerUpdates, Writes
  <2> QED
    BY <2>1 DEF SameClient, vars, noteVars, dataVars
<1>2. phase' # "failed" /\ MaxUnits \in Nat
  BY ClientAssumption DEF SInv, ServerTyped
<1>3. CASE ServerRetries \/ ServerPrepares \/ ServerAnswers \/ ServerTicket
           \/ StreamBreaks \/ UNCHANGED sessionVars
           \/ \E request \in BOOLEAN : ServerUpdates(request)
  <2>1. UNCHANGED <<phase, srvSent, srvGot, srvEnded>>
    BY <1>3 DEF ServerRetries, Answer, ServerPrepares, ServerAnswers, ServerTicket, ServerUpdates,
           Writes, StreamBreaks, sessionVars, serverVars
  <2> QED
    BY <1>1, <2>1, ServerQuiet
<1>4. CASE ServerSaysHello
  <2>1. UNCHANGED <<srvSent, srvGot, srvEnded>> /\ phase = "hello" /\ phase' = "flight"
    BY <1>4 DEF ServerSaysHello, ClientHellos, Answer
  <2> QED
    BY <1>1, <2>1, ServerQuiet
<1>5. CASE ServerSends
  <2>1. UNCHANGED <<srvSent, srvGot, srvEnded>> /\ phase = "flight" /\ phase' \in {"flight", "finished"}
    BY <1>5 DEF ServerSends
  <2>2. CASE phase' = "flight"
    BY <1>1, <2>1, <2>2, ServerQuiet
  <2>3. CASE phase' = "finished"
    BY <1>1, <2>1, <2>3, ServerOpens
  <2> QED
    BY <2>1, <2>2, <2>3
<1>6. CASE ServerReadsFinished
  <2>1. UNCHANGED <<srvSent, srvGot, srvEnded>> /\ phase = "finished" /\ phase' = "connected"
    BY <1>2, <1>6 DEF ServerReadsFinished
  <2> QED
    BY <1>1, <2>1, ServerQuiet
<1>7. CASE ServerReads
  BY <1>7, ReadStreams
<1>8. CASE ServerData
  <2>1. PICK n \in 1..(MaxUnits - Len(srvSent)) :
           srvSent' = srvSent \o [i \in 1..n |-> Len(srvSent) + i]
    BY <1>8 DEF ServerData
  <2>2. n \in 1..MaxUnits
    <3>1. PICK l \in Nat : l = Len(srvSent)
      BY LenProperties DEF SInv, ServerTyped
    <3> QED
      BY <1>2, <2>1, <3>1
  <2>3. UNCHANGED <<srvGot, srvEnded, phase>> /\ phase \notin {"hello", "flight"} /\ ~srvEnded
    BY <1>8 DEF ServerData, MayWrite, Writes
  <2> QED
    BY <1>1, <2>1, <2>2, <2>3, ServerSendsData
<1>9. CASE ServerCloses
  <2>1. /\ UNCHANGED <<srvSent, srvGot, phase>> /\ phase \notin {"hello", "flight"}
        /\ ~srvEnded /\ srvEnded' = TRUE
    BY <1>9 DEF ServerCloses, MayWrite, Writes
  <2>2. srvEnded \in BOOLEAN
    BY DEF SInv, ServerTyped
  <2> QED
    BY <1>1, <2>1, <2>2, ServerEnds
<1> QED
  BY <1>3, <1>4, <1>5, <1>6, <1>7, <1>8, <1>9 DEF ServerDuty, ServerWish

LEMMA RoomStep == SInv /\ Room /\ [SessionNext]_sessionVars => Room'
<1> SUFFICES ASSUME SInv, Room, [SessionNext]_sessionVars PROVE Room'
  OBVIOUS
<1>1. CASE ClientSteps
  BY <1>1, RoomKept DEF SInv
<1>2. CASE ServerDuty \/ ServerWish \/ StreamBreaks \/ UNCHANGED sessionVars
  <2>1. UNCHANGED vars
    BY <1>2 DEF ServerDuty, ServerWish, StreamBreaks, sessionVars, ServerRetries, ServerSaysHello, Answer,
           ServerPrepares, ServerSends, ServerReadsFinished, ServerReads, ServerAnswers, ServerData,
           ServerTicket, ServerCloses, ServerUpdates, Writes
  <2> QED
    BY <2>1 DEF vars, dataVars, Room, At
<1> QED
  BY <1>1, <1>2 DEF SessionNext, ClientSteps

\* What both applications see is a secure stream: every step of the connection is a step of
\* module SecureStream or none of its business.
THEOREM ImplementsStream == SessionSpec => ImplementsSecureStream
<1>1. SessionInit => Stream!Init /\ Room
  <2> SUFFICES ASSUME SessionInit PROVE Stream!Init /\ Room
    OBVIOUS
  <2>1. conn = 0 /\ out = <<>> /\ accepted = 0 /\ got = <<>> /\ call = NoCall
    BY DEF SessionInit, Init
  <2>2. phase = "hello" /\ srvSent = <<>> /\ srvGot = <<>> /\ srvEnded = FALSE /\ told = FALSE
    BY DEF SessionInit
  <2>3. OpenBar = Pair(FALSE, FALSE)
    <3>1. ClientOpen = FALSE
      BY <2>1 DEF ClientOpen
    <3>2. ServerOpen = FALSE
      BY <2>2 DEF ServerOpen
    <3> QED
      BY <3>1, <3>2 DEF OpenBar
  <2>4. SentBar = Pair(<<>>, <<>>)
    <3>1. [i \in 1..accepted |-> i] = <<>>
      BY <2>1, NumbersAre, RunIs
    <3> QED
      BY <2>2, <3>1 DEF SentBar
  <2>5. ReceivedBar = Pair(<<>>, <<>>)
    BY <2>1, <2>2 DEF ReceivedBar
  <2>6. EndedBar = Pair(FALSE, FALSE)
    <3>1. ClientEnded = FALSE
      BY <2>1, EmptySeq DEF ClientEnded
    <3> QED
      BY <2>2, <3>1 DEF EndedBar
  <2>7. ToldBar = Pair(FALSE, FALSE)
    BY <2>2 DEF ToldBar
  <2>8. Room
    BY <2>1 DEF Room, At, NoCall
  <2> QED
    BY <2>3, <2>4, <2>5, <2>6, <2>7, <2>8, StreamBegins
<1>2. SInv /\ SInv' /\ Room /\ [SessionNext]_sessionVars => [Stream!Next]_(Stream!streamVars)
  BY ClientStreams, ServerStreams DEF SessionNext, ClientSteps
<1> QED
  BY <1>1, <1>2, RoomStep, SessionInvariant, PTL DEF SessionSpec, ImplementsSecureStream, Stream!Spec

=============================================================================
