---------------------------- MODULE MCTrustStore ----------------------------
(* TrustStore on small instances for TLC. *)
EXTENDS TrustStore, SequencesExt

San(names)     == [oid |-> "san", names |-> names]
Dns(value)     == [tag |-> "dns", value |-> value]
Constraints(ca, path) == [oid |-> "bc", ca |-> ca, path |-> path]
Usage(usages)  == [oid |-> "ku", usages |-> usages]
Purpose(purposes) == [oid |-> "eku", purposes |-> purposes]
Other(critical)   == [oid |-> "other", critical |-> critical]
BadExtension   == [oid |-> "malformed"]

Certificate(blocks) == [frame |-> TRUE, validity |-> TRUE, key |-> "rsa", blocks |-> blocks]

(* Hostnames: every name of up to four characters, against hosts of one to four labels. *)
McNames == SeqOf({"a", "A", ".", "*"}, 4)
McHosts == {<<"a">>, <<"A">>, <<".">>, <<"a", ".">>, <<".", "a">>, <<"a", ".", "a">>,
            <<"A", ".", "A">>, <<"*", ".", "a">>, <<"a", ".", ".", "a">>, <<"a", "a", ".", "a">>,
            <<"a", ".", "a", ".", "a">>, <<"a", ".", "a", "a">>}
Wildcard  == Dns(<<"*", ".", "a">>)
Email     == [tag |-> "other", value |-> <<"a", ".", "a">>]
BadName   == [tag |-> "malformed", value |-> <<>>]
NameLists == {<<Dns(n)>> : n \in McNames} \cup SeqOf({Wildcard, Dns(<<"a">>), Email, BadName}, 3)
NameCalls == {[cert |-> Certificate(<<<<San(l)>>>>), hostname |-> h] : l \in NameLists, h \in McHosts}

(* Extensions: every order of up to three, in one element or two. *)
McExtensions == {San(<<Wildcard>>), San(<<>>), Constraints(TRUE, {}), Constraints(TRUE, {0}),
                 Constraints(FALSE, {}), Usage({}), Usage({"digitalSignature"}),
                 Usage({"keyCertSign"}), Purpose({}), Purpose({"serverAuth"}), Other(TRUE), Other(FALSE), BadExtension}
Blocks == {<<s>> : s \in SeqOf(McExtensions, 3)}
          \cup {<<s, t>> : s \in SeqOf(McExtensions, 1), t \in SeqOf(McExtensions, 2)}
ExtensionCalls == {[cert |-> Certificate(b), hostname |-> <<"a", ".", "a">>] : b \in Blocks}
FrameCalls == {[cert |-> [frame |-> f, validity |-> v, key |-> k, blocks |-> <<>>], hostname |-> <<>>] :
                  f \in BOOLEAN, v \in BOOLEAN, k \in {"rsa", "p256", "unsupported", "bad"}}
McLeafCalls == NameCalls \cup ExtensionCalls \cup FrameCalls

(* Stores: three chunks of two roots, a certificate of an unknown key, octets that are no
   certificate, and two that end in the middle of an entry and of its length, which what
   follows them completes. *)
Root1 == <<1>>
Root2 == <<2, 0>>
Root  == Certificate(<<<<Constraints(TRUE, {})>>>>)
McCertificates == <<1>> :> Root @@ <<2, 0>> :> Root @@ <<3>> :> [Root EXCEPT !.key = "unsupported"]
Chunks == {<<0, 0, 1, 1>>, <<0, 0, 2, 2, 0>>, <<0, 0, 1, 3>>, <<0, 0, 1, 9>>, <<0, 0, 2>>, <<0, 0>>}
Stores(n) == {[kind |-> "store", count |-> n, body |-> FlattenSeq(c)] : c \in SeqOf(Chunks, 3)}
McBlobs == UNION {Stores(n) : n \in 0..3}
           \cup {[kind |-> k, count |-> 0, body |-> <<>>] : k \in {"short", "foreign"}}
McEntries == {<<>>, Root1, <<3>>}
=============================================================================
