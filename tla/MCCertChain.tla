----------------------------- MODULE MCCertChain -----------------------------
(* CertChain on a small public key infrastructure for TLC. *)
EXTENDS CertChain, SequencesExt

Authority(subject, issuer, key, signer) ==
    [parses |-> TRUE, refusal |-> "UNSUPPORTED", subject |-> subject, issuer |-> issuer,
     key |-> key, signer |-> signer, names |-> {}, current |-> TRUE, serverUse |-> TRUE,
     ca |-> TRUE, mayCertify |-> TRUE, limited |-> FALSE, path |-> 0]
Server(issuer, signer) ==
    [Authority("server", issuer, "ks", signer) EXCEPT !.names = {"host"}, !.ca = FALSE]

Inter == Authority("inter", "root", "ki", "kr")
Good  == Server("inter", "ki")

MCView ==
    [root    |-> Authority("root", "root", "kr", "kr"),
     short   |-> [Authority("root", "root", "kr", "kr") EXCEPT !.limited = TRUE],
     inter   |-> Inter,
     narrow  |-> [Inter EXCEPT !.limited = TRUE],
     expired |-> [Inter EXCEPT !.current = FALSE],
     usage   |-> [Inter EXCEPT !.mayCertify = FALSE],
     sub     |-> [Authority("sub", "inter", "kx", "ki") EXCEPT !.limited = TRUE, !.path = 1],
     roll    |-> Authority("inter", "inter", "kx", "ki"),
     direct  |-> Server("root", "kr"),
     good    |-> Good,
     ofSub   |-> Server("sub", "kx"),
     rolled  |-> Server("inter", "kx"),
     elder   |-> [Good EXCEPT !.current = FALSE],
     asCA    |-> [Good EXCEPT !.ca = TRUE],
     other   |-> [Good EXCEPT !.names = {}],
     garbage |-> [Good EXCEPT !.parses = FALSE],
     client  |-> [Good EXCEPT !.serverUse = FALSE]]

MCCerts == DOMAIN MCView
MCNames == {"root", "inter", "sub", "server"}
MCKeys  == {"kr", "ki", "kx", "ks"}

\* "roll": inter's new key, which its old key certifies (self-issued).
Authorities == {"root", "short", "inter", "narrow", "sub", "roll", "expired"}
Sound       == {"direct", "good", "ofSub", "rolled"}

\* Leaf first and up to three authorities above it; the leaves with a flaw of their own
\* with a chain that is sound but for them.
MCChains ==
    {<<>>, [i \in 1..9 |-> IF i = 1 THEN "good" ELSE "inter"], <<"good", "inter", "garbage">>}
    \cup {<<s>> \o u : s \in Sound, u \in SeqOf(Authorities, 3)}
    \cup {<<s>> \o u : s \in MCCerts \ Sound, u \in {<<>>, <<"inter">>}}
    \cup {<<"good", "usage">>, <<"ofSub", "sub", "usage">>}

MCAnchorLists == {<<>>} \cup {<<a>> : a \in Authorities \cup {"good", "usage"}}
                 \cup {<<"short", "root">>, <<"expired", "inter">>, <<"narrow", "short">>}

Proven == [scheme |-> "of_leaf", signer |-> "ks", covers |-> TRUE, refusal |-> "VERIFY"]

MCProofs == {Proven,
             [Proven EXCEPT !.covers = FALSE],
             [Proven EXCEPT !.signer = "kx", !.refusal = "UNSUPPORTED"],
             [Proven EXCEPT !.scheme = "other_kind"],
             [Proven EXCEPT !.scheme = "unknown"]}
=============================================================================
