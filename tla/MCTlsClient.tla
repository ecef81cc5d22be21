---------------------------- MODULE MCTlsClient ----------------------------
(* TlsClient on small instances for TLC. *)
EXTENDS TlsClient, TLC

\* The client treats its groups alike.
GroupSymmetry == Permutations(Groups)

\* The behaviours Client.cfg follows to their end.  In the first connection the handshake
\* may be as long as the bounds allow, and what follows it has neither data nor key updates.
LongHandshake ==
    /\ conn <= 1 /\ got = <<>> /\ pending = <<>> /\ accepted = 0
    /\ \A s \in Slots : keys[s].gen = 0

\* In both connections there are calls, data and key updates of any kind behind a handshake
\* of the shortest flights, with or without a HelloRetryRequest, and with one record of the
\* peer under each key.
ShortHandshake ==
    /\ \A i \in 1..Len(transcript) :
          transcript[i].type \notin {"encrypted_extensions", "certificate", "certificate_verify"}
    /\ keys["server_hs"].seq <= 1 /\ keys["server_app"].seq <= 1

Followed == LongHandshake \/ ShortHandshake
=============================================================================
