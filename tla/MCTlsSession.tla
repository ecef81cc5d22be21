----------------------------- MODULE MCTlsSession -----------------------------
(* TlsSession on small instances for TLC. *)
EXTENDS TlsSession
=============================================================================
