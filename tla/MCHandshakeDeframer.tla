------------------------- MODULE MCHandshakeDeframer -------------------------
(* HandshakeDeframer on a stream of small messages for TLC. *)
EXTENDS HandshakeDeframer, TLC

\* EncryptedExtensions, two Certificates with a CertificateVerify each, Finished and four
\* more; some are their header alone.
MCEnds == <<3, 7, 9, 14, 16, 19, 23, 25, 30, 32>> @@ (0 :> 0)
=============================================================================
