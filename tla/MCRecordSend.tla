----------------------------- MODULE MCRecordSend -----------------------------
(* RecordSend on small instances for TLC. *)
EXTENDS RecordSend

\* Zeros where a scan for the content type could go astray, and content types.
McData == <<1, 0, 23, 0, 0, 21>>
=============================================================================
