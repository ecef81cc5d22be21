--------------------------- MODULE ClientLifecycle ---------------------------
(***************************************************************************)
(* What class TlsClient promises to its caller: every call is one step     *)
(* from a state to a state with a result, and the object holds keys and a  *)
(* stream exactly while it is CONNECTED.  The messages, the loops and the  *)
(* state HANDSHAKING, in which no call returns, are hidden.                *)
(*                                                                         *)
(* Each call is given by the outcomes it may have in a state, so that the  *)
(* module of a caller (XboxTlsClient) can compose several calls in one of  *)
(* its own steps.                                                          *)
(***************************************************************************)
CONSTANT Failures   \* errors that end a connection

VARIABLES
    state,          \* state_, as seen between calls
    result,         \* what the last call returned
    streamOpen,     \* the stream passed to connect() is in use
    secrets         \* some key or secret is in memory

lifecycleVars == <<state, result, streamOpen, secrets>>

Settled == {"IDLE", "CONNECTED", "CLOSED", "FAILED"}

Ends(st, e) == [state |-> st, result |-> e]
Broken      == {Ends("FAILED", e) : e \in Failures}

\* "complete": the configuration names a platform, stream, verifier and hostname.
ConnectOutcomes(st, complete) ==
    IF st = "IDLE" /\ complete THEN {Ends("CONNECTED", "OK")} \cup Broken
                               ELSE {Ends(st, "INVALID_ARGUMENT")}

\* send() and key_update(): a failed write ends the connection.
WriteOutcomes(st) ==
    IF st = "CONNECTED" THEN {Ends("CONNECTED", "OK")} \cup Broken
                        ELSE {Ends(st, "CLOSED")}

\* recv(): besides, a close_notify ends it in good order.
ReadOutcomes(st) ==
    WriteOutcomes(st) \cup IF st = "CONNECTED" THEN {Ends("CLOSED", "CLOSED")} ELSE {}

CloseOutcome == Ends("CLOSED", "OK")
ResetOutcome == Ends("IDLE", "OK")

-----------------------------------------------------------------------------

Becomes(o) ==
    /\ state' = o.state /\ result' = o.result
    /\ streamOpen' = (o.state = "CONNECTED")
    /\ secrets' = (o.state = "CONNECTED")

Init == /\ state = "IDLE" /\ result = "OK"
        /\ streamOpen = FALSE /\ secrets = FALSE

Connect == \E complete \in BOOLEAN : \E o \in ConnectOutcomes(state, complete) : Becomes(o)
Write   == \E o \in WriteOutcomes(state) : Becomes(o)
Read    == \E o \in ReadOutcomes(state) : Becomes(o)
Close   == Becomes(CloseOutcome)
Reset   == Becomes(ResetOutcome)

Next == Connect \/ Write \/ Read \/ Close \/ Reset

Spec == Init /\ [][Next]_lifecycleVars

=============================================================================
