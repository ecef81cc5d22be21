----------------------------- MODULE SecureStream -----------------------------
(***************************************************************************)
(* What a TLS connection promises to the applications at its two ends:     *)
(* each direction is a queue that delivers what was sent, in order and     *)
(* once, that stops when the connection does, and whose end is reported    *)
(* to the receiver only after everything sent before it was delivered.     *)
(***************************************************************************)
EXTENDS Naturals, Sequences

CONSTANTS
    Ends,            \* the two ends; a direction is named by its sender
    MaxSend          \* bound: units that one record carries

VARIABLES
    open,            \* for each end, that it may send
    sent,            \* for each direction, the data sent
    received,        \* and how much of it was delivered
    ended,           \* the sender has ended its direction
    told             \* the receiver was told so

streamVars == <<open, sent, received, ended, told>>

Init ==
    /\ open = [e \in Ends |-> FALSE]
    /\ sent = [e \in Ends |-> <<>>]
    /\ received = [e \in Ends |-> <<>>]
    /\ ended = [e \in Ends |-> FALSE] /\ told = [e \in Ends |-> FALSE]

Open(e) ==
    /\ ~open[e]
    /\ open' = [open EXCEPT ![e] = TRUE]
    /\ UNCHANGED <<sent, received, ended, told>>

Send(e) ==
    /\ open[e] /\ ~ended[e]
    /\ \E n \in 1..MaxSend :
           sent' = [sent EXCEPT ![e] = @ \o [i \in 1..n |-> Len(@) + i]]
    /\ UNCHANGED <<open, received, ended, told>>

Deliver(e) ==
    /\ ~told[e]
    /\ \E n \in Len(received[e]) + 1 .. Len(sent[e]) :
           received' = [received EXCEPT ![e] = SubSeq(sent[e], 1, n)]
    /\ UNCHANGED <<open, sent, ended, told>>

End(e) ==
    /\ open[e] /\ ~ended[e]
    /\ ended' = [ended EXCEPT ![e] = TRUE]
    /\ UNCHANGED <<open, sent, received, told>>

Tell(e) ==
    /\ ended[e] /\ ~told[e] /\ received[e] = sent[e]
    /\ told' = [told EXCEPT ![e] = TRUE]
    /\ UNCHANGED <<open, sent, received, ended>>

Next == \E e \in Ends : Open(e) \/ Send(e) \/ Deliver(e) \/ End(e) \/ Tell(e)

Spec == Init /\ [][Next]_streamVars

=============================================================================
