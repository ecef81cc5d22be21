-------------------------- MODULE MCXboxTlsClient --------------------------
(* XboxTlsClient on small instances for TLC. *)
EXTENDS XboxTlsClient, TLC

CONSTANTS pin1, pin2

Opts(reconnect, notify, needAlpn, update, group, p) ==
    [reconnect |-> reconnect, notify |-> notify, needAlpn |-> needAlpn,
     update |-> update, group |-> group, pin |-> p]

\* Beside the defaults: pinned and strict, pinned otherwise and quick to end, and one
\* that connect() refuses after it has ended the connection before.
MCOptions == {Opts(FALSE, TRUE, TRUE, TRUE, TRUE, pin1),
              Opts(TRUE, FALSE, FALSE, TRUE, TRUE, pin2),
              Opts(TRUE, TRUE, FALSE, FALSE, FALSE, pin1)}

StoreSymmetry == Permutations(Stores)
=============================================================================
