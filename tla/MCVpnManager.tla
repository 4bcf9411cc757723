---------------------------- MODULE MCVpnManager ----------------------------
(* Small instances of VpnManager for TLC.                                  *)
EXTENDS VpnManager

Request(secret, auto, tokens) ==
    [password |-> TRUE, otpSecret |-> secret, autoReconnect |-> auto, tokens |-> tokens]

\* A profile without TOTP secret, with and without a token at connect time.
ManualRequests == {Request(FALSE, FALSE, 0), Request(FALSE, FALSE, 1)}
\* A profile with a TOTP secret that reconnects.
AutoRequests == {Request(TRUE, TRUE, 0)}
BothRequests == ManualRequests \cup AutoRequests
=============================================================================
