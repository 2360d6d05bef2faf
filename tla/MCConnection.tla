---------------------------- MODULE MCConnection ----------------------------
EXTENDS Connection

Reconnect(auto, initial, fallback) ==
  [autoReconnect |-> auto, autoReconnectOnInitial |-> initial, fallbackAuth |-> fallback]

\* The defaults, with and without a fallback, and each flag off.
SomeOptions == {Reconnect(TRUE, TRUE, FALSE), Reconnect(TRUE, FALSE, TRUE), Reconnect(FALSE, TRUE, FALSE)}
=============================================================================
