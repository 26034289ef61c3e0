--------------------------- MODULE MCProxyBridge ---------------------------
(* Small instances of ProxyBridge for TLC.                                  *)
EXTENDS ProxyBridge, TLC

Anything == {"dead", "refuse", "answer", "drop"}

\* Every endpoint may do anything at any time.
AnyActs == [i \in 0 .. N - 1 |-> Anything]
=============================================================================
