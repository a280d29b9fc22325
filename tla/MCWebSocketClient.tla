------------------------- MODULE MCWebSocketClient -------------------------
(* Small instances of WebSocketClient for TLC. *)
EXTENDS WebSocketClient, TLC

\* The symbols are interchangeable: no action or invariant tells them apart.
SymbolSymmetry == Permutations(Symbols)
=============================================================================
