--------------------------- MODULE MCWebsocketSrc ---------------------------
(***************************************************************************)
(* Small instances of WebsocketSrc for TLC.                                *)
(***************************************************************************)
EXTENDS WebsocketSrc, TLC

CONSTANTS c1, c2, w1, w2

MCUp == {"NullToReady", "ReadyToPaused", "PausedToPlaying"}
MCPause == MCUp \cup {"PlayingToPaused"}
MCStop == MCPause \cup {"PausedToReady"}
MCAll == MCStop \cup {"ReadyToNull"}

MCSymmetry == Permutations(Clients) \cup Permutations(Watchers)
=============================================================================
