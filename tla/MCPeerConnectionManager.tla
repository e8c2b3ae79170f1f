----------------------- MODULE MCPeerConnectionManager -----------------------
(* Which threads' handlers may interleave, for TLC.                        *)
EXTENDS PeerConnectionManager

Serial == {}
WsAndRtc == {{"ws", "rtc"}}
AllThreads == {{"ws", "rtc"}, {"ws", "app"}, {"rtc", "app"}}
=============================================================================
