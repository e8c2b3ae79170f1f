--------------------- MODULE PeerConnectionManagerProofs ---------------------
(***************************************************************************)
(* Proofs about the session life cycle, for any number of peer             *)
(* connections: in every interleaving and environment; when messages run   *)
(* beside description and connected callbacks of an undisturbed session;   *)
(* and when handlers do not interleave but may throw, and connections are  *)
(* lost.                                                                   *)
(***************************************************************************)
EXTENDS PeerConnectionManager, TLAPS

-----------------------------------------------------------------------------
(* Type correctness: every environment, every interleaving.                *)

LEMMA CloseType ==
    ASSUME TypeOK, NEW S, Close(S)
    PROVE  open' \subseteq Peers /\ phase' \in [Peers -> Phases]
  BY DEF TypeOK, Close, Phases

LEMMA TypeStep == TypeOK /\ [Next]_vars => TypeOK'
<1> SUFFICES ASSUME TypeOK, [Next]_vars PROVE TypeOK'
  OBVIOUS
<1> USE ConstantsAssumption DEF ConstantsAssumption, links, session, handlers,
        process, control, Peers, Threads, TypeOK, States, Locations,
        CloseLocations, OfferLocations, CandidateLocations, CallbackLocations,
        ShutdownLocations, Hung, At, Goto, SetState, BeginClose, Leave,
        SetState, Enter
<1>1. CASE UNCHANGED vars
  BY <1>1 DEF vars, links
<1>2. ASSUME NEW t \in Threads, ClosePeerConnection(t) PROVE TypeOK'
  <2>1. CASE TestConnected(t)
    BY <2>1 DEF TestConnected, Test
  <2>2. CASE TestConnecting(t)
    BY <2>2 DEF TestConnecting, Test
  <2>3. CASE SetDisconnecting(t)
    BY <2>3 DEF SetDisconnecting
  <2>4. CASE CloseAllMediaTracks(t)
    <3>1. media' \in BOOLEAN /\ abandoned' \in BOOLEAN
      BY <2>4 DEF CloseAllMediaTracks
    <3>2. at' \in [Threads -> Locations]
      BY <2>4 DEF CloseAllMediaTracks
    <3> QED
      BY <2>4, <3>1, <3>2 DEF CloseAllMediaTracks
  <2>5. CASE CloseAllDataChannels(t)
    <3>1. channel' \in 0..MaxPeers
      BY <2>5 DEF CloseAllDataChannels
    <3>2. at' \in [Threads -> Locations]
      BY <2>5 DEF CloseAllDataChannels
    <3>3. abandoned' \in BOOLEAN
      BY <2>5 DEF CloseAllDataChannels
    <3> QED
      BY <2>5, <3>1, <3>2, <3>3 DEF CloseAllDataChannels
  <2>6. CASE TestPeer(t)
    BY <2>6 DEF TestPeer
  <2>7. CASE EnterClose(t)
    BY <2>7 DEF EnterClose, Enter
  <2>8. CASE RunClose(t)
    <3>1. /\ held' \in [Threads -> 0..MaxPeers]
          /\ UNCHANGED <<observer, made, serving, replaced, process, ret>>
      BY <2>8 DEF RunClose
    <3>2. CASE CloseFromWithin(t)
      <4>1. open' \subseteq Peers /\ phase' \in [Peers -> Phases]
        BY <3>2, CloseType DEF CloseFromWithin
      <4>2. /\ state' \in States /\ peer' \in 0..MaxPeers /\ media' \in BOOLEAN
            /\ channel' \in 0..MaxPeers /\ abandoned' \in BOOLEAN
            /\ at' \in [Threads -> Locations]
            /\ fault' \in {"none", "null", "freed", "terminated"}
        <5>1. at' \in [Threads -> Locations]
          BY <3>2 DEF CloseFromWithin
        <5>2. media' \in BOOLEAN /\ abandoned' \in BOOLEAN
          BY <3>2 DEF CloseFromWithin
        <5>3. state' \in States /\ peer' \in 0..MaxPeers /\ channel' \in 0..MaxPeers
          BY <3>2 DEF CloseFromWithin
        <5>4. fault' \in {"none", "null", "freed", "terminated"}
          BY <3>2 DEF CloseFromWithin
        <5> QED
          BY <5>1, <5>2, <5>3, <5>4
      <4> QED
        BY <3>1, <4>1, <4>2
    <3>3. CASE /\ Close({held[t]}) /\ Goto(t, "clear")
               /\ UNCHANGED <<state, peer, handlers, fault>>
      BY <3>1, <3>3, CloseType
    <3> QED
      BY <2>8, <3>2, <3>3 DEF RunClose
  <2>9. CASE ClearPeer(t)
    BY <2>9, CloseType DEF ClearPeer, Assign
  <2>10. CASE ReleasePeer(t)
    BY <2>10 DEF ReleasePeer, RtcRuns
  <2>11. CASE OnConnectionDisconnected(t)
    BY <2>11 DEF OnConnectionDisconnected
  <2> QED
    BY <1>2, <2>1, <2>2, <2>3, <2>4, <2>5, <2>6, <2>7, <2>8, <2>9, <2>10,
       <2>11
    DEF ClosePeerConnection
<1>3. CASE WsNext
  <2>1. CASE HandleSdpOffer
    BY <2>1 DEF HandleSdpOffer, MayStart
  <2>2. CASE TestReady
    BY <2>2 DEF TestReady
  <2>3. CASE AcceptOffer
    BY <2>3 DEF AcceptOffer
  <2>4. CASE CreateObserver
    BY <2>4 DEF CreateObserver
  <2>5. CASE CreateConnection
    <3>1. /\ made' \in 0..MaxPeers /\ open' \subseteq Peers
          /\ fault' \in {"none", "null", "freed", "terminated"}
      <4>1. \/ made' = made /\ open' = open
            \/ made < MaxPeers /\ made' = made + 1 /\ open' = open \union {made + 1}
        BY <2>5 DEF CreateConnection
      <4>2. made < MaxPeers => made + 1 \in Peers
        OBVIOUS
      <4>3. fault' \in {fault, "null"}
        BY <2>5 DEF CreateConnection
      <4>4. open' \subseteq Peers
        BY <4>1, <4>2
      <4> QED
        BY <4>1, <4>3, <4>4
    <3>2. at' \in [Threads -> Locations]
      BY <2>5 DEF CreateConnection
    <3> QED
      BY <2>5, <3>1, <3>2 DEF CreateConnection
  <2>6. CASE AssignConnection
    BY <2>6 DEF AssignConnection, Assign
  <2>7. CASE ReleaseReplaced
    BY <2>7, CloseType DEF ReleaseReplaced
  <2>8. CASE TestCreated
    BY <2>8 DEF TestCreated
  <2>9. CASE FailOffer
    BY <2>9 DEF FailOffer
  <2>10. CASE EnterSetRemoteDescription
    BY <2>10 DEF EnterSetRemoteDescription, Enter
  <2>11. CASE RunSetRemoteDescription
    BY <2>11 DEF RunSetRemoteDescription, RtcRuns, Phases, Negotiating
  <2>12. CASE HandleCloseConnection
    BY <2>12 DEF HandleCloseConnection, MayStart
  <2>13. CASE HandleIceCandidateFromSignaling
    BY <2>13 DEF HandleIceCandidateFromSignaling, MayStart
  <2>14. CASE EnterAddIceCandidate
    BY <2>14 DEF EnterAddIceCandidate, Enter
  <2>15. CASE RunAddIceCandidate
    BY <2>15 DEF RunAddIceCandidate, RtcRuns
  <2> QED
    BY <1>3, <2>1, <2>2, <2>3, <2>4, <2>5, <2>6, <2>7, <2>8, <2>9, <2>10,
       <2>11, <2>12, <2>13, <2>14, <2>15
    DEF WsNext
<1>4. CASE RtcNext
  <2>1. ASSUME NEW p \in Peers, DescriptionFails(p) PROVE TypeOK'
    BY <2>1 DEF DescriptionFails, MayStart, Phases, Negotiating
  <2>2. ASSUME NEW p \in Peers, AfterSetSessionDescription(p) PROVE TypeOK'
    BY <2>2 DEF AfterSetSessionDescription, MayStart
  <2>3. ASSUME NEW p \in Peers, AfterCreateSdpAnswer(p) PROVE TypeOK'
    BY <2>3 DEF AfterCreateSdpAnswer, MayStart, Phases, Negotiating
  <2>4. ASSUME NEW p \in Peers, AfterSetLocalDescription(p) PROVE TypeOK'
    BY <2>4 DEF AfterSetLocalDescription, MayStart, Phases, Negotiating
  <2>5. ASSUME NEW p \in Peers, OnConnectionConnected(p) PROVE TypeOK'
    BY <2>5 DEF OnConnectionConnected, MayStart, Phases, Negotiating
  <2>6. ASSUME NEW p \in Peers, OnConnectionLost(p) PROVE TypeOK'
    BY <2>6 DEF OnConnectionLost, MayStart, Phases, Negotiating
  <2>7. ASSUME NEW p \in Peers, OnDataChannel(p) PROVE TypeOK'
    BY <2>7 DEF OnDataChannel, MayStart
  <2>8. ASSUME NEW p \in Peers, ObserverIsGone(p) PROVE TypeOK'
    BY <2>8 DEF ObserverIsGone, MayStart
  <2>9. CASE CreateAllMediaTracks
    BY <2>9 DEF CreateAllMediaTracks, Tangled
  <2>10. CASE CreateAnswer
    BY <2>10 DEF CreateAnswer, Phases, Negotiating
  <2>11. CASE AwaitGil
    BY <2>11 DEF AwaitGil, MayStart, Hung
  <2> QED
    BY <1>4, <2>1, <2>2, <2>3, <2>4, <2>5, <2>6, <2>7, <2>8, <2>9, <2>10,
       <2>11
    DEF RtcNext
<1>5. CASE AppNext
  <2>1. CASE InitializeWebRTC
    BY <2>1 DEF InitializeWebRTC, MayStart
  <2>2. CASE ShuttingDown
    BY <2>2 DEF ShuttingDown, MayStart
  <2>3. CASE StopSignalingServer
    BY <2>3 DEF StopSignalingServer
  <2>4. CASE DestroyPeer
    BY <2>4, CloseType DEF DestroyPeer, Assign
  <2>5. CASE DestroyFactory
    BY <2>5 DEF DestroyFactory, RtcRuns
  <2> QED
    BY <1>5, <2>1, <2>2, <2>3, <2>4, <2>5 DEF AppNext
<1>6. CASE Halted
  BY <1>6 DEF Halted, vars, links
<1> QED
  BY ONLY <1>1, <1>2, <1>3, <1>4, <1>5, <1>6, [Next]_vars DEF Next

LEMMA InitType == Init => TypeOK
<1> SUFFICES ASSUME Init PROVE TypeOK
  OBVIOUS
<1>1. 0 \in 0..MaxPeers
  BY ConstantsAssumption DEF ConstantsAssumption
<1>2. phase \in [Peers -> Phases]
  BY DEF Init, Phases
<1>3. /\ at \in [Threads -> Locations] /\ held \in [Threads -> 0..MaxPeers]
      /\ ret \in [Threads -> {"idle", "ready?", "destroy"}]
  BY <1>1 DEF Init, Locations
<1> QED
  BY <1>1, <1>2, <1>3 DEF Init, TypeOK, States

\* The variables keep their types, whatever the environment does and whichever
\* handlers interleave.
THEOREM TypeCorrect == Spec => []TypeOK
  BY InitType, TypeStep, PTL DEF Spec

-----------------------------------------------------------------------------
(* WebSocket messages beside description and connected callbacks.          *)

\* Nothing of the environment fails, no handler throws, no connection is reported
\* lost, and the shutdown waits for the handlers: the only overlap is that of the
\* two threads.
Undisturbed ==
    /\ ~ReportsLoss /\ ~ReportsClosed /\ ~CreateMayFail /\ ~SendMayFail
    /\ ~HandlersMayThrow /\ ~TracksTangle
    /\ MayOverlap \subseteq {{"ws", "rtc"}}

\* Where the threads can be, and that the shutdown is alone.
Places ==
    /\ at["ws"] \in {"idle", "ready?", "accept", "create", "factory", "assign",
                     "created?", "remote", "inRemote"}
                      \union CandidateLocations \union CloseLocations
    /\ at["rtc"] \in {"idle"} \union CallbackLocations
    /\ at["app"] \in {"idle", "connected?", "connecting?"}
                       \union ShutdownLocations
    /\ at["app"] # "idle" => at["ws"] = "idle" /\ at["rtc"] = "idle"
    /\ ret["ws"] # "destroy"
    /\ at["app"] \in {"connected?", "connecting?"} => ret["app"] = "destroy"

\* A call in progress is one of the ws thread, on the current connection.
Calls ==
    /\ held["rtc"] = 0 /\ held["app"] = 0
    /\ held["ws"] = IF at["ws"] \in {"closing", "inRemote", "inCandidate"}
                      THEN peer ELSE 0

\* The one open connection is peer_connection_ or will be, and has its observer.
OnlyCurrentOpen ==
    /\ \A p \in open : p = observer /\ (p = peer \/ at["ws"] = "assign")
    /\ at["ws"] = "clear" => open = {}
    /\ at["ws"] = "factory" => observer = made + 1
    /\ at["ws"] = "assign" =>
         /\ made # 0 /\ observer = made
         /\ \A p \in open : phase[p] = "new"
    /\ peer <= made /\ \A p \in Peers : p > made => phase[p] = "new"

Callbacks ==
    at["rtc"] # "idle" =>
      serving = peer /\ peer \in open /\ phase[peer] = "remote"

\* Where the announced state and the connection agree.
Resting ==
    {"idle", "connected?", "connecting?", "ready?", "created?", "remote",
     "inRemote"} \union CandidateLocations

\* Before the shutdown: the state and the connection by the place of ws.
SessionAt ==
    /\ at["ws"] \in Resting => (peer # 0 <=> state \in Active)
    /\ at["ws"] \in {"created?", "remote", "inRemote"} \union CandidateLocations
         => peer # 0
    /\ at["ws"] = "disconnecting" => peer # 0 /\ state \in Active
    /\ at["ws"] \in {"media", "channels", "test", "close", "closing", "clear"}
         => peer # 0 /\ state \in {"RTC_DISCONNECTING", "RTC_CONNECTED"}
    /\ at["ws"] \in {"release", "notify"}
         => peer = 0 /\ state \in {"RTC_DISCONNECTING", "RTC_CONNECTED"}
    /\ at["ws"] = "accept" => peer = 0 /\ state = "READY_TO_CONNECT"
    /\ at["ws"] \in {"create", "factory", "assign"}
         => peer = 0 /\ state = "RTC_CONNECTING"

Shutdown ==
    /\ at["app"] # "idle" => state = "DISCONNECTED"
    /\ at["app"] = "dropFactory" => peer = 0
    /\ state = "DISCONNECTED" =>
         /\ at["ws"] \in {"idle", "connected?", "connecting?", "ready?"}
         /\ at["app"] = "idle" => peer = 0 /\ factory = "gone"
    /\ state # "DISCONNECTED" =>
         signaling /\ factory = IF state = "INITIALIZING" THEN "none" ELSE "up"

IInv ==
    /\ TypeOK /\ NoFault /\ ~abandoned
    /\ Places /\ Calls /\ OnlyCurrentOpen /\ Callbacks
    /\ state # "DISCONNECTED" => SessionAt
    /\ Shutdown

LEMMA StartsAlone ==
    ASSUME Undisturbed, NEW t \in Threads, MayStart(t)
    PROVE  /\ t \in {"ws", "rtc"} => at["app"] = "idle"
           /\ t = "app" => at["ws"] = "idle" /\ at["rtc"] = "idle"
<1>1. {"ws", "app"} # {"ws", "rtc"} /\ {"rtc", "app"} # {"ws", "rtc"}
  OBVIOUS
<1>2. {"app", "ws"} # {"ws", "rtc"} /\ {"app", "rtc"} # {"ws", "rtc"}
  OBVIOUS
<1> QED
  BY <1>1, <1>2 DEF Undisturbed, MayStart, Threads

LEMMA StepIInv == ASSUME Undisturbed PROVE IInv /\ [Next]_vars => IInv'
<1> SUFFICES ASSUME IInv, [Next]_vars PROVE IInv'
  OBVIOUS
<1>0. TypeOK'
  BY TypeStep DEF IInv
<1> USE ConstantsAssumption, <1>0, StartsAlone DEF ConstantsAssumption, links,
        session, handlers, process, control, Peers, Threads, TypeOK, States,
        Locations, CloseLocations, OfferLocations, CandidateLocations,
        CallbackLocations, ShutdownLocations, Hung, At, Goto, SetState,
        BeginClose, Leave, SetState, Enter, RtcRuns, Active, Undisturbed,
        NoFault, Places, Calls, OnlyCurrentOpen, Callbacks, Resting, SessionAt,
        Shutdown, IInv
<1>1. CASE UNCHANGED vars
  BY <1>1 DEF vars, links
<1>2. ASSUME NEW t \in Threads, ClosePeerConnection(t) PROVE IInv'
  <2>1. CASE TestConnected(t)
    BY <2>1 DEF TestConnected, Test
  <2>2. CASE TestConnecting(t)
    BY <2>2 DEF TestConnecting, Test
  <2>3. CASE SetDisconnecting(t)
    BY <2>3 DEF SetDisconnecting
  <2>4. CASE CloseAllMediaTracks(t)
    BY <2>4 DEF CloseAllMediaTracks, Tangled
  <2>5. CASE CloseAllDataChannels(t)
    BY <2>5 DEF CloseAllDataChannels
  <2>6. CASE TestPeer(t)
    BY <2>6 DEF TestPeer
  <2>7. CASE EnterClose(t)
    BY <2>7 DEF EnterClose, Enter
  <2>8. CASE RunClose(t)
    <3>1. /\ t = "ws" /\ at["ws"] = "closing" /\ held["ws"] = peer
      BY <2>8 DEF RunClose
    <3>2. /\ at' = [at EXCEPT !["ws"] = "clear"] /\ held' = [held EXCEPT !["ws"] = 0]
          /\ open' = {} /\ phase' = [p \in Peers |-> IF p = peer THEN "closed" ELSE phase[p]]
          /\ UNCHANGED <<state, peer, observer, made, serving, abandoned, process, ret,
                         fault>>
      BY <2>8, <3>1 DEF RunClose, Close
    <3>3. at["rtc"] = "idle" /\ at["app"] = "idle" /\ peer # 0
      BY <2>8, <3>1 DEF RunClose
    <3>4. \A p \in Peers : p > made => p # peer /\ phase'[p] = "new"
      BY <3>2, <3>3, <3>1
    <3>5. OnlyCurrentOpen'
      BY <3>1, <3>2, <3>4
    <3> QED
      BY <3>1, <3>2, <3>3, <3>5
  <2>9. CASE ClearPeer(t)
    <3>1. /\ t = "ws" /\ at["ws"] = "clear" /\ open = {}
          /\ held = [u \in Threads |-> 0]
      BY <2>9 DEF ClearPeer
    <3>2. /\ at' = [at EXCEPT !["ws"] = "release"] /\ peer' = 0 /\ fault' = fault
          /\ open' = {}
          /\ phase' = [p \in Peers |-> IF p = peer THEN "closed" ELSE phase[p]]
          /\ UNCHANGED <<state, observer, made, serving, abandoned, process, control>>
      <4>1. peer # 0 /\ fault' = fault
        BY <2>9, <3>1 DEF ClearPeer, Assign
      <4> QED
        BY <2>9, <3>1, <4>1 DEF ClearPeer, Close, Assign
    <3>3. \A p \in Peers : p > made => p # peer /\ phase'[p] = "new"
      BY <3>2
    <3>4. OnlyCurrentOpen'
      BY <3>1, <3>2, <3>3
    <3> QED
      BY <3>1, <3>2, <3>4
  <2>10. CASE ReleasePeer(t)
    BY <2>10 DEF ReleasePeer, RtcRuns
  <2>11. CASE OnConnectionDisconnected(t)
    BY <2>11 DEF OnConnectionDisconnected
  <2> QED
    BY <1>2, <2>1, <2>2, <2>3, <2>4, <2>5, <2>6, <2>7, <2>8, <2>9, <2>10,
       <2>11
    DEF ClosePeerConnection
<1>3. CASE WsNext
  <2>1. CASE HandleSdpOffer
    BY <2>1 DEF HandleSdpOffer, MayStart
  <2>2. CASE TestReady
    BY <2>2 DEF TestReady
  <2>3. CASE AcceptOffer
    BY <2>3 DEF AcceptOffer
  <2>4. CASE CreateObserver
    BY <2>4 DEF CreateObserver
  <2>5. CASE CreateConnection
    <3>1. /\ at["ws"] = "factory" /\ at["rtc"] = "idle" /\ at["app"] = "idle"
          /\ peer = 0 /\ open = {} /\ observer = made + 1 /\ factory = "up"
          /\ held = [u \in Threads |-> 0]
      BY <2>5 DEF CreateConnection, RtcRuns
    <3>2. /\ made < MaxPeers /\ made' = made + 1 /\ open' = {made + 1}
          /\ at' = [at EXCEPT !["ws"] = "assign"] /\ fault' = fault
      BY <2>5, <3>1 DEF CreateConnection
    <3>3. OnlyCurrentOpen' /\ Calls'
      BY <2>5, <3>1, <3>2 DEF CreateConnection
    <3> QED
      BY <2>5, <3>1, <3>2, <3>3 DEF CreateConnection
  <2>6. CASE AssignConnection
    BY <2>6 DEF AssignConnection, Assign
  <2>7. CASE ReleaseReplaced
    BY <2>7 DEF ReleaseReplaced, Close, RtcRuns
  <2>8. CASE TestCreated
    BY <2>8 DEF TestCreated
  <2>9. CASE FailOffer
    BY <2>9 DEF FailOffer
  <2>10. CASE EnterSetRemoteDescription
    BY <2>10 DEF EnterSetRemoteDescription, Enter
  <2>11. CASE RunSetRemoteDescription
    BY <2>11 DEF RunSetRemoteDescription, RtcRuns
  <2>12. CASE HandleCloseConnection
    BY <2>12 DEF HandleCloseConnection, MayStart
  <2>13. CASE HandleIceCandidateFromSignaling
    BY <2>13 DEF HandleIceCandidateFromSignaling, MayStart
  <2>14. CASE EnterAddIceCandidate
    BY <2>14 DEF EnterAddIceCandidate, Enter
  <2>15. CASE RunAddIceCandidate
    BY <2>15 DEF RunAddIceCandidate, RtcRuns
  <2> QED
    BY <1>3, <2>1, <2>2, <2>3, <2>4, <2>5, <2>6, <2>7, <2>8, <2>9, <2>10,
       <2>11, <2>12, <2>13, <2>14, <2>15
    DEF WsNext
<1>4. CASE RtcNext
  <2>1. ASSUME NEW p \in Peers, DescriptionFails(p) PROVE IInv'
    BY <2>1 DEF DescriptionFails, MayStart, Phases, Negotiating
  <2>2. ASSUME NEW p \in Peers, AfterSetSessionDescription(p) PROVE IInv'
    BY <2>2 DEF AfterSetSessionDescription, MayStart, Phases, Negotiating
  <2>3. ASSUME NEW p \in Peers, AfterCreateSdpAnswer(p) PROVE IInv'
    BY <2>3 DEF AfterCreateSdpAnswer, MayStart, Phases, Negotiating
  <2>4. ASSUME NEW p \in Peers, AfterSetLocalDescription(p) PROVE IInv'
    BY <2>4 DEF AfterSetLocalDescription, MayStart, Phases, Negotiating
  <2>5. ASSUME NEW p \in Peers, OnConnectionConnected(p) PROVE IInv'
    BY <2>5 DEF OnConnectionConnected, MayStart, Phases, Negotiating
  <2>6. ASSUME NEW p \in Peers, OnConnectionLost(p) PROVE IInv'
    BY <2>6 DEF OnConnectionLost, MayStart
  <2>7. ASSUME NEW p \in Peers, OnDataChannel(p) PROVE IInv'
    BY <2>7 DEF OnDataChannel, MayStart
  <2>8. ASSUME NEW p \in Peers, ObserverIsGone(p) PROVE IInv'
    BY <2>8 DEF ObserverIsGone, MayStart
  <2>9. CASE CreateAllMediaTracks
    BY <2>9 DEF CreateAllMediaTracks, Tangled, Phases, Negotiating
  <2>10. CASE CreateAnswer
    BY <2>10 DEF CreateAnswer, Phases, Negotiating
  <2>11. CASE AwaitGil
    BY <2>11 DEF AwaitGil, MayStart, Hung
  <2> QED
    BY <1>4, <2>1, <2>2, <2>3, <2>4, <2>5, <2>6, <2>7, <2>8, <2>9, <2>10,
       <2>11
    DEF RtcNext
<1>5. CASE AppNext
  <2>1. CASE InitializeWebRTC
    BY <2>1 DEF InitializeWebRTC, MayStart
  <2>2. CASE ShuttingDown
    BY <2>2 DEF ShuttingDown, MayStart
  <2>3. CASE StopSignalingServer
    BY <2>3 DEF StopSignalingServer
  <2>4. CASE DestroyPeer
    BY <2>4 DEF DestroyPeer, Assign, Close
  <2>5. CASE DestroyFactory
    BY <2>5 DEF DestroyFactory, RtcRuns
  <2> QED
    BY <1>5, <2>1, <2>2, <2>3, <2>4, <2>5 DEF AppNext
<1>6. CASE Halted
  BY <1>6 DEF Halted, vars, links
<1> QED
  BY ONLY <1>1, <1>2, <1>3, <1>4, <1>5, <1>6, [Next]_vars DEF Next

LEMMA InitIInv == Init => IInv
<1> SUFFICES ASSUME Init PROVE IInv
  OBVIOUS
<1> USE DEF Init, Threads
<1>1. TypeOK
  BY InitType
<1>2. Places
  BY DEF Places
<1>3. NoFault /\ Calls /\ OnlyCurrentOpen /\ Callbacks
  BY DEF NoFault, Calls, OnlyCurrentOpen, Callbacks
<1>4. SessionAt /\ Shutdown
  BY DEF SessionAt, Shutdown, Active, CandidateLocations
<1> QED
  BY <1>1, <1>2, <1>3, <1>4 DEF IInv

LEMMA Invariance == ASSUME Undisturbed PROVE Spec => []IInv
<1>1. IInv /\ [Next]_vars => IInv'
  BY StepIInv
<1> QED
  BY InitIInv, <1>1, PTL DEF Spec

\* Messages that interleave with description and connected callbacks never
\* crash the connector, and neither does the shutdown.
THEOREM NeverFaults == ASSUME Undisturbed PROVE Spec => []NoFault
<1>1. IInv => NoFault
  BY DEF IInv
<1> QED
  BY <1>1, Invariance, PTL

\* Between handlers the announced state tells whether there is a connection.
THEOREM StateTellsPeer == ASSUME Undisturbed PROVE Spec => []PeerMatchesState
<1>1. IInv => PeerMatchesState
  BY DEF IInv, PeerMatchesState, Quiet, Threads, SessionAt, Resting, Shutdown,
         Active
<1> QED
  BY <1>1, Invariance, PTL

\* No connection is created over another one.
THEOREM NeverReplaces == ASSUME Undisturbed PROVE Spec => []ReplacesNothing
<1>1. IInv => ReplacesNothing
  BY DEF IInv, ReplacesNothing, SessionAt, Shutdown
<1> QED
  BY <1>1, Invariance, PTL

-----------------------------------------------------------------------------
(* The session life cycle implements the promise to the signaling server.  *)

LEMMA LifecycleStep ==
    ASSUME Undisturbed
    PROVE  IInv /\ [Next]_vars => [Lifecycle!Next]_(Lifecycle!vars)
<1> SUFFICES ASSUME IInv, [Next]_vars PROVE [Lifecycle!Next]_(Lifecycle!vars)
  OBVIOUS
<1> USE ConstantsAssumption, StartsAlone DEF ConstantsAssumption, links,
        session, handlers, process, control, Peers, Threads, TypeOK, States,
        Locations, CloseLocations, OfferLocations, CandidateLocations,
        CallbackLocations, ShutdownLocations, Hung, At, Goto, SetState,
        BeginClose, Leave, SetState, Enter, RtcRuns, Active, Undisturbed,
        NoFault, Places, Calls, OnlyCurrentOpen, Callbacks, Resting, SessionAt,
        Shutdown, IInv, assigned, Lifecycle!vars, Lifecycle!Next
<1> DEFINE Implemented == [Lifecycle!Next]_(Lifecycle!vars)
<1>1. CASE UNCHANGED vars
  BY <1>1 DEF vars, links
<1>2. ASSUME NEW t \in Threads, ClosePeerConnection(t) PROVE Implemented
  <2>1. CASE TestConnected(t)
    BY <2>1 DEF TestConnected, Test
  <2>2. CASE TestConnecting(t)
    BY <2>2 DEF TestConnecting, Test
  <2>3. CASE SetDisconnecting(t)
    BY <2>3 DEF SetDisconnecting, Lifecycle!BeginClose
  <2>4. CASE CloseAllMediaTracks(t)
    BY <2>4 DEF CloseAllMediaTracks, Tangled
  <2>5. CASE CloseAllDataChannels(t)
    BY <2>5 DEF CloseAllDataChannels
  <2>6. CASE TestPeer(t)
    BY <2>6 DEF TestPeer
  <2>7. CASE EnterClose(t)
    BY <2>7 DEF EnterClose, Enter
  <2>8. CASE RunClose(t)
    BY <2>8 DEF RunClose, RtcRuns, CloseFromWithin, Tangled, Close
  <2>9. CASE ClearPeer(t)
    BY <2>9 DEF ClearPeer, Assign, Close, Lifecycle!End
  <2>10. CASE ReleasePeer(t)
    BY <2>10 DEF ReleasePeer, RtcRuns
  <2>11. CASE OnConnectionDisconnected(t)
    BY <2>11 DEF OnConnectionDisconnected, Lifecycle!Closed
  <2> QED
    BY <1>2, <2>1, <2>2, <2>3, <2>4, <2>5, <2>6, <2>7, <2>8, <2>9, <2>10,
       <2>11
    DEF ClosePeerConnection
<1>3. CASE WsNext
  <2>1. CASE HandleSdpOffer
    BY <2>1 DEF HandleSdpOffer, MayStart
  <2>2. CASE TestReady
    BY <2>2 DEF TestReady
  <2>3. CASE AcceptOffer
    BY <2>3 DEF AcceptOffer, Lifecycle!Accept
  <2>4. CASE CreateObserver
    BY <2>4 DEF CreateObserver
  <2>5. CASE CreateConnection
    BY <2>5 DEF CreateConnection, RtcRuns
  <2>6. CASE AssignConnection
    BY <2>6 DEF AssignConnection, Assign, Lifecycle!Open
  <2>7. CASE ReleaseReplaced
    BY <2>7 DEF ReleaseReplaced, Close, RtcRuns
  <2>8. CASE TestCreated
    BY <2>8 DEF TestCreated
  <2>9. CASE FailOffer
    BY <2>9 DEF FailOffer
  <2>10. CASE EnterSetRemoteDescription
    BY <2>10 DEF EnterSetRemoteDescription, Enter
  <2>11. CASE RunSetRemoteDescription
    BY <2>11 DEF RunSetRemoteDescription, RtcRuns
  <2>12. CASE HandleCloseConnection
    BY <2>12 DEF HandleCloseConnection, MayStart
  <2>13. CASE HandleIceCandidateFromSignaling
    BY <2>13 DEF HandleIceCandidateFromSignaling, MayStart
  <2>14. CASE EnterAddIceCandidate
    BY <2>14 DEF EnterAddIceCandidate, Enter
  <2>15. CASE RunAddIceCandidate
    BY <2>15 DEF RunAddIceCandidate, RtcRuns
  <2> QED
    BY <1>3, <2>1, <2>2, <2>3, <2>4, <2>5, <2>6, <2>7, <2>8, <2>9, <2>10,
       <2>11, <2>12, <2>13, <2>14, <2>15
    DEF WsNext
<1>4. CASE RtcNext
  <2>1. ASSUME NEW p \in Peers, DescriptionFails(p) PROVE Implemented
    BY <2>1 DEF DescriptionFails, MayStart
  <2>2. ASSUME NEW p \in Peers, AfterSetSessionDescription(p) PROVE Implemented
    BY <2>2 DEF AfterSetSessionDescription, MayStart
  <2>3. ASSUME NEW p \in Peers, AfterCreateSdpAnswer(p) PROVE Implemented
    BY <2>3 DEF AfterCreateSdpAnswer, MayStart
  <2>4. ASSUME NEW p \in Peers, AfterSetLocalDescription(p) PROVE Implemented
    BY <2>4 DEF AfterSetLocalDescription, MayStart
  <2>5. ASSUME NEW p \in Peers, OnConnectionConnected(p) PROVE Implemented
        BY <2>5 DEF OnConnectionConnected, MayStart, Lifecycle!Connect,
       Lifecycle!ReportLate
  <2>6. ASSUME NEW p \in Peers, OnConnectionLost(p) PROVE Implemented
    BY <2>6 DEF OnConnectionLost, MayStart
  <2>7. ASSUME NEW p \in Peers, OnDataChannel(p) PROVE Implemented
    BY <2>7 DEF OnDataChannel, MayStart
  <2>8. ASSUME NEW p \in Peers, ObserverIsGone(p) PROVE Implemented
    BY <2>8 DEF ObserverIsGone, MayStart
  <2>9. CASE CreateAllMediaTracks
    BY <2>9 DEF CreateAllMediaTracks, Tangled
  <2>10. CASE CreateAnswer
    BY <2>10 DEF CreateAnswer
  <2>11. CASE AwaitGil
    BY <2>11 DEF AwaitGil, MayStart, Hung
  <2> QED
    BY <1>4, <2>1, <2>2, <2>3, <2>4, <2>5, <2>6, <2>7, <2>8, <2>9, <2>10,
       <2>11
    DEF RtcNext
<1>5. CASE AppNext
  <2>1. CASE InitializeWebRTC
    BY <2>1 DEF InitializeWebRTC, MayStart, Lifecycle!Start
  <2>2. CASE ShuttingDown
    BY <2>2 DEF ShuttingDown, MayStart, Lifecycle!ShutDown
  <2>3. CASE StopSignalingServer
    BY <2>3 DEF StopSignalingServer
  <2>4. CASE DestroyPeer
    BY <2>4 DEF DestroyPeer, Assign, Close, Lifecycle!Drop
  <2>5. CASE DestroyFactory
    BY <2>5 DEF DestroyFactory, RtcRuns
  <2> QED
    BY <1>5, <2>1, <2>2, <2>3, <2>4, <2>5 DEF AppNext
<1>6. CASE Halted
  BY <1>6 DEF Halted, vars, links
<1> QED
  BY ONLY <1>1, <1>2, <1>3, <1>4, <1>5, <1>6, [Next]_vars DEF Next

\* What the connector announces and its connection behave as SessionLifecycle
\* says: the safety part of ImplementsLifecycle.
THEOREM Implements == ASSUME Undisturbed PROVE Spec => Lifecycle!SafeSpec
<1>1. Init => Lifecycle!Init
  BY DEF Init, Lifecycle!Init, assigned, Threads
<1>2. IInv /\ [Next]_vars => [Lifecycle!Next]_(Lifecycle!vars)
  BY LifecycleStep
<1> QED
  BY <1>1, <1>2, Invariance, PTL DEF Spec, Lifecycle!SafeSpec

-----------------------------------------------------------------------------
(* Every environment, every interleaving, until the shutdown takes the     *)
(* signaling client away.  Only ws assigns a connection, and it does so    *)
(* before rtc can have a callback of that connection: what a callback found*)
(* in peer_connection_ stays there until the callback ends, or is replaced *)
(* by another connection.                                                  *)

\* Where the threads can be.
SignalingPlaces ==
    /\ at["rtc"] \in {"idle"} \union CloseLocations \union CallbackLocations
                      \union Hung
    /\ at["app"] \in {"idle", "stop"}
    /\ ret["rtc"] = "idle" /\ ret["ws"] # "destroy"
    /\ at["ws"] \in {"idle", "join"} \union CloseLocations \union OfferLocations
                      \union CandidateLocations

\* The factory is there when a session is, and before it nothing is.
SignalingFactory ==
    /\ factory # "gone"
    /\ factory = "none" <=> state = "INITIALIZING"
    /\ factory = "none" =>
         /\ peer = 0 /\ open = {} /\ at["rtc"] = "idle" /\ at["app"] = "idle"
         /\ at["ws"] \in {"idle", "connected?", "connecting?", "ready?"}

\* Connections are numbered as they are created.
Numbered ==
    /\ peer <= made /\ serving <= made
    /\ \A t \in Threads : held[t] <= made
    /\ \A p \in Peers : p > made =>
         p \notin open /\ p \notin replaced /\ phase[p] = "new"

\* While a connection is created, the one that was there before.
Changing == at["ws"] \in {"assign", "replace"}

\* The open connections: peer_connection_, and while it changes one of its two values.
OpenConnections ==
    /\ ~Changing => \A p \in open : p = peer
    /\ Changing =>
         /\ made # 0 /\ (made \in open => phase[made] = "new")
         /\ \A p \in open \ {made} :
              /\ at["ws"] = "assign" => p = peer
              /\ at["ws"] = "replace" => p \in replaced
              /\ phase[p] \in Negotiating => peer # 0 /\ at["rtc"] \notin CloseLocations
         /\ \A p, q \in open \ {made} : p = q
    /\ at["ws"] = "assign" =>
         peer # made /\ phase[made] = "new" /\ \A t \in Threads : held[t] # made
    /\ at["ws"] = "replace" => peer \in {0, made} /\ (made \in open => peer = made)

\* A callback keeps its connection, and a close the one that it tested.
RtcKeepsPeer ==
    /\ at["rtc"] \in CallbackLocations =>
         /\ serving \in open /\ phase[serving] = "remote"
         /\ peer # 0
         /\ peer = serving \/ (at["ws"] = "replace" /\ serving \in replaced)
    /\ at["rtc"] = "close" => peer # 0
    /\ at["ws"] = "clear" => open = {} /\ at["rtc"] \in {"idle", "gil"}
    /\ at["ws"] = "closing" => peer \in {0, held["ws"]}

OInv ==
    /\ TypeOK /\ Numbered
    /\ signaling =>
         SignalingPlaces /\ SignalingFactory /\ OpenConnections /\ RtcKeepsPeer
    /\ CallbacksNeverDereferenceNull

LEMMA StepNumbered == TypeOK /\ Numbered /\ [Next]_vars => Numbered'
<1> SUFFICES ASSUME TypeOK, Numbered, [Next]_vars PROVE Numbered'
  OBVIOUS
<1>0. TypeOK'
  BY TypeStep
<1> USE ConstantsAssumption, <1>0 DEF ConstantsAssumption, links, session,
        handlers, process, control, Peers, Threads, TypeOK, At, SetState, Enter,
        Leave, Numbered
<1>1. CASE UNCHANGED vars
  BY <1>1 DEF vars, links
<1>2. ASSUME NEW t \in Threads, ClosePeerConnection(t) PROVE Numbered'
  <2>1. CASE TestConnected(t)
    BY <2>1 DEF TestConnected, Test
  <2>2. CASE TestConnecting(t)
    BY <2>2 DEF TestConnecting, Test
  <2>3. CASE SetDisconnecting(t)
    BY <2>3 DEF SetDisconnecting
  <2>4. CASE CloseAllMediaTracks(t)
    BY <2>4 DEF CloseAllMediaTracks, Tangled
  <2>5. CASE CloseAllDataChannels(t)
    BY <2>5 DEF CloseAllDataChannels
  <2>6. CASE TestPeer(t)
    BY <2>6 DEF TestPeer
  <2>7. CASE EnterClose(t)
    BY <2>7 DEF EnterClose, Enter
  <2>8. CASE RunClose(t)
    BY <2>8 DEF RunClose, RtcRuns, CloseFromWithin, Tangled, Close
  <2>9. CASE ClearPeer(t)
    BY <2>9 DEF ClearPeer, Assign, Close
  <2>10. CASE ReleasePeer(t)
    BY <2>10 DEF ReleasePeer, RtcRuns
  <2>11. CASE OnConnectionDisconnected(t)
    BY <2>11 DEF OnConnectionDisconnected
  <2> QED
    BY <1>2, <2>1, <2>2, <2>3, <2>4, <2>5, <2>6, <2>7, <2>8, <2>9, <2>10,
       <2>11
    DEF ClosePeerConnection
<1>3. CASE WsNext
  <2>1. CASE HandleSdpOffer
    BY <2>1 DEF HandleSdpOffer, MayStart
  <2>2. CASE TestReady
    BY <2>2 DEF TestReady
  <2>3. CASE AcceptOffer
    BY <2>3 DEF AcceptOffer
  <2>4. CASE CreateObserver
    BY <2>4 DEF CreateObserver
  <2>5. CASE CreateConnection
    BY <2>5 DEF CreateConnection, RtcRuns
  <2>6. CASE AssignConnection
    BY <2>6 DEF AssignConnection, Assign
  <2>7. CASE ReleaseReplaced
    BY <2>7 DEF ReleaseReplaced, Close, RtcRuns
  <2>8. CASE TestCreated
    BY <2>8 DEF TestCreated
  <2>9. CASE FailOffer
    BY <2>9 DEF FailOffer
  <2>10. CASE EnterSetRemoteDescription
    BY <2>10 DEF EnterSetRemoteDescription, Enter
  <2>11. CASE RunSetRemoteDescription
    BY <2>11 DEF RunSetRemoteDescription, RtcRuns
  <2>12. CASE HandleCloseConnection
    BY <2>12 DEF HandleCloseConnection, MayStart
  <2>13. CASE HandleIceCandidateFromSignaling
    BY <2>13 DEF HandleIceCandidateFromSignaling, MayStart
  <2>14. CASE EnterAddIceCandidate
    BY <2>14 DEF EnterAddIceCandidate, Enter
  <2>15. CASE RunAddIceCandidate
    BY <2>15 DEF RunAddIceCandidate, RtcRuns
  <2> QED
    BY <1>3, <2>1, <2>2, <2>3, <2>4, <2>5, <2>6, <2>7, <2>8, <2>9, <2>10,
       <2>11, <2>12, <2>13, <2>14, <2>15
    DEF WsNext
<1>4. CASE RtcNext
  <2>1. ASSUME NEW p \in Peers, DescriptionFails(p) PROVE Numbered'
    BY <2>1 DEF DescriptionFails, MayStart
  <2>2. ASSUME NEW p \in Peers, AfterSetSessionDescription(p) PROVE Numbered'
    BY <2>2 DEF AfterSetSessionDescription, MayStart
  <2>3. ASSUME NEW p \in Peers, AfterCreateSdpAnswer(p) PROVE Numbered'
    BY <2>3 DEF AfterCreateSdpAnswer, MayStart
  <2>4. ASSUME NEW p \in Peers, AfterSetLocalDescription(p) PROVE Numbered'
    BY <2>4 DEF AfterSetLocalDescription, MayStart
  <2>5. ASSUME NEW p \in Peers, OnConnectionConnected(p) PROVE Numbered'
    BY <2>5 DEF OnConnectionConnected, MayStart
  <2>6. ASSUME NEW p \in Peers, OnConnectionLost(p) PROVE Numbered'
    BY <2>6 DEF OnConnectionLost, MayStart
  <2>7. ASSUME NEW p \in Peers, OnDataChannel(p) PROVE Numbered'
    BY <2>7 DEF OnDataChannel, MayStart
  <2>8. ASSUME NEW p \in Peers, ObserverIsGone(p) PROVE Numbered'
    BY <2>8 DEF ObserverIsGone, MayStart
  <2>9. CASE CreateAllMediaTracks
    BY <2>9 DEF CreateAllMediaTracks, Tangled
  <2>10. CASE CreateAnswer
    BY <2>10 DEF CreateAnswer
  <2>11. CASE AwaitGil
    BY <2>11 DEF AwaitGil, MayStart, Hung
  <2> QED
    BY <1>4, <2>1, <2>2, <2>3, <2>4, <2>5, <2>6, <2>7, <2>8, <2>9, <2>10,
       <2>11
    DEF RtcNext
<1>5. CASE AppNext
  <2>1. CASE InitializeWebRTC
    BY <2>1 DEF InitializeWebRTC, MayStart
  <2>2. CASE ShuttingDown
    BY <2>2 DEF ShuttingDown, MayStart
  <2>3. CASE StopSignalingServer
    BY <2>3 DEF StopSignalingServer
  <2>4. CASE DestroyPeer
    BY <2>4 DEF DestroyPeer, Assign, Close
  <2>5. CASE DestroyFactory
    BY <2>5 DEF DestroyFactory, RtcRuns
  <2> QED
    BY <1>5, <2>1, <2>2, <2>3, <2>4, <2>5 DEF AppNext
<1>6. CASE Halted
  BY <1>6 DEF Halted, vars, links
<1> QED
  BY ONLY <1>1, <1>2, <1>3, <1>4, <1>5, <1>6, [Next]_vars DEF Next

LEMMA StepOInv == OInv /\ [Next]_vars => OInv'
<1> SUFFICES ASSUME OInv, [Next]_vars PROVE OInv'
  OBVIOUS
<1>0. TypeOK' /\ Numbered'
  BY TypeStep, StepNumbered DEF OInv
<1> USE ConstantsAssumption, <1>0 DEF ConstantsAssumption, links, session,
        handlers, process, control, Peers, Threads, TypeOK, States, Locations,
        CloseLocations, OfferLocations, CandidateLocations, CallbackLocations,
        ShutdownLocations, Hung, At, Goto, SetState, BeginClose, Leave,
        SetState, Enter, RtcRuns, Active, Numbered, Changing, SignalingPlaces,
        SignalingFactory, OpenConnections, RtcKeepsPeer,
        CallbacksNeverDereferenceNull, OInv
<1>1. CASE UNCHANGED vars
  BY <1>1 DEF vars, links
<1>2. ASSUME NEW t \in Threads, ClosePeerConnection(t) PROVE OInv'
  <2>1. CASE TestConnected(t)
    BY <2>1 DEF TestConnected, Test
  <2>2. CASE TestConnecting(t)
    BY <2>2 DEF TestConnecting, Test
  <2>3. CASE SetDisconnecting(t)
    BY <2>3 DEF SetDisconnecting
  <2>4. CASE CloseAllMediaTracks(t)
    BY <2>4 DEF CloseAllMediaTracks, Tangled
  <2>5. CASE CloseAllDataChannels(t)
    BY <2>5 DEF CloseAllDataChannels
  <2>6. CASE TestPeer(t)
    BY <2>6 DEF TestPeer
  <2>7. CASE EnterClose(t)
    BY <2>7 DEF EnterClose, Enter
  <2>8. CASE RunClose(t)
    BY <2>8 DEF RunClose, RtcRuns, CloseFromWithin, Tangled, Close
  <2>9. CASE ClearPeer(t)
    BY <2>9 DEF ClearPeer, Assign, Close
  <2>10. CASE ReleasePeer(t)
    BY <2>10 DEF ReleasePeer, RtcRuns
  <2>11. CASE OnConnectionDisconnected(t)
    BY <2>11 DEF OnConnectionDisconnected
  <2> QED
    BY <1>2, <2>1, <2>2, <2>3, <2>4, <2>5, <2>6, <2>7, <2>8, <2>9, <2>10,
       <2>11
    DEF ClosePeerConnection
<1>3. CASE WsNext
  <2>1. CASE HandleSdpOffer
    BY <2>1 DEF HandleSdpOffer, MayStart
  <2>2. CASE TestReady
    BY <2>2 DEF TestReady
  <2>3. CASE AcceptOffer
    BY <2>3 DEF AcceptOffer
  <2>4. CASE CreateObserver
    BY <2>4 DEF CreateObserver
  <2>5. CASE CreateConnection
    BY <2>5 DEF CreateConnection, RtcRuns
  <2>6. CASE AssignConnection
    BY <2>6 DEF AssignConnection, Assign, Phases, Negotiating
  <2>7. CASE ReleaseReplaced
    BY <2>7 DEF ReleaseReplaced, Close, RtcRuns
  <2>8. CASE TestCreated
    BY <2>8 DEF TestCreated
  <2>9. CASE FailOffer
    BY <2>9 DEF FailOffer
  <2>10. CASE EnterSetRemoteDescription
    BY <2>10 DEF EnterSetRemoteDescription, Enter
  <2>11. CASE RunSetRemoteDescription
    BY <2>11 DEF RunSetRemoteDescription, RtcRuns, Phases, Negotiating
  <2>12. CASE HandleCloseConnection
    BY <2>12 DEF HandleCloseConnection, MayStart
  <2>13. CASE HandleIceCandidateFromSignaling
    BY <2>13 DEF HandleIceCandidateFromSignaling, MayStart
  <2>14. CASE EnterAddIceCandidate
    BY <2>14 DEF EnterAddIceCandidate, Enter
  <2>15. CASE RunAddIceCandidate
    BY <2>15 DEF RunAddIceCandidate, RtcRuns
  <2> QED
    BY <1>3, <2>1, <2>2, <2>3, <2>4, <2>5, <2>6, <2>7, <2>8, <2>9, <2>10,
       <2>11, <2>12, <2>13, <2>14, <2>15
    DEF WsNext
<1>4. CASE RtcNext
  <2>1. ASSUME NEW p \in Peers, DescriptionFails(p) PROVE OInv'
    BY <2>1 DEF DescriptionFails, MayStart, Phases, Negotiating
  <2>2. ASSUME NEW p \in Peers, AfterSetSessionDescription(p) PROVE OInv'
    BY <2>2 DEF AfterSetSessionDescription, MayStart, Phases, Negotiating
  <2>3. ASSUME NEW p \in Peers, AfterCreateSdpAnswer(p) PROVE OInv'
    BY <2>3 DEF AfterCreateSdpAnswer, MayStart, Phases, Negotiating
  <2>4. ASSUME NEW p \in Peers, AfterSetLocalDescription(p) PROVE OInv'
    BY <2>4 DEF AfterSetLocalDescription, MayStart, Phases, Negotiating
  <2>5. ASSUME NEW p \in Peers, OnConnectionConnected(p) PROVE OInv'
    BY <2>5 DEF OnConnectionConnected, MayStart, Phases, Negotiating
  <2>6. ASSUME NEW p \in Peers, OnConnectionLost(p) PROVE OInv'
    BY <2>6 DEF OnConnectionLost, MayStart, Phases, Negotiating
  <2>7. ASSUME NEW p \in Peers, OnDataChannel(p) PROVE OInv'
    BY <2>7 DEF OnDataChannel, MayStart
  <2>8. ASSUME NEW p \in Peers, ObserverIsGone(p) PROVE OInv'
    BY <2>8 DEF ObserverIsGone, MayStart
  <2>9. CASE CreateAllMediaTracks
    BY <2>9 DEF CreateAllMediaTracks, Tangled, Phases, Negotiating
  <2>10. CASE CreateAnswer
    BY <2>10 DEF CreateAnswer, Phases, Negotiating
  <2>11. CASE AwaitGil
    BY <2>11 DEF AwaitGil, MayStart, Hung
  <2> QED
    BY <1>4, <2>1, <2>2, <2>3, <2>4, <2>5, <2>6, <2>7, <2>8, <2>9, <2>10,
       <2>11
    DEF RtcNext
<1>5. CASE AppNext
  <2>1. CASE InitializeWebRTC
    BY <2>1 DEF InitializeWebRTC, MayStart
  <2>2. CASE ShuttingDown
    BY <2>2 DEF ShuttingDown, MayStart
  <2>3. CASE StopSignalingServer
    BY <2>3 DEF StopSignalingServer
  <2>4. CASE DestroyPeer
    BY <2>4 DEF DestroyPeer, Assign, Close
  <2>5. CASE DestroyFactory
    BY <2>5 DEF DestroyFactory, RtcRuns
  <2> QED
    BY <1>5, <2>1, <2>2, <2>3, <2>4, <2>5 DEF AppNext
<1>6. CASE Halted
  BY <1>6 DEF Halted, vars, links
<1> QED
  BY ONLY <1>1, <1>2, <1>3, <1>4, <1>5, <1>6, [Next]_vars DEF Next

LEMMA InitOInv == Init => OInv
<1> SUFFICES ASSUME Init PROVE OInv
  OBVIOUS
<1> USE DEF Init, Threads
<1>1. TypeOK
  BY InitType
<1>2. SignalingPlaces /\ SignalingFactory /\ RtcKeepsPeer
  BY DEF SignalingPlaces, SignalingFactory, RtcKeepsPeer, CallbackLocations
<1>3. Numbered /\ OpenConnections
  BY DEF Numbered, OpenConnections, Changing
<1> QED
  BY <1>1, <1>2, <1>3 DEF OInv, CallbacksNeverDereferenceNull

LEMMA OverlapInvariance == Spec => []OInv
  BY InitOInv, StepOInv, PTL DEF Spec

\* Whatever is lost, fails or interleaves: a WebRTC callback never dereferences a
\* null peer_connection_, only a WebSocket message does.
THEOREM CallbacksKeepTheirPeer == Spec => []CallbacksNeverDereferenceNull
<1>1. OInv => CallbacksNeverDereferenceNull
  BY DEF OInv
<1> QED
  BY <1>1, OverlapInvariance, PTL

\* Whatever is lost, fails, throws or interleaves, and in the window between the
\* creation of a connection and its assignment too, the answer is asked of the
\* connection whose offer was set, or that one was overwritten while it lived.
THEOREM AnswersTheOffer == Spec => []AnswersOwnOffer
<1>1. OInv => AnswersOwnOffer
  BY DEF OInv, AnswersOwnOffer, RtcKeepsPeer, TypeOK, Peers
<1> QED
  BY <1>1, OverlapInvariance, PTL

-----------------------------------------------------------------------------
(* Every interleaving, when connections can be created and status messages *)
(* sent: no state refuses offers for ever, as long as no connection is     *)
(* created over a live one.                                                *)

Faultless == ~CreateMayFail /\ ~SendMayFail

\* The application thread runs the shutdown to its end.
ShutdownOrder ==
    /\ at["app"] \in {"idle", "join"} \union CloseLocations \union ShutdownLocations
    /\ at["app"] \in CloseLocations => ret["app"] = "destroy"
    /\ ~signaling /\ at["app"] = "idle" => factory = "gone"

\* A close on rtc that runs while a connection is created is that of the connection
\* which is still there; when it is gone the close is past the pointer.
Ending == {"idle", "release", "notify"} \union Hung
CloseBesideOffer ==
    at["ws"] = "assign" =>
      /\ peer = 0 => at["rtc"] \in Ending
      /\ at["rtc"] \in {"media", "channels", "test", "close", "closing"}
           => state \notin Active

\* No callback reaches the connection of an offer before its description is set.
OfferSucceeds ==
    /\ at["ws"] \in {"created?", "remote", "inRemote"} =>
         at["rtc"] \in Ending /\ peer # 0 /\ phase[peer] = "new"
    /\ at["ws"] \notin {"failed", "replace"} /\ state # "RTC_FAILED"

\* A close that was announced is still under way, or hangs.
Announced == {"media", "channels", "test", "close", "closing", "clear", "release",
              "notify"} \union Hung
ClosesAreFinished ==
    /\ state = "DISCONNECTED" => at["app"] = "stop"
    /\ state = "RTC_DISCONNECTING" => \E t \in {"ws", "rtc"} : at[t] \in Announced

FInv ==
    fault = "none" =>
      /\ ShutdownOrder
      /\ signaling /\ replaced = {} =>
           CloseBesideOffer /\ OfferSucceeds /\ ClosesAreFinished

LEMMA StepFInv == ASSUME Faultless PROVE OInv /\ FInv /\ [Next]_vars => FInv'
<1> SUFFICES ASSUME OInv, FInv, [Next]_vars PROVE FInv'
  OBVIOUS
<1> USE ConstantsAssumption DEF ConstantsAssumption, links, session, handlers,
        process, control, Peers, Threads, TypeOK, States, Locations,
        CloseLocations, OfferLocations, CandidateLocations, CallbackLocations,
        ShutdownLocations, Hung, At, Goto, SetState, BeginClose, Leave,
        SetState, Enter, RtcRuns, Active, Numbered, Changing, SignalingPlaces,
        SignalingFactory, OpenConnections, RtcKeepsPeer, Faultless,
        ShutdownOrder, Ending, CloseBesideOffer, OfferSucceeds, Announced,
        ClosesAreFinished, OInv, FInv
<1>1. CASE UNCHANGED vars
  BY <1>1 DEF vars, links
<1>2. ASSUME NEW t \in Threads, ClosePeerConnection(t) PROVE FInv'
  <2>1. CASE TestConnected(t)
    BY <2>1 DEF TestConnected, Test
  <2>2. CASE TestConnecting(t)
    BY <2>2 DEF TestConnecting, Test
  <2>3. CASE SetDisconnecting(t)
    BY <2>3 DEF SetDisconnecting
  <2>4. CASE CloseAllMediaTracks(t)
    BY <2>4 DEF CloseAllMediaTracks, Tangled
  <2>5. CASE CloseAllDataChannels(t)
    BY <2>5 DEF CloseAllDataChannels
  <2>6. CASE TestPeer(t)
    BY <2>6 DEF TestPeer
  <2>7. CASE EnterClose(t)
    BY <2>7 DEF EnterClose, Enter
  <2>8. CASE RunClose(t)
    BY <2>8 DEF RunClose, RtcRuns, CloseFromWithin, Tangled, Close
  <2>9. CASE ClearPeer(t)
    BY <2>9 DEF ClearPeer, Assign, Close
  <2>10. CASE ReleasePeer(t)
    BY <2>10 DEF ReleasePeer, RtcRuns
  <2>11. CASE OnConnectionDisconnected(t)
    BY <2>11 DEF OnConnectionDisconnected
  <2> QED
    BY <1>2, <2>1, <2>2, <2>3, <2>4, <2>5, <2>6, <2>7, <2>8, <2>9, <2>10,
       <2>11
    DEF ClosePeerConnection
<1>3. CASE WsNext
  <2>1. CASE HandleSdpOffer
    BY <2>1 DEF HandleSdpOffer, MayStart
  <2>2. CASE TestReady
    BY <2>2 DEF TestReady
  <2>3. CASE AcceptOffer
    BY <2>3 DEF AcceptOffer
  <2>4. CASE CreateObserver
    BY <2>4 DEF CreateObserver
  <2>5. CASE CreateConnection
    BY <2>5 DEF CreateConnection, RtcRuns
  <2>6. CASE AssignConnection
    BY <2>6 DEF AssignConnection, Assign, Phases, Negotiating
  <2>7. CASE ReleaseReplaced
    BY <2>7 DEF ReleaseReplaced, Close, RtcRuns
  <2>8. CASE TestCreated
    BY <2>8 DEF TestCreated
  <2>9. CASE FailOffer
    BY <2>9 DEF FailOffer
  <2>10. CASE EnterSetRemoteDescription
    BY <2>10 DEF EnterSetRemoteDescription, Enter
  <2>11. CASE RunSetRemoteDescription
    BY <2>11 DEF RunSetRemoteDescription, RtcRuns, Phases, Negotiating
  <2>12. CASE HandleCloseConnection
    BY <2>12 DEF HandleCloseConnection, MayStart
  <2>13. CASE HandleIceCandidateFromSignaling
    BY <2>13 DEF HandleIceCandidateFromSignaling, MayStart
  <2>14. CASE EnterAddIceCandidate
    BY <2>14 DEF EnterAddIceCandidate, Enter
  <2>15. CASE RunAddIceCandidate
    BY <2>15 DEF RunAddIceCandidate, RtcRuns
  <2> QED
    BY <1>3, <2>1, <2>2, <2>3, <2>4, <2>5, <2>6, <2>7, <2>8, <2>9, <2>10,
       <2>11, <2>12, <2>13, <2>14, <2>15
    DEF WsNext
<1>4. CASE RtcNext
  <2>1. ASSUME NEW p \in Peers, DescriptionFails(p) PROVE FInv'
    BY <2>1 DEF DescriptionFails, MayStart, Phases, Negotiating
  <2>2. ASSUME NEW p \in Peers, AfterSetSessionDescription(p) PROVE FInv'
    BY <2>2 DEF AfterSetSessionDescription, MayStart, Phases, Negotiating
  <2>3. ASSUME NEW p \in Peers, AfterCreateSdpAnswer(p) PROVE FInv'
    BY <2>3 DEF AfterCreateSdpAnswer, MayStart, Phases, Negotiating
  <2>4. ASSUME NEW p \in Peers, AfterSetLocalDescription(p) PROVE FInv'
    BY <2>4 DEF AfterSetLocalDescription, MayStart, Phases, Negotiating
  <2>5. ASSUME NEW p \in Peers, OnConnectionConnected(p) PROVE FInv'
    BY <2>5 DEF OnConnectionConnected, MayStart, Phases, Negotiating
  <2>6. ASSUME NEW p \in Peers, OnConnectionLost(p) PROVE FInv'
    BY <2>6 DEF OnConnectionLost, MayStart, Phases, Negotiating
  <2>7. ASSUME NEW p \in Peers, OnDataChannel(p) PROVE FInv'
    BY <2>7 DEF OnDataChannel, MayStart
  <2>8. ASSUME NEW p \in Peers, ObserverIsGone(p) PROVE FInv'
    BY <2>8 DEF ObserverIsGone, MayStart
  <2>9. CASE CreateAllMediaTracks
    BY <2>9 DEF CreateAllMediaTracks, Tangled, Phases, Negotiating
  <2>10. CASE CreateAnswer
    BY <2>10 DEF CreateAnswer, Phases, Negotiating
  <2>11. CASE AwaitGil
    BY <2>11 DEF AwaitGil, MayStart, Hung
  <2> QED
    BY <1>4, <2>1, <2>2, <2>3, <2>4, <2>5, <2>6, <2>7, <2>8, <2>9, <2>10,
       <2>11
    DEF RtcNext
<1>5. CASE AppNext
  <2>1. CASE InitializeWebRTC
    BY <2>1 DEF InitializeWebRTC, MayStart
  <2>2. CASE ShuttingDown
    BY <2>2 DEF ShuttingDown, MayStart
  <2>3. CASE StopSignalingServer
    BY <2>3 DEF StopSignalingServer
  <2>4. CASE DestroyPeer
    BY <2>4 DEF DestroyPeer, Assign, Close
  <2>5. CASE DestroyFactory
    BY <2>5 DEF DestroyFactory, RtcRuns
  <2> QED
    BY <1>5, <2>1, <2>2, <2>3, <2>4, <2>5 DEF AppNext
<1>6. CASE Halted
  BY <1>6 DEF Halted, vars, links
<1> QED
  BY ONLY <1>1, <1>2, <1>3, <1>4, <1>5, <1>6, [Next]_vars DEF Next

LEMMA InitFInv == Init => FInv
  BY DEF Init, Threads, FInv, ShutdownOrder, CloseBesideOffer, OfferSucceeds,
     ClosesAreFinished, CloseLocations

\* Lost connections, throwing handlers and closing on two threads leave no state
\* behind that the next offer does not lead out of, unless a connection was created
\* over a live one.
THEOREM NeverStuck == ASSUME Faultless PROVE Spec => []TakesOffersAgain
<1>1. OInv /\ FInv => TakesOffersAgain
  BY DEF FInv, OInv, TypeOK, States, TakesOffersAgain, Quiet, Threads, Active, Announced,
     Hung, ShutdownOrder, OfferSucceeds, ClosesAreFinished, SignalingFactory
<1>2. OInv /\ FInv /\ [Next]_vars => FInv'
  BY StepFInv
<1> QED
  BY <1>1, <1>2, InitFInv, OverlapInvariance, PTL DEF Spec

-----------------------------------------------------------------------------
(* Handlers that do not interleave, in any environment: lost connections,  *)
(* closes reported from within, connections that cannot be created, status *)
(* messages and handlers that throw.                                       *)

Sequential == MayOverlap = {}

OneHandler == \A t, u \in Threads : t # u => at[t] = "idle" \/ at[u] = "idle"

\* The handlers of a session are closed before its connection is, or the close is
\* left through the catch.
ClosesInOrder ==
    fault = "none" => \A t \in Threads :
        /\ at[t] = "disconnecting" => state \in Active
        /\ at[t] \in {"media", "channels", "test", "close", "closing", "clear",
                     "release", "notify"} => state = "RTC_DISCONNECTING"
        /\ at[t] \in {"channels", "test", "close", "closing", "clear", "release"}
             => ~media
        /\ at[t] \in {"test", "close", "closing", "clear", "release"} => channel = 0
        /\ at[t] = "release" => peer = 0
        /\ at[t] = "notify" => abandoned \/ (peer = 0 /\ ~media /\ channel = 0)

\* Nothing is left of the old session when an offer is accepted.
OffersInOrder ==
    /\ at["ws"] = "accept" => state = "READY_TO_CONNECT"
    /\ at["ws"] \in {"create", "factory", "assign", "replace", "created?", "failed"}
         => state = "RTC_CONNECTING" /\ (abandoned \/ (~media /\ channel = 0))
    /\ at["ws"] \in {"create", "factory", "assign"} => abandoned \/ peer = 0
    /\ at["ws"] = "failed" => peer = 0

\* A connector without a session has nothing of one.
NothingLeft ==
    /\ state \in {"INITIALIZING", "READY_TO_CONNECT", "RTC_FAILED"}
         => abandoned \/ (peer = 0 /\ ~media /\ channel = 0)
    /\ state \in {"INITIALIZING", "RTC_FAILED"} => peer = 0

OpenIsPeer ==
    /\ \A p \in open : \/ p = peer
                       \/ at["ws"] = "assign" /\ p = made
                       \/ at["ws"] = "replace" /\ p \in replaced
    /\ at["rtc"] \in CallbackLocations => peer # 0
    /\ at["ws"] = "assign" => made # 0

Initialized ==
    /\ state = "INITIALIZING" <=> factory = "none"
    /\ at["app"] # "idle" => factory = "up"

SInv ==
    /\ TypeOK
    /\ OneHandler /\ ClosesInOrder /\ OffersInOrder /\ NothingLeft
    /\ OpenIsPeer /\ Initialized

LEMMA InitSInv == Init => SInv
<1> SUFFICES ASSUME Init PROVE SInv
  OBVIOUS
<1> USE DEF Init, Threads, CallbackLocations
<1>1. TypeOK
  BY InitType
<1>2. OneHandler /\ ClosesInOrder /\ OffersInOrder
  BY DEF OneHandler, ClosesInOrder, OffersInOrder
<1>3. NothingLeft /\ OpenIsPeer /\ Initialized
  BY DEF NothingLeft, OpenIsPeer, Initialized
<1> QED
  BY <1>1, <1>2, <1>3 DEF SInv

LEMMA StepSInv == ASSUME Sequential PROVE SInv /\ [Next]_vars => SInv'
<1> SUFFICES ASSUME SInv, [Next]_vars PROVE SInv'
  OBVIOUS
<1>0. TypeOK'
  BY TypeStep DEF SInv
<1> USE ConstantsAssumption, <1>0 DEF ConstantsAssumption, links, session,
        handlers, process, control, Peers, Threads, TypeOK, States, Locations,
        CloseLocations, OfferLocations, CandidateLocations, CallbackLocations,
        ShutdownLocations, Hung, At, Goto, SetState, BeginClose, Leave,
        SetState, Enter, Active, Sequential, OneHandler, ClosesInOrder,
        OffersInOrder, NothingLeft, OpenIsPeer, Initialized, SInv
<1>1. CASE UNCHANGED vars
  BY <1>1 DEF vars, links
<1>2. ASSUME NEW t \in Threads, ClosePeerConnection(t) PROVE SInv'
  <2>1. CASE TestConnected(t)
    BY <2>1 DEF TestConnected, Test
  <2>2. CASE TestConnecting(t)
    BY <2>2 DEF TestConnecting, Test
  <2>3. CASE SetDisconnecting(t)
    BY <2>3 DEF SetDisconnecting
  <2>4. CASE CloseAllMediaTracks(t)
    BY <2>4 DEF CloseAllMediaTracks, Tangled
  <2>5. CASE CloseAllDataChannels(t)
    BY <2>5 DEF CloseAllDataChannels
  <2>6. CASE TestPeer(t)
    BY <2>6 DEF TestPeer
  <2>7. CASE EnterClose(t)
    BY <2>7 DEF EnterClose, Enter
  <2>8. CASE RunClose(t)
    BY <2>8 DEF RunClose, RtcRuns, CloseFromWithin, Tangled, Close
  <2>9. CASE ClearPeer(t)
    BY <2>9 DEF ClearPeer, Assign, Close
  <2>10. CASE ReleasePeer(t)
    BY <2>10 DEF ReleasePeer, RtcRuns
  <2>11. CASE OnConnectionDisconnected(t)
    BY <2>11 DEF OnConnectionDisconnected
  <2> QED
    BY <1>2, <2>1, <2>2, <2>3, <2>4, <2>5, <2>6, <2>7, <2>8, <2>9, <2>10,
       <2>11
    DEF ClosePeerConnection
<1>3. CASE WsNext
  <2>1. CASE HandleSdpOffer
    BY <2>1 DEF HandleSdpOffer, MayStart
  <2>2. CASE TestReady
    BY <2>2 DEF TestReady
  <2>3. CASE AcceptOffer
    BY <2>3 DEF AcceptOffer
  <2>4. CASE CreateObserver
    BY <2>4 DEF CreateObserver
  <2>5. CASE CreateConnection
    BY <2>5 DEF CreateConnection, RtcRuns
  <2>6. CASE AssignConnection
    BY <2>6 DEF AssignConnection, Assign
  <2>7. CASE ReleaseReplaced
    BY <2>7 DEF ReleaseReplaced, Close, RtcRuns
  <2>8. CASE TestCreated
    BY <2>8 DEF TestCreated
  <2>9. CASE FailOffer
    BY <2>9 DEF FailOffer
  <2>10. CASE EnterSetRemoteDescription
    BY <2>10 DEF EnterSetRemoteDescription, Enter
  <2>11. CASE RunSetRemoteDescription
    BY <2>11 DEF RunSetRemoteDescription, RtcRuns
  <2>12. CASE HandleCloseConnection
    BY <2>12 DEF HandleCloseConnection, MayStart
  <2>13. CASE HandleIceCandidateFromSignaling
    BY <2>13 DEF HandleIceCandidateFromSignaling, MayStart
  <2>14. CASE EnterAddIceCandidate
    BY <2>14 DEF EnterAddIceCandidate, Enter
  <2>15. CASE RunAddIceCandidate
    BY <2>15 DEF RunAddIceCandidate, RtcRuns
  <2> QED
    BY <1>3, <2>1, <2>2, <2>3, <2>4, <2>5, <2>6, <2>7, <2>8, <2>9, <2>10,
       <2>11, <2>12, <2>13, <2>14, <2>15
    DEF WsNext
<1>4. CASE RtcNext
  <2>1. ASSUME NEW p \in Peers, DescriptionFails(p) PROVE SInv'
    BY <2>1 DEF DescriptionFails, MayStart, Phases, Negotiating
  <2>2. ASSUME NEW p \in Peers, AfterSetSessionDescription(p) PROVE SInv'
    BY <2>2 DEF AfterSetSessionDescription, MayStart, Phases, Negotiating
  <2>3. ASSUME NEW p \in Peers, AfterCreateSdpAnswer(p) PROVE SInv'
    BY <2>3 DEF AfterCreateSdpAnswer, MayStart, Phases, Negotiating
  <2>4. ASSUME NEW p \in Peers, AfterSetLocalDescription(p) PROVE SInv'
    BY <2>4 DEF AfterSetLocalDescription, MayStart, Phases, Negotiating
  <2>5. ASSUME NEW p \in Peers, OnConnectionConnected(p) PROVE SInv'
    BY <2>5 DEF OnConnectionConnected, MayStart, Phases, Negotiating
  <2>6. ASSUME NEW p \in Peers, OnConnectionLost(p) PROVE SInv'
    BY <2>6 DEF OnConnectionLost, MayStart, Phases, Negotiating
  <2>7. ASSUME NEW p \in Peers, OnDataChannel(p) PROVE SInv'
    BY <2>7 DEF OnDataChannel, MayStart
  <2>8. ASSUME NEW p \in Peers, ObserverIsGone(p) PROVE SInv'
    BY <2>8 DEF ObserverIsGone, MayStart
  <2>9. CASE CreateAllMediaTracks
    BY <2>9 DEF CreateAllMediaTracks, Tangled, Phases, Negotiating
  <2>10. CASE CreateAnswer
    BY <2>10 DEF CreateAnswer, Phases, Negotiating
  <2>11. CASE AwaitGil
    BY <2>11 DEF AwaitGil, MayStart, Hung
  <2> QED
    BY <1>4, <2>1, <2>2, <2>3, <2>4, <2>5, <2>6, <2>7, <2>8, <2>9, <2>10,
       <2>11
    DEF RtcNext
<1>5. CASE AppNext
  <2>1. CASE InitializeWebRTC
    BY <2>1 DEF InitializeWebRTC, MayStart
  <2>2. CASE ShuttingDown
    BY <2>2 DEF ShuttingDown, MayStart
  <2>3. CASE StopSignalingServer
    BY <2>3 DEF StopSignalingServer
  <2>4. CASE DestroyPeer
    BY <2>4 DEF DestroyPeer, Assign, Close
  <2>5. CASE DestroyFactory
    BY <2>5 DEF DestroyFactory, RtcRuns
  <2> QED
    BY <1>5, <2>1, <2>2, <2>3, <2>4, <2>5 DEF AppNext
<1>6. CASE Halted
  BY <1>6 DEF Halted, vars, links
<1> QED
  BY ONLY <1>1, <1>2, <1>3, <1>4, <1>5, <1>6, [Next]_vars DEF Next

LEMMA SequentialInvariance == ASSUME Sequential PROVE Spec => []SInv
<1>1. SInv /\ [Next]_vars => SInv'
  BY StepSInv
<1> QED
  BY InitSInv, <1>1, PTL DEF Spec

\* A connector that is ready between two handlers has no track source running
\* and no data channel attached, whatever was lost or failed before, unless a
\* throwing handler has abandoned the last close.
THEOREM ReadyIsClean == ASSUME Sequential PROVE Spec => []NothingRunsWhenReady
<1>1. SInv => NothingRunsWhenReady
  BY DEF SInv, NothingLeft, NothingRunsWhenReady
<1> QED
  BY <1>1, SequentialInvariance, PTL

\* No connection is created over another one, whatever was lost or failed, unless
\* a throwing handler has abandoned the last close.
THEOREM SequentialNeverReplaces ==
    ASSUME Sequential PROVE Spec => []ReplacesNothing
<1>1. SInv => ReplacesNothing
  BY DEF SInv, OffersInOrder, ReplacesNothing
<1> QED
  BY <1>1, SequentialInvariance, PTL

\* What a step from RTC_FAILED does.
StaysFailed == peer' = 0 /\ state' \in {"RTC_FAILED", "DISCONNECTED"}

LEMMA FailedStep ==
    ASSUME Sequential
    PROVE  SInv /\ [Next]_vars => [state = "RTC_FAILED" => StaysFailed]_vars
<1> SUFFICES ASSUME SInv, Next, state = "RTC_FAILED" PROVE StaysFailed
  OBVIOUS
<1> USE ConstantsAssumption DEF ConstantsAssumption, links, session, handlers,
        process, control, Peers, Threads, TypeOK, States, Locations,
        CloseLocations, OfferLocations, CandidateLocations, CallbackLocations,
        ShutdownLocations, Hung, At, Goto, SetState, BeginClose, Leave,
        SetState, Enter, Active, Sequential, OneHandler, ClosesInOrder,
        OffersInOrder, NothingLeft, OpenIsPeer, Initialized, SInv, StaysFailed
<1>2. ASSUME NEW t \in Threads, ClosePeerConnection(t) PROVE StaysFailed
  <2>1. CASE TestConnected(t)
    BY <2>1 DEF TestConnected, Test
  <2>2. CASE TestConnecting(t)
    BY <2>2 DEF TestConnecting, Test
  <2>3. CASE SetDisconnecting(t)
    BY <2>3 DEF SetDisconnecting
  <2>4. CASE CloseAllMediaTracks(t)
    BY <2>4 DEF CloseAllMediaTracks, Tangled
  <2>5. CASE CloseAllDataChannels(t)
    BY <2>5 DEF CloseAllDataChannels
  <2>6. CASE TestPeer(t)
    BY <2>6 DEF TestPeer
  <2>7. CASE EnterClose(t)
    BY <2>7 DEF EnterClose, Enter
  <2>8. CASE RunClose(t)
    BY <2>8 DEF RunClose, RtcRuns, CloseFromWithin, Tangled, Close
  <2>9. CASE ClearPeer(t)
    BY <2>9 DEF ClearPeer, Assign, Close
  <2>10. CASE ReleasePeer(t)
    BY <2>10 DEF ReleasePeer, RtcRuns
  <2>11. CASE OnConnectionDisconnected(t)
    BY <2>11 DEF OnConnectionDisconnected
  <2> QED
    BY <1>2, <2>1, <2>2, <2>3, <2>4, <2>5, <2>6, <2>7, <2>8, <2>9, <2>10,
       <2>11
    DEF ClosePeerConnection
<1>3. CASE WsNext
  <2>1. CASE HandleSdpOffer
    BY <2>1 DEF HandleSdpOffer, MayStart
  <2>2. CASE TestReady
    BY <2>2 DEF TestReady
  <2>3. CASE AcceptOffer
    BY <2>3 DEF AcceptOffer
  <2>4. CASE CreateObserver
    BY <2>4 DEF CreateObserver
  <2>5. CASE CreateConnection
    BY <2>5 DEF CreateConnection, RtcRuns
  <2>6. CASE AssignConnection
    BY <2>6 DEF AssignConnection, Assign
  <2>7. CASE ReleaseReplaced
    BY <2>7 DEF ReleaseReplaced, Close, RtcRuns
  <2>8. CASE TestCreated
    BY <2>8 DEF TestCreated
  <2>9. CASE FailOffer
    BY <2>9 DEF FailOffer
  <2>10. CASE EnterSetRemoteDescription
    BY <2>10 DEF EnterSetRemoteDescription, Enter
  <2>11. CASE RunSetRemoteDescription
    BY <2>11 DEF RunSetRemoteDescription, RtcRuns
  <2>12. CASE HandleCloseConnection
    BY <2>12 DEF HandleCloseConnection, MayStart
  <2>13. CASE HandleIceCandidateFromSignaling
    BY <2>13 DEF HandleIceCandidateFromSignaling, MayStart
  <2>14. CASE EnterAddIceCandidate
    BY <2>14 DEF EnterAddIceCandidate, Enter
  <2>15. CASE RunAddIceCandidate
    BY <2>15 DEF RunAddIceCandidate, RtcRuns
  <2> QED
    BY <1>3, <2>1, <2>2, <2>3, <2>4, <2>5, <2>6, <2>7, <2>8, <2>9, <2>10,
       <2>11, <2>12, <2>13, <2>14, <2>15
    DEF WsNext
<1>4. CASE RtcNext
  <2>1. ASSUME NEW p \in Peers, DescriptionFails(p) PROVE StaysFailed
    BY <2>1 DEF DescriptionFails, MayStart, Phases, Negotiating
  <2>2. ASSUME NEW p \in Peers, AfterSetSessionDescription(p) PROVE StaysFailed
    BY <2>2 DEF AfterSetSessionDescription, MayStart, Phases, Negotiating
  <2>3. ASSUME NEW p \in Peers, AfterCreateSdpAnswer(p) PROVE StaysFailed
    BY <2>3 DEF AfterCreateSdpAnswer, MayStart, Phases, Negotiating
  <2>4. ASSUME NEW p \in Peers, AfterSetLocalDescription(p) PROVE StaysFailed
    BY <2>4 DEF AfterSetLocalDescription, MayStart, Phases, Negotiating
  <2>5. ASSUME NEW p \in Peers, OnConnectionConnected(p) PROVE StaysFailed
    BY <2>5 DEF OnConnectionConnected, MayStart, Phases, Negotiating
  <2>6. ASSUME NEW p \in Peers, OnConnectionLost(p) PROVE StaysFailed
    BY <2>6 DEF OnConnectionLost, MayStart, Phases, Negotiating
  <2>7. ASSUME NEW p \in Peers, OnDataChannel(p) PROVE StaysFailed
    BY <2>7 DEF OnDataChannel, MayStart
  <2>8. ASSUME NEW p \in Peers, ObserverIsGone(p) PROVE StaysFailed
    BY <2>8 DEF ObserverIsGone, MayStart
  <2>9. CASE CreateAllMediaTracks
    BY <2>9 DEF CreateAllMediaTracks, Tangled, Phases, Negotiating
  <2>10. CASE CreateAnswer
    BY <2>10 DEF CreateAnswer, Phases, Negotiating
  <2>11. CASE AwaitGil
    BY <2>11 DEF AwaitGil, MayStart, Hung
  <2> QED
    BY <1>4, <2>1, <2>2, <2>3, <2>4, <2>5, <2>6, <2>7, <2>8, <2>9, <2>10,
       <2>11
    DEF RtcNext
<1>5. CASE AppNext
  <2>1. CASE InitializeWebRTC
    BY <2>1 DEF InitializeWebRTC, MayStart
  <2>2. CASE ShuttingDown
    BY <2>2 DEF ShuttingDown, MayStart
  <2>3. CASE StopSignalingServer
    BY <2>3 DEF StopSignalingServer
  <2>4. CASE DestroyPeer
    BY <2>4 DEF DestroyPeer, Assign, Close
  <2>5. CASE DestroyFactory
    BY <2>5 DEF DestroyFactory, RtcRuns
  <2> QED
    BY <1>5, <2>1, <2>2, <2>3, <2>4, <2>5 DEF AppNext
<1>6. CASE Halted
  BY <1>6 DEF Halted, vars, links
<1> QED
  BY ONLY <1>2, <1>3, <1>4, <1>5, <1>6, Next DEF Next

\* RTC_FAILED is left by the shutdown only.
THEOREM FailedStaysFailed == ASSUME Sequential PROVE Spec => FailedIsFinal
<1>1. SInv /\ [Next]_vars => [state = "RTC_FAILED" => StaysFailed]_vars
  BY FailedStep
<1> QED
  BY <1>1, SequentialInvariance, PTL DEF Spec, FailedIsFinal, StaysFailed

-----------------------------------------------------------------------------
(* The same, when no status message throws.                                *)

\* Where each thread can be, and what ClosePeerConnection returns to.
SequentialPlaces ==
    /\ at["ws"] \in {"idle"} \union CloseLocations \union OfferLocations
                      \union CandidateLocations
    /\ at["rtc"] \in {"idle"} \union CloseLocations \union CallbackLocations
    /\ at["app"] \in {"idle", "connected?", "connecting?"} \union ShutdownLocations
    /\ ret["ws"] # "destroy" /\ ret["rtc"] = "idle"
    /\ at["app"] \in {"connected?", "connecting?"} => ret["app"] = "destroy"

\* A call is one on the current connection.
CallsPeer ==
    /\ \A t \in Threads :
         /\ at[t] \in {"disconnecting", "media", "channels", "test", "close", "closing",
                       "clear"} => peer # 0
         /\ held[t] = IF at[t] \in {"closing", "inRemote", "inCandidate"} THEN peer ELSE 0
    /\ at["ws"] \in {"remote", "inRemote"} \union CandidateLocations => peer # 0

\* Where the announced state does not tell whether there is a connection.
Unsettled == {"media", "channels", "test", "close", "closing", "clear", "release",
              "notify", "create", "factory", "assign", "replace", "created?", "failed"}

Settled ==
    state # "DISCONNECTED" /\ (\A t \in Threads : at[t] \notin Unsettled) =>
      /\ state \in Active => peer # 0
      /\ peer # 0 => abandoned \/ state \in Active

\* The state does not change between the two tests of ClosePeerConnection.
TestsAgree == \A t \in Threads : at[t] = "connecting?" => state # "RTC_CONNECTED"

ShutdownIsLast ==
    /\ at["app"] # "idle" => state = "DISCONNECTED"
    /\ at["app"] = "dropFactory" => peer = 0
    /\ at["app"] = "idle" /\ state = "DISCONNECTED" => peer = 0 /\ factory = "gone"
    /\ state # "DISCONNECTED" => signaling /\ factory # "gone"

\* The inductive invariant beside SInv.
QInv ==
    /\ fault = "none" => SequentialPlaces /\ CallsPeer /\ Settled /\ ShutdownIsLast
                           /\ TestsAgree
    /\ OfferEndsOldSession

\* When no handler throws, no connection is replaced and each has its observer.
NInv ==
    /\ NoFault /\ ~abandoned /\ at["ws"] # "replace"
    /\ \A p \in open : p = observer
    /\ at["ws"] = "factory" => observer = made + 1

\* When connections can be created, no offer fails.
NoneFails ==
    /\ state # "RTC_FAILED" /\ at["ws"] # "failed"
    /\ at["ws"] = "created?" => peer # 0

LEMMA StepQInv ==
    ASSUME Sequential, ~SendMayFail
    PROVE  SInv /\ QInv /\ [Next]_vars => QInv'
<1> SUFFICES ASSUME SInv, QInv, [Next]_vars PROVE QInv'
  OBVIOUS
<1> USE ConstantsAssumption DEF ConstantsAssumption, links, session, handlers,
        process, control, Peers, Threads, TypeOK, States, Locations,
        CloseLocations, OfferLocations, CandidateLocations, CallbackLocations,
        ShutdownLocations, Hung, At, Goto, SetState, BeginClose, Leave,
        SetState, Enter, Active, Sequential, OneHandler, ClosesInOrder,
        OffersInOrder, OpenIsPeer, Initialized, SInv, SequentialPlaces,
        CallsPeer, Settled, Unsettled, ShutdownIsLast, TestsAgree,
        OfferEndsOldSession, QInv
<1>1. CASE UNCHANGED vars
  BY <1>1 DEF vars, links
<1>2. ASSUME NEW t \in Threads, ClosePeerConnection(t) PROVE QInv'
  <2>1. CASE TestConnected(t)
    BY <2>1 DEF TestConnected, Test
  <2>2. CASE TestConnecting(t)
    BY <2>2 DEF TestConnecting, Test
  <2>3. CASE SetDisconnecting(t)
    BY <2>3 DEF SetDisconnecting
  <2>4. CASE CloseAllMediaTracks(t)
    BY <2>4 DEF CloseAllMediaTracks, Tangled
  <2>5. CASE CloseAllDataChannels(t)
    BY <2>5 DEF CloseAllDataChannels
  <2>6. CASE TestPeer(t)
    BY <2>6 DEF TestPeer
  <2>7. CASE EnterClose(t)
    BY <2>7 DEF EnterClose, Enter
  <2>8. CASE RunClose(t)
    BY <2>8 DEF RunClose, RtcRuns, CloseFromWithin, Tangled, Close
  <2>9. CASE ClearPeer(t)
    BY <2>9 DEF ClearPeer, Assign, Close
  <2>10. CASE ReleasePeer(t)
    BY <2>10 DEF ReleasePeer, RtcRuns
  <2>11. CASE OnConnectionDisconnected(t)
    BY <2>11 DEF OnConnectionDisconnected
  <2> QED
    BY <1>2, <2>1, <2>2, <2>3, <2>4, <2>5, <2>6, <2>7, <2>8, <2>9, <2>10,
       <2>11
    DEF ClosePeerConnection
<1>3. CASE WsNext
  <2>1. CASE HandleSdpOffer
    BY <2>1 DEF HandleSdpOffer, MayStart
  <2>2. CASE TestReady
    BY <2>2 DEF TestReady
  <2>3. CASE AcceptOffer
    BY <2>3 DEF AcceptOffer
  <2>4. CASE CreateObserver
    BY <2>4 DEF CreateObserver
  <2>5. CASE CreateConnection
    BY <2>5 DEF CreateConnection, RtcRuns
  <2>6. CASE AssignConnection
    BY <2>6 DEF AssignConnection, Assign
  <2>7. CASE ReleaseReplaced
    BY <2>7 DEF ReleaseReplaced, Close, RtcRuns
  <2>8. CASE TestCreated
    BY <2>8 DEF TestCreated
  <2>9. CASE FailOffer
    BY <2>9 DEF FailOffer
  <2>10. CASE EnterSetRemoteDescription
    BY <2>10 DEF EnterSetRemoteDescription, Enter
  <2>11. CASE RunSetRemoteDescription
    BY <2>11 DEF RunSetRemoteDescription, RtcRuns
  <2>12. CASE HandleCloseConnection
    BY <2>12 DEF HandleCloseConnection, MayStart
  <2>13. CASE HandleIceCandidateFromSignaling
    BY <2>13 DEF HandleIceCandidateFromSignaling, MayStart
  <2>14. CASE EnterAddIceCandidate
    BY <2>14 DEF EnterAddIceCandidate, Enter
  <2>15. CASE RunAddIceCandidate
    BY <2>15 DEF RunAddIceCandidate, RtcRuns
  <2> QED
    BY <1>3, <2>1, <2>2, <2>3, <2>4, <2>5, <2>6, <2>7, <2>8, <2>9, <2>10,
       <2>11, <2>12, <2>13, <2>14, <2>15
    DEF WsNext
<1>4. CASE RtcNext
  <2>1. ASSUME NEW p \in Peers, DescriptionFails(p) PROVE QInv'
    BY <2>1 DEF DescriptionFails, MayStart, Phases, Negotiating
  <2>2. ASSUME NEW p \in Peers, AfterSetSessionDescription(p) PROVE QInv'
    BY <2>2 DEF AfterSetSessionDescription, MayStart, Phases, Negotiating
  <2>3. ASSUME NEW p \in Peers, AfterCreateSdpAnswer(p) PROVE QInv'
    BY <2>3 DEF AfterCreateSdpAnswer, MayStart, Phases, Negotiating
  <2>4. ASSUME NEW p \in Peers, AfterSetLocalDescription(p) PROVE QInv'
    BY <2>4 DEF AfterSetLocalDescription, MayStart, Phases, Negotiating
  <2>5. ASSUME NEW p \in Peers, OnConnectionConnected(p) PROVE QInv'
    BY <2>5 DEF OnConnectionConnected, MayStart, Phases, Negotiating
  <2>6. ASSUME NEW p \in Peers, OnConnectionLost(p) PROVE QInv'
    BY <2>6 DEF OnConnectionLost, MayStart, Phases, Negotiating
  <2>7. ASSUME NEW p \in Peers, OnDataChannel(p) PROVE QInv'
    BY <2>7 DEF OnDataChannel, MayStart
  <2>8. ASSUME NEW p \in Peers, ObserverIsGone(p) PROVE QInv'
    BY <2>8 DEF ObserverIsGone, MayStart
  <2>9. CASE CreateAllMediaTracks
    BY <2>9 DEF CreateAllMediaTracks, Tangled, Phases, Negotiating
  <2>10. CASE CreateAnswer
    BY <2>10 DEF CreateAnswer, Phases, Negotiating
  <2>11. CASE AwaitGil
    BY <2>11 DEF AwaitGil, MayStart, Hung
  <2> QED
    BY <1>4, <2>1, <2>2, <2>3, <2>4, <2>5, <2>6, <2>7, <2>8, <2>9, <2>10,
       <2>11
    DEF RtcNext
<1>5. CASE AppNext
  <2>1. CASE InitializeWebRTC
    BY <2>1 DEF InitializeWebRTC, MayStart
  <2>2. CASE ShuttingDown
    BY <2>2 DEF ShuttingDown, MayStart
  <2>3. CASE StopSignalingServer
    BY <2>3 DEF StopSignalingServer
  <2>4. CASE DestroyPeer
    BY <2>4 DEF DestroyPeer, Assign, Close
  <2>5. CASE DestroyFactory
    BY <2>5 DEF DestroyFactory, RtcRuns
  <2> QED
    BY <1>5, <2>1, <2>2, <2>3, <2>4, <2>5 DEF AppNext
<1>6. CASE Halted
  BY <1>6 DEF Halted, vars, links
<1> QED
  BY ONLY <1>1, <1>2, <1>3, <1>4, <1>5, <1>6, [Next]_vars DEF Next

LEMMA StepNInv ==
    ASSUME Sequential, ~SendMayFail, ~HandlersMayThrow
    PROVE  SInv /\ QInv /\ NInv /\ [Next]_vars => NInv'
<1> SUFFICES ASSUME SInv, QInv, NInv, [Next]_vars PROVE NInv'
  OBVIOUS
<1> USE ConstantsAssumption DEF ConstantsAssumption, links, session, handlers,
        process, control, Peers, Threads, TypeOK, States, Locations,
        CloseLocations, OfferLocations, CandidateLocations, CallbackLocations,
        ShutdownLocations, Hung, At, Goto, SetState, BeginClose, Leave,
        SetState, Enter, Active, Sequential, OneHandler, ClosesInOrder,
        OffersInOrder, OpenIsPeer, Initialized, SInv, SequentialPlaces,
        CallsPeer, Settled, Unsettled, ShutdownIsLast, TestsAgree,
        OfferEndsOldSession, QInv, NoFault, NInv
<1>1. CASE UNCHANGED vars
  BY <1>1 DEF vars, links
<1>2. ASSUME NEW t \in Threads, ClosePeerConnection(t) PROVE NInv'
  <2>1. CASE TestConnected(t)
    BY <2>1 DEF TestConnected, Test
  <2>2. CASE TestConnecting(t)
    BY <2>2 DEF TestConnecting, Test
  <2>3. CASE SetDisconnecting(t)
    BY <2>3 DEF SetDisconnecting
  <2>4. CASE CloseAllMediaTracks(t)
    BY <2>4 DEF CloseAllMediaTracks, Tangled
  <2>5. CASE CloseAllDataChannels(t)
    BY <2>5 DEF CloseAllDataChannels
  <2>6. CASE TestPeer(t)
    BY <2>6 DEF TestPeer
  <2>7. CASE EnterClose(t)
    BY <2>7 DEF EnterClose, Enter
  <2>8. CASE RunClose(t)
    <3>1. state \notin Active
      BY <2>8 DEF RunClose
    <3>2. open' \subseteq open /\ UNCHANGED <<observer, made, fault, abandoned>>
      BY <2>8, <3>1 DEF RunClose, Close
    <3>3. at' = [at EXCEPT ![t] = "clear"]
      BY <2>8, <3>1 DEF RunClose
    <3> QED
      BY <3>2, <3>3
  <2>9. CASE ClearPeer(t)
    BY <2>9 DEF ClearPeer, Assign, Close
  <2>10. CASE ReleasePeer(t)
    BY <2>10 DEF ReleasePeer, RtcRuns
  <2>11. CASE OnConnectionDisconnected(t)
    BY <2>11 DEF OnConnectionDisconnected
  <2> QED
    BY <1>2, <2>1, <2>2, <2>3, <2>4, <2>5, <2>6, <2>7, <2>8, <2>9, <2>10,
       <2>11
    DEF ClosePeerConnection
<1>3. CASE WsNext
  <2>1. CASE HandleSdpOffer
    BY <2>1 DEF HandleSdpOffer, MayStart
  <2>2. CASE TestReady
    BY <2>2 DEF TestReady
  <2>3. CASE AcceptOffer
    BY <2>3 DEF AcceptOffer
  <2>4. CASE CreateObserver
    BY <2>4 DEF CreateObserver
  <2>5. CASE CreateConnection
    BY <2>5 DEF CreateConnection, RtcRuns
  <2>6. CASE AssignConnection
    BY <2>6 DEF AssignConnection, Assign
  <2>7. CASE ReleaseReplaced
    BY <2>7 DEF ReleaseReplaced, Close, RtcRuns
  <2>8. CASE TestCreated
    BY <2>8 DEF TestCreated
  <2>9. CASE FailOffer
    BY <2>9 DEF FailOffer
  <2>10. CASE EnterSetRemoteDescription
    BY <2>10 DEF EnterSetRemoteDescription, Enter
  <2>11. CASE RunSetRemoteDescription
    BY <2>11 DEF RunSetRemoteDescription, RtcRuns
  <2>12. CASE HandleCloseConnection
    BY <2>12 DEF HandleCloseConnection, MayStart
  <2>13. CASE HandleIceCandidateFromSignaling
    BY <2>13 DEF HandleIceCandidateFromSignaling, MayStart
  <2>14. CASE EnterAddIceCandidate
    BY <2>14 DEF EnterAddIceCandidate, Enter
  <2>15. CASE RunAddIceCandidate
    BY <2>15 DEF RunAddIceCandidate, RtcRuns
  <2> QED
    BY <1>3, <2>1, <2>2, <2>3, <2>4, <2>5, <2>6, <2>7, <2>8, <2>9, <2>10,
       <2>11, <2>12, <2>13, <2>14, <2>15
    DEF WsNext
<1>4. CASE RtcNext
  <2>1. ASSUME NEW p \in Peers, DescriptionFails(p) PROVE NInv'
    BY <2>1 DEF DescriptionFails, MayStart, Phases, Negotiating
  <2>2. ASSUME NEW p \in Peers, AfterSetSessionDescription(p) PROVE NInv'
    BY <2>2 DEF AfterSetSessionDescription, MayStart, Phases, Negotiating
  <2>3. ASSUME NEW p \in Peers, AfterCreateSdpAnswer(p) PROVE NInv'
    BY <2>3 DEF AfterCreateSdpAnswer, MayStart, Phases, Negotiating
  <2>4. ASSUME NEW p \in Peers, AfterSetLocalDescription(p) PROVE NInv'
    BY <2>4 DEF AfterSetLocalDescription, MayStart, Phases, Negotiating
  <2>5. ASSUME NEW p \in Peers, OnConnectionConnected(p) PROVE NInv'
    BY <2>5 DEF OnConnectionConnected, MayStart, Phases, Negotiating
  <2>6. ASSUME NEW p \in Peers, OnConnectionLost(p) PROVE NInv'
    BY <2>6 DEF OnConnectionLost, MayStart, Phases, Negotiating
  <2>7. ASSUME NEW p \in Peers, OnDataChannel(p) PROVE NInv'
    BY <2>7 DEF OnDataChannel, MayStart
  <2>8. ASSUME NEW p \in Peers, ObserverIsGone(p) PROVE NInv'
    BY <2>8 DEF ObserverIsGone, MayStart
  <2>9. CASE CreateAllMediaTracks
    BY <2>9 DEF CreateAllMediaTracks, Tangled, Phases, Negotiating
  <2>10. CASE CreateAnswer
    BY <2>10 DEF CreateAnswer, Phases, Negotiating
  <2>11. CASE AwaitGil
    BY <2>11 DEF AwaitGil, MayStart, Hung
  <2> QED
    BY <1>4, <2>1, <2>2, <2>3, <2>4, <2>5, <2>6, <2>7, <2>8, <2>9, <2>10,
       <2>11
    DEF RtcNext
<1>5. CASE AppNext
  <2>1. CASE InitializeWebRTC
    BY <2>1 DEF InitializeWebRTC, MayStart
  <2>2. CASE ShuttingDown
    BY <2>2 DEF ShuttingDown, MayStart
  <2>3. CASE StopSignalingServer
    BY <2>3 DEF StopSignalingServer
  <2>4. CASE DestroyPeer
    BY <2>4 DEF DestroyPeer, Assign, Close
  <2>5. CASE DestroyFactory
    BY <2>5 DEF DestroyFactory, RtcRuns
  <2> QED
    BY <1>5, <2>1, <2>2, <2>3, <2>4, <2>5 DEF AppNext
<1>6. CASE Halted
  BY <1>6 DEF Halted, vars, links
<1> QED
  BY ONLY <1>1, <1>2, <1>3, <1>4, <1>5, <1>6, [Next]_vars DEF Next

LEMMA StepNoneFails ==
    ASSUME Sequential, ~SendMayFail, ~CreateMayFail
    PROVE  SInv /\ QInv /\ NInv /\ NoneFails /\ [Next]_vars => NoneFails'
<1> SUFFICES ASSUME SInv, QInv, NInv, NoneFails, [Next]_vars PROVE NoneFails'
  OBVIOUS
<1> USE ConstantsAssumption DEF ConstantsAssumption, links, session, handlers,
        process, control, Peers, Threads, TypeOK, States, Locations,
        CloseLocations, OfferLocations, CandidateLocations, CallbackLocations,
        ShutdownLocations, Hung, At, Goto, SetState, BeginClose, Leave,
        SetState, Enter, Active, Sequential, OneHandler, SInv, OpenIsPeer,
        OffersInOrder, ClosesInOrder, NoneFails, NoFault, NInv, QInv, RtcRuns
<1>1. CASE UNCHANGED vars
  BY <1>1 DEF vars, links
<1>2. ASSUME NEW t \in Threads, ClosePeerConnection(t) PROVE NoneFails'
  <2>1. CASE TestConnected(t)
    BY <2>1 DEF TestConnected, Test
  <2>2. CASE TestConnecting(t)
    BY <2>2 DEF TestConnecting, Test
  <2>3. CASE SetDisconnecting(t)
    BY <2>3 DEF SetDisconnecting
  <2>4. CASE CloseAllMediaTracks(t)
    BY <2>4 DEF CloseAllMediaTracks, Tangled
  <2>5. CASE CloseAllDataChannels(t)
    BY <2>5 DEF CloseAllDataChannels
  <2>6. CASE TestPeer(t)
    BY <2>6 DEF TestPeer
  <2>7. CASE EnterClose(t)
    BY <2>7 DEF EnterClose, Enter
  <2>8. CASE RunClose(t)
    BY <2>8 DEF RunClose, RtcRuns, CloseFromWithin, Tangled, Close
  <2>9. CASE ClearPeer(t)
    BY <2>9 DEF ClearPeer, Assign, Close
  <2>10. CASE ReleasePeer(t)
    BY <2>10 DEF ReleasePeer, RtcRuns
  <2>11. CASE OnConnectionDisconnected(t)
    BY <2>11 DEF OnConnectionDisconnected
  <2> QED
    BY <1>2, <2>1, <2>2, <2>3, <2>4, <2>5, <2>6, <2>7, <2>8, <2>9, <2>10,
       <2>11
    DEF ClosePeerConnection
<1>3. CASE WsNext
  <2>1. CASE HandleSdpOffer
    BY <2>1 DEF HandleSdpOffer, MayStart
  <2>2. CASE TestReady
    BY <2>2 DEF TestReady
  <2>3. CASE AcceptOffer
    BY <2>3 DEF AcceptOffer
  <2>4. CASE CreateObserver
    BY <2>4 DEF CreateObserver
  <2>5. CASE CreateConnection
    BY <2>5 DEF CreateConnection, RtcRuns
  <2>6. CASE AssignConnection
    BY <2>6 DEF AssignConnection, Assign
  <2>7. CASE ReleaseReplaced
    BY <2>7 DEF ReleaseReplaced, Close, RtcRuns
  <2>8. CASE TestCreated
    BY <2>8 DEF TestCreated
  <2>9. CASE FailOffer
    BY <2>9 DEF FailOffer
  <2>10. CASE EnterSetRemoteDescription
    BY <2>10 DEF EnterSetRemoteDescription, Enter
  <2>11. CASE RunSetRemoteDescription
    BY <2>11 DEF RunSetRemoteDescription, RtcRuns
  <2>12. CASE HandleCloseConnection
    BY <2>12 DEF HandleCloseConnection, MayStart
  <2>13. CASE HandleIceCandidateFromSignaling
    BY <2>13 DEF HandleIceCandidateFromSignaling, MayStart
  <2>14. CASE EnterAddIceCandidate
    BY <2>14 DEF EnterAddIceCandidate, Enter
  <2>15. CASE RunAddIceCandidate
    BY <2>15 DEF RunAddIceCandidate, RtcRuns
  <2> QED
    BY <1>3, <2>1, <2>2, <2>3, <2>4, <2>5, <2>6, <2>7, <2>8, <2>9, <2>10,
       <2>11, <2>12, <2>13, <2>14, <2>15
    DEF WsNext
<1>4. CASE RtcNext
  <2>1. ASSUME NEW p \in Peers, DescriptionFails(p) PROVE NoneFails'
    BY <2>1 DEF DescriptionFails, MayStart
  <2>2. ASSUME NEW p \in Peers, AfterSetSessionDescription(p) PROVE NoneFails'
    BY <2>2 DEF AfterSetSessionDescription, MayStart
  <2>3. ASSUME NEW p \in Peers, AfterCreateSdpAnswer(p) PROVE NoneFails'
    BY <2>3 DEF AfterCreateSdpAnswer, MayStart
  <2>4. ASSUME NEW p \in Peers, AfterSetLocalDescription(p) PROVE NoneFails'
    BY <2>4 DEF AfterSetLocalDescription, MayStart
  <2>5. ASSUME NEW p \in Peers, OnConnectionConnected(p) PROVE NoneFails'
    BY <2>5 DEF OnConnectionConnected, MayStart
  <2>6. ASSUME NEW p \in Peers, OnConnectionLost(p) PROVE NoneFails'
    BY <2>6 DEF OnConnectionLost, MayStart
  <2>7. ASSUME NEW p \in Peers, OnDataChannel(p) PROVE NoneFails'
    BY <2>7 DEF OnDataChannel, MayStart
  <2>8. ASSUME NEW p \in Peers, ObserverIsGone(p) PROVE NoneFails'
    BY <2>8 DEF ObserverIsGone, MayStart
  <2>9. CASE CreateAllMediaTracks
    BY <2>9 DEF CreateAllMediaTracks, Tangled
  <2>10. CASE CreateAnswer
    BY <2>10 DEF CreateAnswer
  <2>11. CASE AwaitGil
    BY <2>11 DEF AwaitGil, MayStart, Hung
  <2> QED
    BY <1>4, <2>1, <2>2, <2>3, <2>4, <2>5, <2>6, <2>7, <2>8, <2>9, <2>10,
       <2>11
    DEF RtcNext
<1>5. CASE AppNext
  <2>1. CASE InitializeWebRTC
    BY <2>1 DEF InitializeWebRTC, MayStart
  <2>2. CASE ShuttingDown
    BY <2>2 DEF ShuttingDown, MayStart
  <2>3. CASE StopSignalingServer
    BY <2>3 DEF StopSignalingServer
  <2>4. CASE DestroyPeer
    BY <2>4 DEF DestroyPeer, Assign, Close
  <2>5. CASE DestroyFactory
    BY <2>5 DEF DestroyFactory, RtcRuns
  <2> QED
    BY <1>5, <2>1, <2>2, <2>3, <2>4, <2>5 DEF AppNext
<1>6. CASE Halted
  BY <1>6 DEF Halted, vars, links
<1> QED
  BY ONLY <1>1, <1>2, <1>3, <1>4, <1>5, <1>6, [Next]_vars DEF Next

LEMMA SequentialLifecycleStep ==
    ASSUME Sequential, ~SendMayFail, ~CreateMayFail
    PROVE  SInv /\ QInv /\ NInv /\ NoneFails /\ [Next]_vars
             => [Lifecycle!Next]_(Lifecycle!vars)
<1> SUFFICES ASSUME SInv, QInv, NInv, NoneFails, [Next]_vars
             PROVE  [Lifecycle!Next]_(Lifecycle!vars)
  OBVIOUS
<1> USE ConstantsAssumption DEF ConstantsAssumption, links, session, handlers,
        process, control, Peers, Threads, TypeOK, States, Locations,
        CloseLocations, OfferLocations, CandidateLocations, CallbackLocations,
        ShutdownLocations, Hung, At, Goto, SetState, BeginClose, Leave,
        SetState, Enter, Active, Sequential, OneHandler, ClosesInOrder,
        OffersInOrder, OpenIsPeer, Initialized, SInv, SequentialPlaces,
        CallsPeer, Settled, Unsettled, ShutdownIsLast, TestsAgree,
        OfferEndsOldSession, QInv, NothingLeft, NoFault, NInv, NoneFails,
        assigned, Lifecycle!vars, Lifecycle!Next
<1> DEFINE Implemented == [Lifecycle!Next]_(Lifecycle!vars)
<1>1. CASE UNCHANGED vars
  BY <1>1 DEF vars, links
<1>2. ASSUME NEW t \in Threads, ClosePeerConnection(t) PROVE Implemented
  <2>1. CASE TestConnected(t)
    BY <2>1 DEF TestConnected, Test
  <2>2. CASE TestConnecting(t)
    BY <2>2 DEF TestConnecting, Test
  <2>3. CASE SetDisconnecting(t)
    BY <2>3 DEF SetDisconnecting, Lifecycle!BeginClose
  <2>4. CASE CloseAllMediaTracks(t)
    BY <2>4 DEF CloseAllMediaTracks, Tangled
  <2>5. CASE CloseAllDataChannels(t)
    BY <2>5 DEF CloseAllDataChannels
  <2>6. CASE TestPeer(t)
    BY <2>6 DEF TestPeer
  <2>7. CASE EnterClose(t)
    BY <2>7 DEF EnterClose, Enter
  <2>8. CASE RunClose(t)
    BY <2>8 DEF RunClose, RtcRuns, CloseFromWithin, Tangled, Close
  <2>9. CASE ClearPeer(t)
    BY <2>9 DEF ClearPeer, Assign, Close, Lifecycle!End
  <2>10. CASE ReleasePeer(t)
    BY <2>10 DEF ReleasePeer, RtcRuns
  <2>11. CASE OnConnectionDisconnected(t)
    BY <2>11 DEF OnConnectionDisconnected, Lifecycle!Closed
  <2> QED
    BY <1>2, <2>1, <2>2, <2>3, <2>4, <2>5, <2>6, <2>7, <2>8, <2>9, <2>10,
       <2>11
    DEF ClosePeerConnection
<1>3. CASE WsNext
  <2>1. CASE HandleSdpOffer
    BY <2>1 DEF HandleSdpOffer, MayStart
  <2>2. CASE TestReady
    BY <2>2 DEF TestReady
  <2>3. CASE AcceptOffer
    BY <2>3 DEF AcceptOffer, Lifecycle!Accept
  <2>4. CASE CreateObserver
    BY <2>4 DEF CreateObserver
  <2>5. CASE CreateConnection
    BY <2>5 DEF CreateConnection, RtcRuns
  <2>6. CASE AssignConnection
    BY <2>6 DEF AssignConnection, Assign, Lifecycle!Open
  <2>7. CASE ReleaseReplaced
    BY <2>7 DEF ReleaseReplaced, Close, RtcRuns
  <2>8. CASE TestCreated
    BY <2>8 DEF TestCreated
  <2>9. CASE FailOffer
    BY <2>9 DEF FailOffer
  <2>10. CASE EnterSetRemoteDescription
    BY <2>10 DEF EnterSetRemoteDescription, Enter
  <2>11. CASE RunSetRemoteDescription
    BY <2>11 DEF RunSetRemoteDescription, RtcRuns
  <2>12. CASE HandleCloseConnection
    BY <2>12 DEF HandleCloseConnection, MayStart
  <2>13. CASE HandleIceCandidateFromSignaling
    BY <2>13 DEF HandleIceCandidateFromSignaling, MayStart
  <2>14. CASE EnterAddIceCandidate
    BY <2>14 DEF EnterAddIceCandidate, Enter
  <2>15. CASE RunAddIceCandidate
    BY <2>15 DEF RunAddIceCandidate, RtcRuns
  <2> QED
    BY <1>3, <2>1, <2>2, <2>3, <2>4, <2>5, <2>6, <2>7, <2>8, <2>9, <2>10,
       <2>11, <2>12, <2>13, <2>14, <2>15
    DEF WsNext
<1>4. CASE RtcNext
  <2>1. ASSUME NEW p \in Peers, DescriptionFails(p) PROVE Implemented
    BY <2>1 DEF DescriptionFails, MayStart
  <2>2. ASSUME NEW p \in Peers, AfterSetSessionDescription(p) PROVE Implemented
    BY <2>2 DEF AfterSetSessionDescription, MayStart
  <2>3. ASSUME NEW p \in Peers, AfterCreateSdpAnswer(p) PROVE Implemented
    BY <2>3 DEF AfterCreateSdpAnswer, MayStart
  <2>4. ASSUME NEW p \in Peers, AfterSetLocalDescription(p) PROVE Implemented
    BY <2>4 DEF AfterSetLocalDescription, MayStart
  <2>5. ASSUME NEW p \in Peers, OnConnectionConnected(p) PROVE Implemented
        BY <2>5 DEF OnConnectionConnected, MayStart, Lifecycle!Connect,
       Lifecycle!ReportLate
  <2>6. ASSUME NEW p \in Peers, OnConnectionLost(p) PROVE Implemented
    BY <2>6 DEF OnConnectionLost, MayStart
  <2>7. ASSUME NEW p \in Peers, OnDataChannel(p) PROVE Implemented
    BY <2>7 DEF OnDataChannel, MayStart
  <2>8. ASSUME NEW p \in Peers, ObserverIsGone(p) PROVE Implemented
    BY <2>8 DEF ObserverIsGone, MayStart
  <2>9. CASE CreateAllMediaTracks
    BY <2>9 DEF CreateAllMediaTracks, Tangled
  <2>10. CASE CreateAnswer
    BY <2>10 DEF CreateAnswer
  <2>11. CASE AwaitGil
    BY <2>11 DEF AwaitGil, MayStart, Hung
  <2> QED
    BY <1>4, <2>1, <2>2, <2>3, <2>4, <2>5, <2>6, <2>7, <2>8, <2>9, <2>10,
       <2>11
    DEF RtcNext
<1>5. CASE AppNext
  <2>1. CASE InitializeWebRTC
    BY <2>1 DEF InitializeWebRTC, MayStart, Lifecycle!Start
  <2>2. CASE ShuttingDown
    BY <2>2 DEF ShuttingDown, MayStart, Lifecycle!ShutDown
  <2>3. CASE StopSignalingServer
    BY <2>3 DEF StopSignalingServer
  <2>4. CASE DestroyPeer
    BY <2>4 DEF DestroyPeer, Assign, Close, Lifecycle!Drop
  <2>5. CASE DestroyFactory
    BY <2>5 DEF DestroyFactory, RtcRuns
  <2> QED
    BY <1>5, <2>1, <2>2, <2>3, <2>4, <2>5 DEF AppNext
<1>6. CASE Halted
  BY <1>6 DEF Halted, vars, links
<1> QED
  BY ONLY <1>1, <1>2, <1>3, <1>4, <1>5, <1>6, [Next]_vars DEF Next

LEMMA InitQInv == Init => QInv /\ NInv /\ NoneFails
  BY DEF Init, QInv, SequentialPlaces, CallsPeer, Settled, ShutdownIsLast, TestsAgree,
     OfferEndsOldSession, NoFault, NInv, NoneFails, Threads, CandidateLocations, Active

LEMMA QuietInvariance == ASSUME Sequential, ~SendMayFail PROVE Spec => []QInv
<1>1. SInv /\ QInv /\ [Next]_vars => QInv'
  BY StepQInv
<1>2. Init => QInv
  BY InitQInv
<1> QED
  BY <1>1, <1>2, SequentialInvariance, PTL DEF Spec

LEMMA FaultlessInvariance ==
    ASSUME Sequential, ~SendMayFail, ~HandlersMayThrow PROVE Spec => []NInv
<1>1. SInv /\ QInv /\ NInv /\ [Next]_vars => NInv'
  BY StepNInv
<1>2. Init => NInv
  BY InitQInv
<1> QED
  BY <1>1, <1>2, SequentialInvariance, QuietInvariance, PTL DEF Spec

\* When handlers do not interleave and none throws, and status messages can be
\* sent, nothing crashes the connector, whatever is lost.
THEOREM SequentialNeverFaults ==
    ASSUME Sequential, ~SendMayFail, ~HandlersMayThrow PROVE Spec => []NoFault
<1>1. NInv => NoFault
  BY DEF NInv
<1> QED
  BY <1>1, FaultlessInvariance, PTL

\* Between such handlers the announced state tells whether there is a connection,
\* unless a throwing handler has abandoned the last close.
THEOREM SequentialStateTellsPeer ==
    ASSUME Sequential, ~SendMayFail PROVE Spec => []PeerMatchesState
<1>1. SInv /\ QInv => PeerMatchesState
  BY DEF QInv, PeerMatchesState, Quiet, Settled, Unsettled, ShutdownIsLast,
     TestsAgree, Threads, Active
<1> QED
  BY <1>1, QuietInvariance, SequentialInvariance, PTL

\* A new offer is not refused because of the session before it: OfferEndsOldSession,
\* which messages beside callbacks violate, holds when handlers do not interleave,
\* again unless a throwing handler has abandoned the last close.
THEOREM SequentialOffers ==
    ASSUME Sequential, ~SendMayFail PROVE Spec => []OfferEndsOldSession
<1>1. QInv => OfferEndsOldSession
  BY DEF QInv
<1> QED
  BY <1>1, QuietInvariance, PTL

\* Lost connections and closes reported from within do not break the promise to
\* the signaling server when handlers do not interleave and nothing throws.
THEOREM SequentialImplements ==
    ASSUME Sequential, ~SendMayFail, ~CreateMayFail, ~HandlersMayThrow
    PROVE  Spec => Lifecycle!SafeSpec
<1>1. Init => Lifecycle!Init /\ NoneFails
  BY InitQInv DEF Init, Lifecycle!Init, assigned, Threads
<1>2. SInv /\ QInv /\ NInv /\ NoneFails /\ [Next]_vars => NoneFails'
  BY StepNoneFails
<1>3. SInv /\ QInv /\ NInv /\ NoneFails /\ [Next]_vars
        => [Lifecycle!Next]_(Lifecycle!vars)
  BY SequentialLifecycleStep
<1> QED
  BY <1>1, <1>2, <1>3, SequentialInvariance, QuietInvariance, FaultlessInvariance, PTL
  DEF Spec, Lifecycle!SafeSpec
=============================================================================
