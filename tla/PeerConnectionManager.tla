------------------------ MODULE PeerConnectionManager ------------------------
(***************************************************************************)
(* The session life cycle of a connector: PeerConnectionManager, the       *)
(* observer that WebRTC calls, and the part of MosaicConnector that both   *)
(* call.  Three threads run this code without a common lock:               *)
(*                                                                         *)
(*   "ws"   the WebSocket thread: SDP offers, close requests and ICE       *)
(*          candidates, one message at a time;                             *)
(*   "rtc"  the WebRTC signaling thread: the description observers and     *)
(*          OnConnectionChange, one callback at a time;                    *)
(*   "app"  the thread that creates the connector and shuts it down.       *)
(*                                                                         *)
(* at[t] is the next shared access of thread t.  Each step is one access:  *)
(* one IsState or SetState (each takes the state manager's lock), one read *)
(* or write of peer_connection_, or one call.  A call on a peer connection *)
(* is marshalled by WebRTC to the rtc thread: it waits until that thread   *)
(* is between two callbacks, and runs in place when rtc is the caller.     *)
(***************************************************************************)
EXTENDS Naturals, FiniteSets

CONSTANTS
    MaxPeers,        \* bound: peer connections created in one behaviour
    MayOverlap,      \* pairs of threads whose handlers may interleave
    ReportsLoss,     \* WebRTC reports kFailed, kDisconnected
    ReportsClosed,   \* Close() reports kClosed before it returns
    MayShutDown,     \* the application calls ShuttingDown
    CreateMayFail,   \* CreatePeerConnectionOrError may return an error
    SendMayFail,     \* the status message of SetState may throw
    HandlersMayThrow,\* a handler may throw when it is started or closed
    TracksTangle,    \* media tracks do not bear calls that overlap
    PythonApp        \* handlers or the logger need Python's interpreter lock

Threads == {"ws", "rtc", "app"}

ASSUME ConstantsAssumption ==
    /\ MaxPeers \in Nat \ {0}
    /\ MayOverlap \subseteq SUBSET Threads
    /\ {ReportsLoss, ReportsClosed, MayShutDown, CreateMayFail, SendMayFail,
        HandlersMayThrow, TracksTangle, PythonApp} \subseteq BOOLEAN

VARIABLES
    state,      \* ConnectorStateManager::state_
    peer,       \* peer_connection_: the number of a connection, 0 for nullptr
    observer,   \* the connection peer_connection_observer_ was made for, or 0
    open,       \* connections that exist and are not closed
    made,       \* connections created so far
    phase,      \* per connection: negotiation, then its ICE connection
    media,      \* the media track handlers run
    channel,    \* connection whose data channel the handlers hold, 0 for none
    signaling,  \* signaling_client_ is not nullptr
    factory,    \* peer_connection_factory_ and WebRTC's threads
    at,         \* per thread: the next access
    ret,        \* per thread: where ClosePeerConnection returns to
    held,       \* per thread: the connection it is inside a call of, or 0
    serving,    \* the connection whose AfterSetSessionDescription runs, or 0
    abandoned,  \* the last close of the handlers was left through the catch
    replaced,   \* connections over which another one was assigned
    fault       \* how the process died, "none" while it runs

vars == <<state, peer, observer, open, made, phase, media, channel, signaling,
          factory, at, ret, held, serving, abandoned, replaced, fault>>

links == <<peer, observer, open, made, serving, replaced>>
session == <<links, phase>>
handlers == <<media, channel, abandoned>>
process == <<signaling, factory>>
control == <<ret, held>>

Peers == 1..MaxPeers
States == {"INITIALIZING", "READY_TO_CONNECT", "RTC_CONNECTING",
           "RTC_CONNECTED", "RTC_DISCONNECTING", "RTC_FAILED", "DISCONNECTED"}
Active == {"RTC_CONNECTING", "RTC_CONNECTED"}

\* The description being processed ("remote" is the offer, "answer" is being
\* created, "local" is the answer), then the connection.
Negotiating == {"remote", "answer", "local"}
Phases == {"new", "rejected", "done", "up", "down", "closed"} \union Negotiating

CloseLocations == {"connected?", "connecting?", "disconnecting", "media",
                   "channels", "test", "close", "closing", "clear", "release",
                   "notify"}
OfferLocations == {"ready?", "accept", "create", "factory", "assign", "replace",
                   "created?", "failed", "remote", "inRemote"}
CandidateLocations == {"candidate", "inCandidate"}
CallbackLocations == {"tracks", "answer"}
ShutdownLocations == {"stop", "destroy", "dropFactory"}
\* A thread that waits for ever: to join a frame loop, or for the interpreter lock.
Hung == {"join", "gil"}
Locations == {"idle"} \union CloseLocations \union OfferLocations
               \union CandidateLocations \union CallbackLocations
               \union ShutdownLocations \union Hung

TypeOK ==
    /\ state \in States
    /\ peer \in 0..MaxPeers
    /\ observer \in 0..MaxPeers
    /\ open \subseteq Peers
    /\ made \in 0..MaxPeers
    /\ phase \in [Peers -> Phases]
    /\ media \in BOOLEAN
    /\ channel \in 0..MaxPeers
    /\ signaling \in BOOLEAN
    /\ factory \in {"none", "up", "gone"}
    /\ at \in [Threads -> Locations]
    /\ ret \in [Threads -> {"idle", "ready?", "destroy"}]
    /\ held \in [Threads -> 0..MaxPeers]
    /\ serving \in 0..MaxPeers
    /\ abandoned \in BOOLEAN
    /\ replaced \subseteq Peers
    /\ fault \in {"none", "null", "freed", "terminated"}

Init ==
    /\ state = "INITIALIZING"
    /\ peer = 0 /\ observer = 0 /\ open = {} /\ made = 0
    /\ phase = [p \in Peers |-> "new"]
    /\ media = FALSE /\ channel = 0
    /\ signaling = TRUE /\ factory = "none"
    /\ at = [t \in Threads |-> "idle"]
    /\ ret = [t \in Threads |-> "idle"]
    /\ held = [t \in Threads |-> 0]
    /\ serving = 0 /\ abandoned = FALSE /\ replaced = {}
    /\ fault = "none"

-----------------------------------------------------------------------------
(* Threads, the state manager and the connection pointer.                  *)

At(t, l) == fault = "none" /\ at[t] = l
Goto(t, l) == at' = [at EXCEPT ![t] = l]

\* Thread t is free to start a handler beside the handlers now in progress.
MayStart(t) ==
    /\ At(t, "idle")
    /\ \A u \in Threads \ {t} : at[u] = "idle" \/ {t, u} \in MayOverlap

\* The rtc thread can run a call marshalled by thread t.
RtcRuns(t) == t = "rtc" \/ at["rtc"] = "idle" \/ factory = "gone"

\* SetState assigns under its lock, then sends the status message.  When that
\* throws, a WebSocket message or ShuttingDown is abandoned by its caller; a
\* WebRTC callback has no handler for the exception and the process ends.
SetState(t, s, next) ==
    /\ state' = s
    /\ \/ Goto(t, next) /\ fault' = fault
       \/ /\ SendMayFail
          /\ IF t = "rtc" THEN fault' = "terminated" /\ at' = at
                          ELSE fault' = fault /\ Goto(t, "idle")

\* peer_connection_->Method(...) on thread t: a null dereference, or a call
\* that stays inside the object until the rtc thread has run it.
Enter(t, next) ==
    IF peer = 0
      THEN fault' = "null" /\ UNCHANGED <<at, held>>
      ELSE /\ held' = [held EXCEPT ![t] = peer]
           /\ Goto(t, next)
           /\ fault' = fault

Leave(t) == held' = [held EXCEPT ![t] = 0]

\* Events and descriptions of the connections S end here.
Close(S) ==
    /\ open' = open \ S
    /\ phase' = [p \in Peers |-> IF p \in S THEN "closed" ELSE phase[p]]

\* The assignment of connection p to peer_connection_ destroys the old
\* connection.  If another thread is inside a call on it, that call goes on
\* with freed memory: the process may die of it, or not.
Assign(t, p) ==
    /\ peer' = p
    /\ \/ fault' = fault
       \/ /\ peer # 0 /\ \E u \in Threads \ {t} : held[u] = peer
          /\ fault' = "freed"

-----------------------------------------------------------------------------
(* ClosePeerConnection, run by any of the three threads.                   *)

BeginClose(t, back) ==
    /\ ret' = [ret EXCEPT ![t] = back]
    /\ Goto(t, "connected?")

\* The test whether the state is s: closing begins, or thread t goes on at l.
Test(t, s, l) ==
    /\ Goto(t, IF state = s THEN "disconnecting" ELSE l)
    /\ UNCHANGED <<state, session, handlers, process, control, fault>>

TestConnected(t) == At(t, "connected?") /\ Test(t, "RTC_CONNECTED", "connecting?")

\* Mutant: a close that finds another one under way waits for its end.
TestConnecting_waits(t) ==
    /\ At(t, "connecting?") /\ state # "RTC_DISCONNECTING"
    /\ Test(t, "RTC_CONNECTING", ret[t])

TestConnecting(t) == At(t, "connecting?") /\ Test(t, "RTC_CONNECTING", ret[t])

SetDisconnecting(t) ==
    /\ At(t, "disconnecting")
    /\ SetState(t, "RTC_DISCONNECTING", "media")
    /\ UNCHANGED <<session, handlers, process, control>>

\* A call of the media tracks runs beside this one, or has hung in its join.
Tangled(t) ==
    TracksTangle /\ \E u \in Threads \ {t} : at[u] \in {"media", "tracks", "join"}

\* Mutant: the track sources are left running.
CloseAllMediaTracks_skipped(t) ==
    /\ At(t, "media")
    /\ Goto(t, "channels")
    /\ UNCHANGED <<state, session, handlers, process, control, fault>>

\* When a handler throws, the tracks whose Close was not reached go on running.
CloseAllMediaTracks(t) ==
    /\ At(t, "media")
    /\ \/ media' = FALSE /\ abandoned' = abandoned /\ Goto(t, "channels")
       \/ /\ HandlersMayThrow \/ Tangled(t)
          /\ media' \in BOOLEAN /\ (media' => media)
          /\ abandoned' = TRUE
          /\ Goto(t, "notify")
       \/ Tangled(t) /\ Goto(t, "join") /\ UNCHANGED <<media, abandoned>>
    /\ UNCHANGED <<state, session, channel, process, control, fault>>

\* With this step every handler is closed.
CloseAllDataChannels(t) ==
    /\ At(t, "channels")
    /\ \/ channel' = 0 /\ abandoned' = FALSE /\ Goto(t, "test")
       \/ /\ HandlersMayThrow
          /\ channel' \in {0, channel} /\ abandoned' = TRUE
          /\ Goto(t, "notify")
    /\ UNCHANGED <<state, session, media, process, control, fault>>

\* Mutant: leaves the closing to the destructor.
TestPeer_drops(t) ==
    /\ At(t, "test")
    /\ Goto(t, IF peer = 0 THEN "notify" ELSE "clear")
    /\ UNCHANGED <<state, session, handlers, process, control, fault>>

TestPeer(t) ==
    /\ At(t, "test")
    /\ Goto(t, IF peer = 0 THEN "notify" ELSE "close")
    /\ UNCHANGED <<state, session, handlers, process, control, fault>>

EnterClose(t) ==
    /\ At(t, "close")
    /\ Enter(t, "closing")
    /\ UNCHANGED <<state, session, handlers, process, ret>>

\* The kClosed callback inside Close() finds the state that ClosePeerConnection
\* asks for only if another thread has set it again; this is that second close,
\* on the rtc thread: it ends, or is left through the catch, or hangs, or its
\* status message throws into WebRTC.
CloseFromWithin(t) ==
    \/ /\ state' = "READY_TO_CONNECT" /\ peer' = 0
       /\ Close({held[t], peer})
       /\ media' = FALSE /\ channel' = 0 /\ abandoned' = FALSE
       /\ fault' \in {fault} \union (IF peer = 0 THEN {} ELSE {"freed"})
                              \union (IF SendMayFail THEN {"terminated"} ELSE {})
       /\ Goto(t, "clear")
    \/ /\ HandlersMayThrow \/ Tangled(t)
       /\ state' = "READY_TO_CONNECT" /\ peer' = peer
       /\ Close({held[t]})
       /\ media' \in BOOLEAN /\ (media' => media)
       /\ channel' = channel \/ (~media' /\ channel' = 0)
       /\ abandoned' = TRUE
       /\ fault' = fault /\ Goto(t, "clear")
    \/ /\ Tangled(t)
       /\ state' = "RTC_DISCONNECTING"
       /\ at' = [u \in Threads |-> IF u \in {t, "rtc"} THEN "join" ELSE at[u]]
       /\ UNCHANGED <<peer, open, phase, handlers, fault>>

\* Close() on the rtc thread.
RunClose(t) ==
    /\ At(t, "closing") /\ RtcRuns(t)
    /\ Leave(t)
    /\ IF ReportsClosed /\ held[t] \in open /\ state \in Active
         THEN CloseFromWithin(t)
         ELSE /\ Close({held[t]})
              /\ Goto(t, "clear")
              /\ UNCHANGED <<state, peer, handlers, fault>>
    /\ UNCHANGED <<observer, made, serving, replaced, process, ret>>

\* Mutant: peer_connection_ is not reset.
ClearPeer_forgotten(t) ==
    /\ At(t, "clear")
    /\ Goto(t, "notify")
    /\ UNCHANGED <<state, session, handlers, process, control, fault>>

ClearPeer(t) ==
    /\ At(t, "clear")
    /\ Assign(t, 0)
    /\ Close({peer})
    /\ Goto(t, IF peer = 0 THEN "notify" ELSE "release")
    /\ UNCHANGED <<state, observer, made, serving, replaced, handlers, process,
                   control>>

\* The destructor of the connection is marshalled as well.
ReleasePeer(t) ==
    /\ At(t, "release") /\ RtcRuns(t)
    /\ Goto(t, "notify")
    /\ UNCHANGED <<state, session, handlers, process, control, fault>>

\* Mutant: the end of the session is not announced.
OnConnectionDisconnected_silent(t) ==
    /\ At(t, "notify")
    /\ Goto(t, ret[t])
    /\ UNCHANGED <<state, session, handlers, process, control, fault>>

OnConnectionDisconnected(t) ==
    /\ At(t, "notify")
    /\ SetState(t, "READY_TO_CONNECT", ret[t])
    /\ UNCHANGED <<session, handlers, process, control>>

ClosePeerConnection(t) ==
    \/ TestConnected(t) \/ TestConnecting(t) \/ SetDisconnecting(t)
    \/ CloseAllMediaTracks(t) \/ CloseAllDataChannels(t)
    \/ TestPeer(t) \/ EnterClose(t) \/ RunClose(t) \/ ClearPeer(t)
    \/ ReleasePeer(t) \/ OnConnectionDisconnected(t)

-----------------------------------------------------------------------------
(* The WebSocket thread.                                                   *)

HandleSdpOffer ==
    /\ MayStart("ws") /\ made < MaxPeers
    /\ IF peer # 0 THEN BeginClose("ws", "ready?")
                   ELSE Goto("ws", "ready?") /\ ret' = ret
    /\ UNCHANGED <<state, session, handlers, process, held, fault>>

\* Mutant: the state is not checked.
TestReady_always ==
    /\ At("ws", "ready?")
    /\ Goto("ws", "accept")
    /\ UNCHANGED <<state, session, handlers, process, control, fault>>

\* Mutant: an offer is accepted after a failure too.
TestReady_afterFailure ==
    /\ At("ws", "ready?")
    /\ Goto("ws", IF state \in {"READY_TO_CONNECT", "RTC_FAILED"}
                    THEN "accept" ELSE "idle")
    /\ UNCHANGED <<state, session, handlers, process, control, fault>>

TestReady ==
    /\ At("ws", "ready?")
    /\ Goto("ws", IF state = "READY_TO_CONNECT" THEN "accept" ELSE "idle")
    /\ UNCHANGED <<state, session, handlers, process, control, fault>>

AcceptOffer ==
    /\ At("ws", "accept")
    /\ SetState("ws", "RTC_CONNECTING", "create")
    /\ UNCHANGED <<session, handlers, process, control>>

\* CreatePeerConnection: the new observer takes the place of the old one, which
\* is freed although a connection that is left still has a pointer to it.
CreateObserver ==
    /\ At("ws", "create") /\ made < MaxPeers
    /\ observer' = made + 1
    /\ Goto("ws", "factory")
    /\ UNCHANGED <<state, peer, open, made, serving, replaced, phase, handlers,
                   process, control, fault>>

\* The call of the factory is marshalled; an error leaves peer_connection_ as it was.
CreateConnection ==
    /\ At("ws", "factory") /\ RtcRuns("ws")
    /\ \/ /\ factory # "up"
          /\ fault' = "null" /\ UNCHANGED <<open, made, at>>
       \/ /\ factory = "up" /\ CreateMayFail
          /\ Goto("ws", "created?") /\ UNCHANGED <<open, made, fault>>
       \/ /\ factory = "up" /\ made < MaxPeers
          /\ made' = made + 1
          /\ open' = open \union {made + 1}
          /\ Goto("ws", "assign") /\ fault' = fault
    /\ UNCHANGED <<state, peer, observer, serving, replaced, phase, handlers,
                   process, control>>

\* The rtc thread may have run a callback of the connection that is still there
\* since the factory answered.
AssignConnection ==
    /\ At("ws", "assign")
    /\ Assign("ws", made)
    /\ replaced' = replaced \union ({peer} \ {0})
    /\ Goto("ws", IF peer = 0 THEN "created?" ELSE "replace")
    /\ UNCHANGED <<state, observer, open, made, serving, phase, handlers,
                   process, control>>

\* The destructor of the connection that was replaced closes it.
ReleaseReplaced ==
    /\ At("ws", "replace") /\ RtcRuns("ws")
    /\ Close(replaced)
    /\ Goto("ws", "created?")
    /\ UNCHANGED <<state, peer, observer, made, serving, replaced, handlers,
                   process, control, fault>>

TestCreated ==
    /\ At("ws", "created?")
    /\ Goto("ws", IF peer = 0 THEN "failed" ELSE "remote")
    /\ UNCHANGED <<state, session, handlers, process, control, fault>>

FailOffer ==
    /\ At("ws", "failed")
    /\ SetState("ws", "RTC_FAILED", "idle")
    /\ UNCHANGED <<session, handlers, process, control>>

EnterSetRemoteDescription ==
    /\ At("ws", "remote")
    /\ Enter("ws", "inRemote")
    /\ UNCHANGED <<state, session, handlers, process, ret>>

RunSetRemoteDescription ==
    /\ At("ws", "inRemote") /\ RtcRuns("ws")
    /\ phase' = IF held["ws"] \in open
                  THEN [phase EXCEPT ![held["ws"]] = "remote"] ELSE phase
    /\ Leave("ws") /\ Goto("ws", "idle")
    /\ UNCHANGED <<state, links, handlers, process, ret, fault>>

\* signaling.close_peer_connection
HandleCloseConnection ==
    /\ MayStart("ws")
    /\ BeginClose("ws", "idle")
    /\ UNCHANGED <<state, session, handlers, process, held, fault>>

HandleIceCandidateFromSignaling ==
    /\ MayStart("ws") /\ peer # 0
    /\ Goto("ws", "candidate")
    /\ UNCHANGED <<state, session, handlers, process, control, fault>>

EnterAddIceCandidate ==
    /\ At("ws", "candidate")
    /\ Enter("ws", "inCandidate")
    /\ UNCHANGED <<state, session, handlers, process, ret>>

RunAddIceCandidate ==
    /\ At("ws", "inCandidate") /\ RtcRuns("ws")
    /\ Leave("ws") /\ Goto("ws", "idle")
    /\ UNCHANGED <<state, session, handlers, process, ret, fault>>

WsNext ==
    \/ HandleSdpOffer \/ TestReady \/ AcceptOffer
    \/ CreateObserver \/ CreateConnection \/ AssignConnection \/ ReleaseReplaced
    \/ TestCreated \/ FailOffer
    \/ EnterSetRemoteDescription \/ RunSetRemoteDescription
    \/ HandleCloseConnection
    \/ HandleIceCandidateFromSignaling
    \/ EnterAddIceCandidate \/ RunAddIceCandidate

-----------------------------------------------------------------------------
(* The WebRTC signaling thread: callbacks of an open connection p.         *)

\* A description observer's OnFailure only logs.
DescriptionFails(p) ==
    /\ MayStart("rtc") /\ p \in open /\ phase[p] \in Negotiating
    /\ phase' = [phase EXCEPT ![p] = "rejected"]
    /\ UNCHANGED <<state, links, handlers, process, at, control, fault>>

AfterSetSessionDescription(p) ==
    /\ MayStart("rtc") /\ p \in open /\ phase[p] = "remote"
    /\ serving' = p
    /\ Goto("rtc", "tracks")
    /\ UNCHANGED <<state, peer, observer, open, made, replaced, phase, handlers,
                   process, control, fault>>

\* Starts every track source, then adds its track to peer_connection_.  What a
\* handler throws is thrown into WebRTC.
CreateAllMediaTracks ==
    /\ At("rtc", "tracks")
    /\ media' = TRUE
    /\ \/ IF peer = 0 THEN fault' = "null" /\ at' = at
                      ELSE fault' = fault /\ Goto("rtc", "answer")
       \/ /\ HandlersMayThrow \/ Tangled("rtc")
          /\ fault' = "terminated" /\ at' = at
    /\ UNCHANGED <<state, session, channel, abandoned, process, control>>

\* CreateAnswer is asked of the connection that peer_connection_ is now; one that
\* has no offer refuses it.
CreateAnswer ==
    /\ At("rtc", "answer")
    /\ IF peer = 0
         THEN fault' = "null" /\ UNCHANGED <<at, phase, serving>>
         ELSE /\ phase' = [phase EXCEPT ![serving] =
                              IF peer = serving THEN "answer" ELSE "rejected"]
              /\ serving' = 0
              /\ Goto("rtc", "idle") /\ fault' = fault
    /\ UNCHANGED <<state, peer, observer, open, made, replaced, handlers, process,
                   control>>

AfterCreateSdpAnswer(p) ==
    /\ MayStart("rtc") /\ p \in open /\ phase[p] = "answer"
    /\ IF peer = 0
         THEN fault' = "null" /\ phase' = phase
         ELSE /\ phase' = [phase EXCEPT ![p] =
                              IF peer = p THEN "local" ELSE "rejected"]
              /\ fault' = fault
    /\ UNCHANGED <<state, links, handlers, process, at, control>>

AfterSetLocalDescription(p) ==
    /\ MayStart("rtc") /\ p \in open /\ phase[p] = "local"
    /\ phase' = [phase EXCEPT ![p] = "done"]
    /\ fault' = IF signaling THEN fault ELSE "null"
    /\ UNCHANGED <<state, links, handlers, process, at, control>>

OnConnectionConnected(p) ==
    /\ MayStart("rtc") /\ p \in open /\ phase[p] \in {"done", "down"}
    /\ phase' = [phase EXCEPT ![p] = "up"]
    /\ SetState("rtc", "RTC_CONNECTED", "idle")
    /\ UNCHANGED <<links, handlers, process, control>>

\* kFailed or kDisconnected
OnConnectionLost(p) ==
    /\ ReportsLoss
    /\ MayStart("rtc") /\ p \in open /\ phase[p] \in {"done", "up"}
    /\ phase' = [phase EXCEPT ![p] = "down"]
    /\ BeginClose("rtc", "idle")
    /\ UNCHANGED <<state, links, handlers, process, held, fault>>

\* The handlers ignore a channel while the one they hold is open.
OnDataChannel(p) ==
    /\ MayStart("rtc") /\ p \in open /\ phase[p] = "up"
    /\ channel \notin open
    /\ channel' = p
    /\ UNCHANGED <<state, session, media, abandoned, process, at, control, fault>>

\* The observer of a connection that was left open has been replaced: a callback
\* of the connection, or the one inside its Close(), uses freed memory.
ObserverIsGone(p) ==
    /\ p \in open /\ p # observer /\ fault = "none"
    /\ \/ MayStart("rtc") /\ phase[p] \in {"done", "up", "down"}
       \/ ReportsClosed /\ \E t \in Threads : at[t] = "closing" /\ held[t] = p
    /\ fault' = "freed"
    /\ UNCHANGED <<state, session, handlers, process, at, control>>

\* ShuttingDown is called from Python with the interpreter lock, and waits for the
\* rtc thread before it returns: when that thread needs the lock neither goes on.
AwaitGil ==
    /\ PythonApp /\ at["app"] # "idle" /\ fault = "none"
    /\ \/ at["rtc"] \notin {"idle"} \union Hung
       \/ MayStart("rtc") /\ open # {}
    /\ Goto("rtc", "gil")
    /\ UNCHANGED <<state, session, handlers, process, control, fault>>

RtcNext ==
    \/ \E p \in Peers :
         \/ DescriptionFails(p) \/ AfterSetSessionDescription(p)
         \/ AfterCreateSdpAnswer(p) \/ AfterSetLocalDescription(p)
         \/ OnConnectionConnected(p) \/ OnConnectionLost(p) \/ OnDataChannel(p)
         \/ ObserverIsGone(p)
    \/ CreateAllMediaTracks \/ CreateAnswer
    \/ AwaitGil

-----------------------------------------------------------------------------
(* The application thread.                                                 *)

InitializeWebRTC ==
    /\ MayStart("app") /\ factory = "none"
    /\ factory' = "up"
    /\ SetState("app", "READY_TO_CONNECT", "idle")
    /\ UNCHANGED <<session, handlers, signaling, control>>

\* Mutant: the shutdown is not announced first.
ShuttingDown_silent ==
    /\ MayShutDown
    /\ MayStart("app") /\ factory = "up"
    /\ Goto("app", "stop")
    /\ UNCHANGED <<state, session, handlers, process, control, fault>>

ShuttingDown ==
    /\ MayShutDown
    /\ MayStart("app") /\ factory = "up"
    /\ SetState("app", "DISCONNECTED", "stop")
    /\ UNCHANGED <<session, handlers, process, control>>

StopSignalingServer ==
    /\ At("app", "stop")
    /\ signaling' = FALSE
    /\ BeginClose("app", "destroy")
    /\ UNCHANGED <<state, session, handlers, factory, held, fault>>

\* DestroyPeerConnectionManager
DestroyPeer ==
    /\ At("app", "destroy")
    /\ Assign("app", 0)
    /\ Close({peer})
    /\ Goto("app", "dropFactory")
    /\ UNCHANGED <<state, observer, made, serving, replaced, handlers, process,
                   control>>

DestroyFactory ==
    /\ At("app", "dropFactory") /\ RtcRuns("app")
    /\ factory' = "gone"
    /\ Goto("app", "idle")
    /\ UNCHANGED <<state, session, handlers, signaling, control, fault>>

AppNext ==
    \/ InitializeWebRTC \/ ShuttingDown \/ StopSignalingServer
    \/ DestroyPeer \/ DestroyFactory

-----------------------------------------------------------------------------
\* The process is gone, or a thread waits for ever.
Halted ==
    /\ fault # "none" \/ \E t \in Threads : at[t] \in Hung
    /\ UNCHANGED vars

Next ==
    \/ \E t \in Threads : ClosePeerConnection(t)
    \/ WsNext \/ RtcNext \/ AppNext
    \/ Halted

Spec == Init /\ [][Next]_vars

-----------------------------------------------------------------------------
(* Fairness.  A thread that is in a handler goes on with it.  A marshalled  *)
(* call is queued at the rtc thread, which takes its queue in order, so it  *)
(* runs once that thread is between callbacks again and again: strong       *)
(* fairness.  No event has to occur: starting a handler is never fair.      *)

Marshalled(t) ==
    \/ RunClose(t) \/ ReleasePeer(t)
    \/ /\ t = "ws"
       /\ \/ CreateConnection \/ ReleaseReplaced
          \/ RunSetRemoteDescription \/ RunAddIceCandidate
    \/ t = "app" /\ DestroyFactory

Continues(t) ==
    /\ at[t] # "idle"
    /\ \/ ClosePeerConnection(t)
       \/ t = "ws" /\ WsNext
       \/ t = "rtc" /\ RtcNext
       \/ t = "app" /\ AppNext

Fairness ==
    /\ \A t \in Threads : WF_vars(Continues(t))
    /\ \A t \in {"ws", "app"} : SF_vars(Marshalled(t))

FairSpec == Spec /\ Fairness

-----------------------------------------------------------------------------
(* Properties.                                                             *)

Quiet == fault = "none" /\ \A t \in Threads : at[t] = "idle"

\* No handler dereferences a null peer_connection_ or signaling_client_,
\* destroys a connection under a running call, or throws into WebRTC.
NoFault == fault = "none"

\* Between handlers a connection exists exactly when the announced state says
\* that one is connecting or connected, unless a throwing handler has abandoned
\* the last close.
PeerMatchesState ==
    Quiet => abandoned \/ (peer # 0 <=> state \in Active)

\* CreatePeerConnection never overwrites a live connection, unless a throwing
\* handler has abandoned the last close.
ReplacesNothing == at["ws"] = "assign" => abandoned \/ peer = 0

\* From SetRemoteDescription's callback to CreateAnswer, peer_connection_ stays
\* the connection whose offer was set, until shutdown destroys it: no answer is
\* asked of another one, unless that connection was overwritten while it lived.
AnswersOwnOffer ==
    at["rtc"] \in CallbackLocations /\ signaling =>
        \/ peer = serving /\ phase[peer] = "remote"
        \/ peer # 0 /\ serving \in replaced

\* Between handlers of a ready connector no track source runs and no handler
\* holds a data channel, unless a throwing handler has abandoned the last close.
NothingRunsWhenReady ==
    Quiet /\ state = "READY_TO_CONNECT" => abandoned \/ (~media /\ channel = 0)

\* When an offer reaches the READY_TO_CONNECT check, the session that was there
\* when it arrived is gone: the new offer is not refused because of it.
OfferEndsOldSession ==
    at["ws"] = "ready?" => abandoned \/ (peer = 0 /\ state \notin Active)

\* Between handlers an initialized connector is in a state that the next offer,
\* or the close it performs first, leads out of, unless a connection was created
\* over a live one: no state refuses offers for ever.
TakesOffersAgain ==
    Quiet /\ factory = "up" /\ replaced = {} =>
        state \in Active \union {"READY_TO_CONNECT"}

\* Until shutdown has taken the signaling client away, a null dereference
\* happens in a call that a WebSocket message makes, never in a WebRTC callback.
CallbacksNeverDereferenceNull ==
    fault = "null" /\ signaling => at["ws"] \in {"close", "remote", "candidate"}

\* RTC_FAILED has no peer connection left to close and is left by shutdown
\* only: neither an offer nor a close request brings the connector back.
FailedIsFinal ==
    [][state = "RTC_FAILED" =>
         /\ peer' = 0
         /\ state' \in {"RTC_FAILED", "DISCONNECTED"}]_vars

\* Every handler that starts returns, unless the process dies, a close of tracks
\* that overlaps another call of them waits for a frame loop, or the shutdown of
\* a Python application crosses a callback: no thread waits for the rtc thread,
\* or for another close, in a circle.
HandlersReturn ==
    \A t \in Threads : at[t] # "idle" ~>
        \/ at[t] = "idle" \/ fault # "none"
        \/ \E u \in Threads : at[u] \in Hung

\* The announced state and peer_connection_ implement the promise to the
\* signaling server.
assigned == IF at["ws"] = "assign" THEN made - 1 ELSE made

Lifecycle == INSTANCE SessionLifecycle
    WITH status <- state, session <- peer, opened <- assigned,
         MaxSessions <- MaxPeers

ImplementsLifecycle == Lifecycle!Spec
=============================================================================
