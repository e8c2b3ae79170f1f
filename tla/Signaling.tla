------------------------------ MODULE Signaling ------------------------------
(***************************************************************************)
(* The signaling link: how MosaicConnectorFactory starts it, how the       *)
(* WebSocket client keeps it up, and what SignalingClient does with the    *)
(* messages that arrive.  Statuses are in StatusBroadcast, sessions in     *)
(* PeerConnectionManager; here a session is the connection id it was       *)
(* offered under.                                                          *)
(*                                                                         *)
(* Every dial makes a new cpprest client, numbered in order.  What runs    *)
(* concurrently:                                                           *)
(*   app        MosaicConnectorFactory::Create, later SignalingClient::Stop*)
(*   io         the network thread of a client: one message at a time      *)
(*   opening[c] the continuation of connect(), a task of its own           *)
(*   closing[c] the close handler, a task that cpprest starts once the     *)
(*              client's network thread has ended                          *)
(*   redials    the detached threads that sleep before they dial again     *)
(*   rtc        WebRTC's thread, which sends answers and candidates        *)
(* Tasks and sleeping threads are not timed: any of them may be late.      *)
(***************************************************************************)
EXTENDS Naturals

CONSTANTS
    MaxClients,    \* bound: clients dialed
    MaxIds,        \* bound: connection ids the server prepares
    AuthKnown      \* the configured authentication type is registered

ASSUME SignalingAssumption ==
    /\ MaxClients \in Nat \ {0} /\ MaxIds \in Nat
    /\ AuthKnown \in BOOLEAN

VARIABLES
    app,          \* where Create and Stop are
    authenticator, connector, manager,   \* these pointers are set
    ready,        \* READY_TO_CONNECT has been announced
    client,       \* m_client: the newest client, 0 before the first
    socket,       \* per client
    mConnected,   \* WebSocketClientImpl::m_connected
    isConnected,  \* SignalingClient::is_connected_
    opening, closing, redials,
    stopping,     \* the client whose close() Stop waits for, or 0
    io, from,     \* the message being handled, and the client it came from
    currentId,    \* current_rtc_connection_id_; 0 is the empty string
    session,      \* the id the running session was offered under, or 0
    rtc, tag,     \* the message WebRTC's thread is sending, and its id
    fault,
    \* History of what the properties have to except:
    prepared,     \* ids prepared so far
    early,        \* the message is a session message sent before ready
    late,         \* m_connected was last set for a client already closed
    misread       \* handling a message has thrown since m_onConnected

startup == <<authenticator, connector, manager, ready>>
link == <<client, socket, opening, closing, redials>>
flags == <<mConnected, isConnected>>
ids == <<currentId, prepared, session>>
sending == <<rtc, tag>>
vars == <<app, startup, link, flags, stopping, io, from, ids, sending, fault,
          early, late, misread>>

Clients == 1..MaxClients
Torn == MaxIds + 1     \* a string read while it is being assigned
SessionMessages == {"offer", "candidate", "close"}
Messages == SessionMessages
              \union {"request", "prepare", "other", "misread"}

TypeOK ==
    /\ app \in {"resolve", "start", "connecting", "connector", "manager",
                "webrtc", "running", "stop", "disconnect", "closing", "clear",
                "stopped", "failed"}
    /\ {authenticator, connector, manager, ready} \subseteq BOOLEAN
    /\ client \in 0..MaxClients
    /\ socket \in [Clients -> {"none", "dialing", "open", "closed", "failed"}]
    /\ {mConnected, isConnected} \subseteq BOOLEAN
    /\ opening \in [Clients -> {"none", "flag", "callback", "done"}]
    /\ closing \in [Clients -> {"none", "callback", "done"}]
    /\ redials \subseteq Clients
    /\ stopping \in 0..MaxClients
    /\ io \in Messages \union {"idle", "preparing", "reply"}
    /\ from \in 0..MaxClients
    /\ currentId \in 0..Torn /\ session \in 0..Torn /\ tag \in 0..Torn
    /\ prepared \in 0..MaxIds
    /\ rtc \in {"idle", "send"}
    /\ fault \in {"none", "null", "terminated"}
    /\ {early, late, misread} \subseteq BOOLEAN

Init ==
    /\ app = "resolve"
    /\ authenticator = FALSE /\ connector = FALSE /\ manager = FALSE
    /\ ready = FALSE
    /\ client = 0 /\ socket = [c \in Clients |-> "none"]
    /\ mConnected = FALSE /\ isConnected = FALSE
    /\ opening = [c \in Clients |-> "none"]
    /\ closing = [c \in Clients |-> "none"] /\ redials = {} /\ stopping = 0
    /\ io = "idle" /\ from = 0
    /\ currentId = 0 /\ prepared = 0 /\ session = 0
    /\ rtc = "idle" /\ tag = 0
    /\ fault = "none"
    /\ early = FALSE /\ late = FALSE /\ misread = FALSE

Alive == fault = "none"

-----------------------------------------------------------------------------
(* WebSocketClientImpl: dialing, and the tasks of a client.                *)

\* A new client replaces m_client; its handlers are set before it connects.
ConnectInternal ==
    /\ client < MaxClients
    /\ client' = client + 1
    /\ socket' = [socket EXCEPT ![client + 1] = "dialing"]

SocketOpens(c) ==
    /\ Alive /\ socket[c] = "dialing"
    /\ socket' = [socket EXCEPT ![c] = "open"]
    /\ opening' = [opening EXCEPT ![c] = "flag"]
    /\ UNCHANGED <<app, startup, client, closing, redials, flags, stopping, io,
                   from, ids, sending, fault, early, late, misread>>

\* Mutant: connectInternal has a failed attempt repeated as well.
DialFails_retries(c) ==
    /\ Alive /\ socket[c] = "dialing"
    /\ \E s \in {"closed", "failed"} : socket' = [socket EXCEPT ![c] = s]
    /\ redials' = redials \union {c}
    /\ UNCHANGED <<app, startup, client, opening, closing, flags, stopping, io,
                   from, ids, sending, fault, early, late, misread>>

\* connectInternal logs the exception; the close handler is called as well
\* unless the attempt failed before the client's thread was started.
DialFails(c) ==
    /\ Alive /\ socket[c] = "dialing"
    /\ \E s \in {"closed", "failed"} : socket' = [socket EXCEPT ![c] = s]
    /\ UNCHANGED <<app, startup, client, opening, closing, redials, flags,
                   stopping, io, from, ids, sending, fault, early, late, misread>>

\* The server or the network closes the connection.
SocketCloses(c) ==
    /\ Alive /\ socket[c] = "open"
    /\ socket' = [socket EXCEPT ![c] = "closed"]
    /\ UNCHANGED <<app, startup, client, opening, closing, redials, flags,
                   stopping, io, from, ids, sending, fault, early, late, misread>>

\* The continuation of connect() sets m_connected ...
Connected(c) ==
    /\ Alive /\ opening[c] = "flag"
    /\ mConnected' = TRUE
    /\ late' = (closing[c] # "none")
    /\ opening' = [opening EXCEPT ![c] = "callback"]
    /\ UNCHANGED <<app, startup, client, socket, closing, redials, isConnected,
                   stopping, io, from, ids, sending, fault, early, misread>>

\* Mutant: the callback does not set its flag.
OnConnected_forgets(c) ==
    /\ Alive /\ opening[c] = "callback"
    /\ opening' = [opening EXCEPT ![c] = "done"]
    /\ UNCHANGED <<app, startup, client, socket, closing, redials, flags,
                   stopping, io, from, ids, sending, fault, early, late,
                   misread>>

\* ... and calls m_onConnected.
OnConnected(c) ==
    /\ Alive /\ opening[c] = "callback"
    /\ isConnected' = TRUE /\ misread' = FALSE
    /\ opening' = [opening EXCEPT ![c] = "done"]
    /\ UNCHANGED <<app, startup, client, socket, closing, redials, mConnected,
                   stopping, io, from, ids, sending, fault, early, late>>

\* Mutant: the close handler does not wait for the message handler.
HandleClose_early(c) ==
    /\ Alive /\ socket[c] = "closed" /\ closing[c] = "none"
    /\ mConnected' = FALSE /\ late' = FALSE
    /\ closing' = [closing EXCEPT ![c] = "callback"]
    /\ UNCHANGED <<app, startup, client, socket, opening, redials, isConnected,
                   stopping, io, from, ids, sending, fault, early, misread>>

\* The close handler: cpprest joins the client's network thread first.
HandleClose(c) ==
    /\ Alive /\ socket[c] = "closed" /\ closing[c] = "none"
    /\ io = "idle" \/ from # c
    /\ mConnected' = FALSE /\ late' = FALSE
    /\ closing' = [closing EXCEPT ![c] = "callback"]
    /\ UNCHANGED <<app, startup, client, socket, opening, redials, isConnected,
                   stopping, io, from, ids, sending, fault, early, misread>>

\* onDisconnected, then the thread that dials again, whether the close was the
\* server's or Stop's.
OnDisconnected(c) ==
    /\ Alive /\ closing[c] = "callback"
    /\ isConnected' = FALSE
    /\ redials' = redials \union {c}
    /\ closing' = [closing EXCEPT ![c] = "done"]
    /\ UNCHANGED <<app, startup, client, socket, opening, mConnected, stopping,
                   io, from, ids, sending, fault, early, late, misread>>

\* Five seconds later.
Redial(c) ==
    /\ Alive /\ c \in redials
    /\ ConnectInternal
    /\ redials' = redials \ {c}
    /\ UNCHANGED <<app, startup, opening, closing, flags, stopping, io, from,
                   ids, sending, fault, early, late, misread>>

Link(c) ==
    \/ SocketOpens(c) \/ DialFails(c) \/ SocketCloses(c)
    \/ Connected(c) \/ OnConnected(c)
    \/ HandleClose(c) \/ OnDisconnected(c) \/ Redial(c)

-----------------------------------------------------------------------------
(* The application: MosaicConnectorFactory::Create and Stop.               *)

CreateAuthenticator ==
    /\ Alive /\ app = "resolve"
    /\ authenticator' = AuthKnown
    /\ app' = IF AuthKnown THEN "start" ELSE "failed"
    /\ UNCHANGED <<connector, manager, ready, link, flags, stopping, io, from,
                   ids, sending, fault, early, late, misread>>

Start ==
    /\ Alive /\ app = "start"
    /\ ConnectInternal
    /\ mConnected' = FALSE
    /\ app' = "connecting"
    /\ UNCHANGED <<startup, opening, closing, redials, isConnected, stopping,
                   io, from, ids, sending, fault, early, late, misread>>

\* wait(): the continuation has run, or the attempt has failed.
StartReturns ==
    /\ Alive /\ app = "connecting"
    /\ \/ opening[1] = "done"
       \/ opening[1] = "none" /\ socket[1] \in {"closed", "failed"}
    /\ app' = "connector"
    /\ UNCHANGED <<startup, link, flags, stopping, io, from, ids, sending,
                   fault, early, late, misread>>

SetMosaicConnector ==
    /\ Alive /\ app = "connector"
    /\ connector' = TRUE
    /\ app' = "manager"
    /\ UNCHANGED <<authenticator, manager, ready, link, flags, stopping, io,
                   from, ids, sending, fault, early, late, misread>>

\* Mutant: the connector is announced without its manager.
SetPeerConnectionManager_forgotten ==
    /\ Alive /\ app = "manager"
    /\ app' = "webrtc"
    /\ UNCHANGED <<startup, link, flags, stopping, io, from, ids, sending,
                   fault, early, late, misread>>

SetPeerConnectionManager ==
    /\ Alive /\ app = "manager"
    /\ manager' = TRUE
    /\ app' = "webrtc"
    /\ UNCHANGED <<authenticator, connector, ready, link, flags, stopping, io,
                   from, ids, sending, fault, early, late, misread>>

InitializeWebRTC ==
    /\ Alive /\ app = "webrtc"
    /\ ready' = TRUE
    /\ app' = "running"
    /\ UNCHANGED <<authenticator, connector, manager, link, flags, stopping, io,
                   from, ids, sending, fault, early, late, misread>>

ShuttingDown ==
    /\ Alive /\ app = "running"
    /\ app' = "stop"
    /\ UNCHANGED <<startup, link, flags, stopping, io, from, ids, sending,
                   fault, early, late, misread>>

Stop ==
    /\ Alive /\ app = "stop"
    /\ app' = IF isConnected THEN "disconnect" ELSE "stopped"
    /\ UNCHANGED <<startup, link, flags, stopping, io, from, ids, sending,
                   fault, early, late, misread>>

\* m_client->close(): a client that is not open is only waited for.
CloseClient ==
    /\ mConnected' = FALSE
    /\ stopping' = client
    /\ socket' = IF socket[client] = "open"
                   THEN [socket EXCEPT ![client] = "closed"] ELSE socket
    /\ app' = "closing"

\* Mutant: m_connected is not asked first.
Disconnect_always ==
    /\ Alive /\ app = "disconnect"
    /\ CloseClient
    /\ UNCHANGED <<startup, client, opening, closing, redials, isConnected, io,
                   from, ids, sending, fault, early, late, misread>>

\* The flag is reset and the client closed in one step: five seconds do not
\* pass between the two statements.
Disconnect ==
    /\ Alive /\ app = "disconnect"
    /\ IF mConnected THEN CloseClient
                     ELSE app' = "clear" /\ UNCHANGED <<socket, mConnected, stopping>>
    /\ UNCHANGED <<startup, client, opening, closing, redials, isConnected, io,
                   from, ids, sending, fault, early, late, misread>>

\* close() is complete when the close handler has returned.
Closed ==
    /\ Alive /\ app = "closing" /\ closing[stopping] = "done"
    /\ app' = "clear"
    /\ UNCHANGED <<startup, link, flags, stopping, io, from, ids, sending,
                   fault, early, late, misread>>

ClearConnected ==
    /\ Alive /\ app = "clear"
    /\ isConnected' = FALSE
    /\ app' = "stopped"
    /\ UNCHANGED <<startup, link, mConnected, stopping, io, from, ids, sending,
                   fault, early, late, misread>>

App ==
    \/ CreateAuthenticator \/ Start \/ StartReturns \/ SetMosaicConnector
    \/ SetPeerConnectionManager \/ InitializeWebRTC
    \/ Stop \/ Disconnect \/ Closed \/ ClearConnected

-----------------------------------------------------------------------------
(* Messages, on the network thread of client c.                            *)

\* The handler of a message returns.
Finish == io' = "idle" /\ from' = 0 /\ early' = FALSE

Receive(c) ==
    /\ Alive /\ socket[c] = "open" /\ io = "idle"
    /\ \E m \in Messages :
         /\ m = "prepare" => prepared < MaxIds
         /\ io' = m /\ from' = c
         /\ early' = (m \in SessionMessages /\ ~ready)
    /\ UNCHANGED <<app, startup, link, flags, stopping, ids, sending, fault,
                   late, misread>>

\* Text that is not JSON, a message without a type or of an unknown one, a
\* null or unparsable offer or candidate, and the authorization messages that
\* only log or set authenticated_, which nothing reads.
Ignore ==
    /\ Alive /\ io \in {"other", "offer", "candidate"}
    /\ Finish
    /\ UNCHANGED <<app, startup, link, flags, stopping, ids, sending, fault,
                   late, misread>>

\* Mutant: the link is taken for lost.
OnError_disconnects ==
    /\ isConnected' = FALSE /\ mConnected' = FALSE
    /\ misread' = TRUE
    /\ Finish

\* handleMessage catches the exception; the WebSocket stays open.
OnError ==
    /\ isConnected' = FALSE /\ mConnected' = mConnected
    /\ misread' = TRUE
    /\ Finish

\* A member that has another type than the handler asks for.
Misread ==
    /\ Alive /\ io = "misread"
    /\ OnError
    /\ UNCHANGED <<app, startup, link, stopping, ids, sending, fault,
                   late>>

\* HandlePrepareConnection assigns the string without a lock: a reader on
\* another thread may see anything until the assignment is over.
PrepareConnection ==
    /\ Alive /\ io = "prepare"
    /\ currentId' = Torn
    /\ prepared' = prepared + 1
    /\ io' = "preparing"
    /\ UNCHANGED <<app, startup, link, flags, stopping, from, session, sending,
                   fault, early, late, misread>>

\* Mutant: the id of a running session is kept.
HandlePrepareConnection_keeps ==
    /\ Alive /\ io = "preparing"
    /\ currentId' = IF session # 0 THEN session ELSE prepared
    /\ Finish
    /\ UNCHANGED <<app, startup, link, flags, stopping, prepared, session,
                   sending, fault, late, misread>>

HandlePrepareConnection ==
    /\ Alive /\ io = "preparing"
    /\ currentId' = prepared
    /\ Finish
    /\ UNCHANGED <<app, startup, link, flags, stopping, prepared, session,
                   sending, fault, late, misread>>

\* The three handlers call through mosaic_connector_ and its manager, which
\* takes an offer or refuses it; the server means the id it prepared last.
\* The session before ends with a call that waits for WebRTC's thread.
HandleSessionMessage ==
    /\ Alive /\ io \in SessionMessages
    /\ IF connector /\ manager
         THEN /\ fault' = fault /\ Finish
              /\ \/ /\ io = "offer" /\ prepared # 0 /\ rtc = "idle"
                    /\ session' = prepared
                 \/ /\ io = "close" /\ rtc = "idle"
                    /\ session' = 0
                 \/ io # "close" /\ session' = session
         ELSE fault' = "null" /\ UNCHANGED <<io, from, early, session>>
    /\ UNCHANGED <<app, startup, link, flags, stopping, currentId,
                   prepared, sending, late, misread>>

\* authorize.req and ping.ping are answered through SendWsMessage, which drops
\* the answer when m_connected is not set.
HandleRequest ==
    /\ Alive /\ io = "request"
    /\ IF ~authenticator THEN fault' = "null" /\ UNCHANGED <<io, from, early>>
         ELSE /\ fault' = fault
              /\ IF mConnected THEN io' = "reply" /\ UNCHANGED <<from, early>>
                               ELSE Finish
    /\ UNCHANGED <<app, startup, link, flags, stopping, ids, sending, late, misread>>

\* send() on m_client: on a client that is not open it throws.
Reply ==
    /\ Alive /\ io = "reply"
    /\ \/ /\ socket[client] \in {"open", "closed"}
          /\ Finish
          /\ UNCHANGED <<flags, misread>>
       \/ socket[client] # "open" /\ OnError
    /\ UNCHANGED <<app, startup, link, stopping, ids, sending, fault,
                   late>>

Handle ==
    \/ Ignore \/ Misread \/ PrepareConnection \/ HandlePrepareConnection
    \/ HandleSessionMessage \/ HandleRequest \/ Reply

-----------------------------------------------------------------------------
(* WebRTC's thread: SendSdpAnswer and SendIceCandidate of the session.     *)

BuildMessage ==
    /\ Alive /\ rtc = "idle" /\ session # 0 /\ app # "stopped"
    /\ isConnected /\ currentId # 0
    /\ tag' = currentId
    /\ rtc' = "send"
    /\ UNCHANGED <<app, startup, link, flags, stopping, io, from, ids, fault,
                   early, late, misread>>

\* Nothing on WebRTC's thread catches what send() throws.
SendMessage ==
    /\ Alive /\ rtc = "send"
    /\ rtc' = "idle" /\ tag' = 0
    /\ \/ (mConnected => socket[client] \in {"open", "closed"}) /\ fault' = fault
       \/ mConnected /\ socket[client] # "open" /\ fault' = "terminated"
    /\ UNCHANGED <<app, startup, link, flags, stopping, io, from, ids, early,
                   late, misread>>

-----------------------------------------------------------------------------
\* The process has died, Create or Stop has returned, Stop waits for a client
\* that will never be closed, or the bound is reached.
Rests ==
    /\ \/ ~Alive \/ app \in {"failed", "stopped"} \/ client = MaxClients
       \/ app = "closing" /\ socket[stopping] = "failed"
    /\ UNCHANGED vars

Next ==
    \/ \E c \in Clients : Link(c) \/ Receive(c)
    \/ App \/ ShuttingDown
    \/ Handle
    \/ BuildMessage \/ SendMessage
    \/ Rests

Spec == Init /\ [][Next]_vars

\* Tasks, sleeping threads and handlers go on, a dial comes to an end.  The
\* server owes no message, and the application need not shut down.  A call
\* that waits for WebRTC's thread is queued there, hence the strong fairness.
Fairness ==
    /\ WF_vars(App) /\ SF_vars(Handle) /\ WF_vars(SendMessage)
    /\ \A c \in Clients :
         /\ WF_vars(SocketOpens(c) \/ DialFails(c))
         /\ WF_vars(Connected(c) \/ OnConnected(c))
         /\ WF_vars(HandleClose(c) \/ OnDisconnected(c))
         /\ WF_vars(Redial(c))

FairSpec == Spec /\ Fairness

-----------------------------------------------------------------------------
(* Properties.                                                             *)

\* As long as the server sends no session message before the connector has
\* announced itself, no message handler meets a null pointer.
NoNullPointer == ~early => fault # "null"

\* Client c is dialing or open, or its close handler has still to start the
\* thread that dials again.
Carries(c) ==
    \/ socket[c] \in {"dialing", "open"}
    \/ socket[c] = "closed" /\ closing[c] # "done"

\* Only the newest client has a link, or a thread that will dial it again, and
\* never both; one of the two it has for ever, unless a failed attempt was not
\* reported: there are never two links, and the link is never given up.
OneLink ==
    /\ \A c \in Clients : Carries(c) \/ c \in redials => c = client
    /\ client # 0 =>
         /\ ~(Carries(client) /\ client \in redials)
         /\ Carries(client) \/ client \in redials \/ socket[client] = "failed"

\* Unless the connected flag was set for a client that had closed before,
\* m_connected is set only while the newest client has been opened and its
\* close handler has not run: nothing is sent on a client that is being dialed.
\* While a message is handled m_client is the client it came from: an answer
\* goes to the link that asked.
UsesItsLink ==
    /\ ~late /\ mConnected =>
         socket[client] \in {"open", "closed"} /\ closing[client] = "none"
    /\ io # "idle" => from = client

\* A request of the server is dropped only before the continuation of its
\* link's connect has run, or beside Stop.
DropsOnlyAtTheEdges ==
    io = "request" /\ ~mConnected =>
        opening[from] = "flag" \/ app \in {"closing", "clear", "stopped"}

\* An answer or a candidate that leaves before the next prepare carries the id
\* its session was offered under, and never that of an earlier session.
TagsOwnSession ==
    rtc = "send" /\ session # 0 /\ session = prepared => tag = session

\* Stop returns, unless the connected flag was set for a closed client: then
\* it may wait for a client that is still being dialed.
StopReturns == app = "stop" ~> app = "stopped" \/ ~Alive \/ late

\* A link that stays up ends up known as connected at both levels, unless
\* handling a message threw or the application stops it.
LinkBecomesKnown ==
    <>[](/\ Alive /\ ~misread /\ client # 0 /\ socket[client] = "open"
         /\ app \in {"connecting", "connector", "manager", "webrtc", "running"})
      => <>[](mConnected /\ isConnected)
=============================================================================
