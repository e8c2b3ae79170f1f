---------------------------- MODULE SignalingProofs ----------------------------
(***************************************************************************)
(* The safety properties of Signaling, proved for any number of clients    *)
(* and connection ids.  The clients form a history: below the newest one   *)
(* every client is closed with its close handler done, or was never        *)
(* reported; the newest one has a link, a thread that dials it again, or   *)
(* was never reported.  Everything else follows that order.                *)
(***************************************************************************)
EXTENDS Signaling, TLAPS

Has(c) == socket[c] \in {"open", "closed"} /\ closing[c] = "none"

\* Only the newest client can be anything but finished, and its close handler
\* leaves exactly one thread that dials again.
Clientele ==
    /\ \A c \in Clients :
         /\ socket[c] = "none" <=> c > client
         /\ c < client =>
              socket[c] = "failed" \/ (socket[c] = "closed" /\ closing[c] = "done")
         /\ closing[c] # "none" => socket[c] = "closed"
         /\ opening[c] # "none" => socket[c] \in {"open", "closed"}
         /\ socket[c] = "open" => opening[c] # "none"
         /\ c \in redials => c = client /\ closing[c] = "done"
    /\ client # 0 /\ closing[client] = "done" => client \in redials

\* What Create has put in place, by where it is.
Assembly ==
    /\ client = 0 <=> app \in {"resolve", "start", "failed"}
    /\ client # 0 \/ app = "start" => authenticator
    /\ app = "manager" => connector
    /\ app = "webrtc" \/ ready => connector /\ manager

\* The flag belongs to the newest client; once its continuation has run, the
\* flag is set until the close handler or Stop resets it.
Flag ==
    /\ ~late /\ mConnected => client # 0 /\ Has(client)
    /\ client # 0 /\ closing[client] = "none"
         /\ opening[client] \in {"callback", "done"} =>
           mConnected \/ app \in {"closing", "clear", "stopped"}

\* A message is handled for the newest client, before its close handler runs.
Message ==
    /\ io # "idle" => /\ client # 0 /\ from = client /\ Has(client)
                      /\ opening[client] # "none"
    /\ io \in SessionMessages => early \/ ready
    /\ io = "prepare" => prepared < MaxIds

\* The id is the one prepared last, except while it is being assigned, and
\* then no session was offered under it.
Naming ==
    /\ session <= prepared
    /\ io = "preparing" => session < prepared
    /\ io # "preparing" => currentId = prepared

IInv ==
    /\ TypeOK /\ Clientele /\ Assembly /\ Flag /\ Message /\ Naming
    /\ NoNullPointer /\ TagsOwnSession

--------------------------------------------------------------------------------

\* Every handler returns in the same way.
LEMMA FinishTyped ==
  ASSUME Finish
  PROVE  /\ io' \in Messages \union {"idle", "preparing", "reply"}
         /\ from' \in 0..MaxClients /\ early' \in BOOLEAN
<1>1. io' \in Messages \union {"idle", "preparing", "reply"}
  BY DEF Finish
<1>2. from' \in 0..MaxClients
  BY SignalingAssumption DEF Finish
<1>3. early' \in BOOLEAN
  BY DEF Finish
<1> QED
  BY <1>1, <1>2, <1>3

(* The steps of a client: dialing, its two tasks, and the message it brings.  *)

LEMMA SocketOpensKeeps ==
  ASSUME IInv, NEW c \in Clients, SocketOpens(c)
  PROVE  IInv'
  BY SignalingAssumption DEF SocketOpens, IInv, TypeOK, Clientele, Assembly,
     Flag, Message, Naming, NoNullPointer, TagsOwnSession, Has, Alive, Clients,
     Torn, Messages, SessionMessages, startup, link, flags, ids, sending

LEMMA DialFailsKeeps ==
  ASSUME IInv, NEW c \in Clients, DialFails(c)
  PROVE  IInv'
  BY SignalingAssumption DEF DialFails, IInv, TypeOK, Clientele, Assembly,
     Flag, Message, Naming, NoNullPointer, TagsOwnSession, Has, Alive, Clients,
     Torn, Messages, SessionMessages, startup, link, flags, ids, sending

LEMMA SocketClosesKeeps ==
  ASSUME IInv, NEW c \in Clients, SocketCloses(c)
  PROVE  IInv'
  BY SignalingAssumption DEF SocketCloses, IInv, TypeOK, Clientele, Assembly,
     Flag, Message, Naming, NoNullPointer, TagsOwnSession, Has, Alive, Clients,
     Torn, Messages, SessionMessages, startup, link, flags, ids, sending

LEMMA ConnectedKeeps ==
  ASSUME IInv, NEW c \in Clients, Connected(c)
  PROVE  IInv'
  BY SignalingAssumption DEF Connected, IInv, TypeOK, Clientele, Assembly,
     Flag, Message, Naming, NoNullPointer, TagsOwnSession, Has, Alive, Clients,
     Torn, Messages, SessionMessages, startup, link, flags, ids, sending

LEMMA OnConnectedKeeps ==
  ASSUME IInv, NEW c \in Clients, OnConnected(c)
  PROVE  IInv'
<1>1. TypeOK'
  BY SignalingAssumption DEF IInv, OnConnected, Alive, TypeOK, Torn, Messages,
     SessionMessages, Clients, startup, link, flags, ids, sending
<1>2. Clientele'
  BY SignalingAssumption DEF IInv, OnConnected, Alive, TypeOK, Clientele,
     Clients, startup, link, flags, ids, sending
<1>3. Assembly'
  BY SignalingAssumption DEF IInv, OnConnected, Alive, TypeOK, Assembly,
     Clients, startup, link, flags, ids, sending
<1>4. Flag'
  BY SignalingAssumption DEF IInv, OnConnected, Alive, TypeOK, Flag, Clientele,
     Has, Clients, Assembly, startup, link, flags, ids, sending
<1>5. Message'
  BY SignalingAssumption DEF IInv, OnConnected, Alive, TypeOK, Message, Has,
     SessionMessages, Flag, Clientele, Messages, Clients, Assembly, startup,
     link, flags, ids, sending
<1>6. Naming'
  BY SignalingAssumption DEF IInv, OnConnected, Alive, TypeOK, Naming, startup,
     link, flags, ids, sending
<1>7. NoNullPointer'
  BY SignalingAssumption DEF IInv, OnConnected, Alive, TypeOK, NoNullPointer,
     Message, SessionMessages, Assembly, startup, link, flags, ids, sending
<1>8. TagsOwnSession'
  BY SignalingAssumption DEF IInv, OnConnected, Alive, TypeOK, TagsOwnSession,
     Naming, Torn, startup, link, flags, ids, sending
<1> QED
  BY <1>1, <1>2, <1>3, <1>4, <1>5, <1>6, <1>7, <1>8 DEF IInv

LEMMA HandleCloseKeeps ==
  ASSUME IInv, NEW c \in Clients, HandleClose(c)
  PROVE  IInv'
<1>1. TypeOK'
  BY SignalingAssumption DEF IInv, HandleClose, Alive, TypeOK, Torn, Messages,
     SessionMessages, Clients, startup, link, flags, ids, sending
<1>2. Clientele'
  BY SignalingAssumption DEF IInv, HandleClose, Alive, TypeOK, Clientele,
     Clients, startup, link, flags, ids, sending
<1>3. Assembly'
  BY SignalingAssumption DEF IInv, HandleClose, Alive, TypeOK, Assembly,
     Clients, startup, link, flags, ids, sending
<1>4. Flag'
  BY SignalingAssumption DEF IInv, HandleClose, Alive, TypeOK, Flag, Clientele,
     Has, Clients, Assembly, startup, link, flags, ids, sending
<1>5. Message'
  BY SignalingAssumption DEF IInv, HandleClose, Alive, TypeOK, Message, Has,
     SessionMessages, Flag, Clientele, Messages, Clients, Assembly, startup,
     link, flags, ids, sending
<1>6. Naming'
  BY SignalingAssumption DEF IInv, HandleClose, Alive, TypeOK, Naming, startup,
     link, flags, ids, sending
<1>7. NoNullPointer'
  BY SignalingAssumption DEF IInv, HandleClose, Alive, TypeOK, NoNullPointer,
     Message, SessionMessages, Assembly, startup, link, flags, ids, sending
<1>8. TagsOwnSession'
  BY SignalingAssumption DEF IInv, HandleClose, Alive, TypeOK, TagsOwnSession,
     Naming, Torn, startup, link, flags, ids, sending
<1> QED
  BY <1>1, <1>2, <1>3, <1>4, <1>5, <1>6, <1>7, <1>8 DEF IInv

LEMMA OnDisconnectedKeeps ==
  ASSUME IInv, NEW c \in Clients, OnDisconnected(c)
  PROVE  IInv'
<1>1. TypeOK'
  BY SignalingAssumption DEF IInv, OnDisconnected, Alive, TypeOK, Torn,
     Messages, SessionMessages, Clients, startup, link, flags, ids, sending
<1>2. Clientele'
  BY SignalingAssumption DEF IInv, OnDisconnected, Alive, TypeOK, Clientele,
     Clients, startup, link, flags, ids, sending
<1>3. Assembly'
  BY SignalingAssumption DEF IInv, OnDisconnected, Alive, TypeOK, Assembly,
     Clients, startup, link, flags, ids, sending
<1>4. Flag'
  BY SignalingAssumption DEF IInv, OnDisconnected, Alive, TypeOK, Flag,
     Clientele, Has, Clients, Assembly, startup, link, flags, ids, sending
<1>5. Message'
  BY SignalingAssumption DEF IInv, OnDisconnected, Alive, TypeOK, Message, Has,
     SessionMessages, Flag, Clientele, Messages, Clients, Assembly, startup,
     link, flags, ids, sending
<1>6. Naming'
  BY SignalingAssumption DEF IInv, OnDisconnected, Alive, TypeOK, Naming,
     startup, link, flags, ids, sending
<1>7. NoNullPointer'
  BY SignalingAssumption DEF IInv, OnDisconnected, Alive, TypeOK,
     NoNullPointer, Message, SessionMessages, Assembly, startup, link, flags,
     ids, sending
<1>8. TagsOwnSession'
  BY SignalingAssumption DEF IInv, OnDisconnected, Alive, TypeOK,
     TagsOwnSession, Naming, Torn, startup, link, flags, ids, sending
<1> QED
  BY <1>1, <1>2, <1>3, <1>4, <1>5, <1>6, <1>7, <1>8 DEF IInv

LEMMA RedialKeeps == ASSUME IInv, NEW c \in Clients, Redial(c) PROVE IInv'
  BY SignalingAssumption DEF Redial, ConnectInternal, IInv, TypeOK, Clientele,
     Assembly, Flag, Message, Naming, NoNullPointer, TagsOwnSession, Has,
     Alive, Clients, Torn, Messages, SessionMessages, startup, link, flags,
     ids, sending

LEMMA ReceiveKeeps == ASSUME IInv, NEW c \in Clients, Receive(c) PROVE IInv'
  BY SignalingAssumption DEF Receive, Finish, IInv, TypeOK, Clientele,
     Assembly, Flag, Message, Naming, NoNullPointer, TagsOwnSession, Has,
     Alive, Clients, Torn, Messages, SessionMessages, startup, link, flags,
     ids, sending

(* Create and Stop. *)

LEMMA CreateAuthenticatorKeeps == ASSUME IInv, CreateAuthenticator PROVE IInv'
  BY SignalingAssumption DEF CreateAuthenticator, IInv, TypeOK, Clientele,
     Assembly, Flag, Message, Naming, NoNullPointer, TagsOwnSession, Has,
     Alive, Clients, Torn, Messages, SessionMessages, startup, link, flags,
     ids, sending

LEMMA StartKeeps == ASSUME IInv, Start PROVE IInv'
<1>1. TypeOK'
  <2>1. /\ client' \in 0..MaxClients
        /\ socket' \in [Clients -> {"none", "dialing", "open", "closed", "failed"}]
    BY SignalingAssumption DEF IInv, TypeOK, Start, ConnectInternal, Clients
  <2>2. {mConnected, isConnected}' \subseteq BOOLEAN
    BY DEF IInv, TypeOK, Start
  <2> QED
    BY <2>1, <2>2 DEF IInv, TypeOK, Start, startup, ids, sending, Torn
<1>2. Clientele'
  BY SignalingAssumption DEF IInv, Start, ConnectInternal, Alive, TypeOK,
     Clientele, Clients, Assembly, startup, link, flags, ids, sending
<1>3. Assembly'
  BY SignalingAssumption DEF IInv, Start, ConnectInternal, Alive, TypeOK,
     Assembly, Clients, startup, link, flags, ids, sending
<1>4. Flag'
  BY SignalingAssumption DEF IInv, Start, ConnectInternal, Alive, TypeOK, Flag,
     Clientele, Has, Clients, Assembly, startup, link, flags, ids, sending
<1>5. Message'
  BY SignalingAssumption DEF IInv, Start, ConnectInternal, Alive, TypeOK,
     Message, Has, SessionMessages, Flag, Clientele, Messages, Clients,
     Assembly, startup, link, flags, ids, sending
<1>6. Naming'
  BY SignalingAssumption DEF IInv, Start, ConnectInternal, Alive, TypeOK,
     Naming, startup, link, flags, ids, sending
<1>7. NoNullPointer'
  BY SignalingAssumption DEF IInv, Start, ConnectInternal, Alive, TypeOK,
     NoNullPointer, Message, SessionMessages, Assembly, startup, link, flags,
     ids, sending
<1>8. TagsOwnSession'
  BY SignalingAssumption DEF IInv, Start, ConnectInternal, Alive, TypeOK,
     TagsOwnSession, Naming, Torn, startup, link, flags, ids, sending
<1> QED
  BY <1>1, <1>2, <1>3, <1>4, <1>5, <1>6, <1>7, <1>8 DEF IInv

LEMMA StartReturnsKeeps == ASSUME IInv, StartReturns PROVE IInv'
  BY SignalingAssumption DEF StartReturns, IInv, TypeOK, Clientele, Assembly,
     Flag, Message, Naming, NoNullPointer, TagsOwnSession, Has, Alive, Clients,
     Torn, Messages, SessionMessages, startup, link, flags, ids, sending

LEMMA SetMosaicConnectorKeeps == ASSUME IInv, SetMosaicConnector PROVE IInv'
  BY SignalingAssumption DEF SetMosaicConnector, IInv, TypeOK, Clientele,
     Assembly, Flag, Message, Naming, NoNullPointer, TagsOwnSession, Has,
     Alive, Clients, Torn, Messages, SessionMessages, startup, link, flags,
     ids, sending

LEMMA SetPeerConnectionManagerKeeps ==
  ASSUME IInv, SetPeerConnectionManager
  PROVE  IInv'
  BY SignalingAssumption DEF SetPeerConnectionManager, IInv, TypeOK, Clientele,
     Assembly, Flag, Message, Naming, NoNullPointer, TagsOwnSession, Has,
     Alive, Clients, Torn, Messages, SessionMessages, startup, link, flags,
     ids, sending

LEMMA InitializeWebRTCKeeps == ASSUME IInv, InitializeWebRTC PROVE IInv'
  BY SignalingAssumption DEF InitializeWebRTC, IInv, TypeOK, Clientele,
     Assembly, Flag, Message, Naming, NoNullPointer, TagsOwnSession, Has,
     Alive, Clients, Torn, Messages, SessionMessages, startup, link, flags,
     ids, sending

LEMMA ShuttingDownKeeps == ASSUME IInv, ShuttingDown PROVE IInv'
  BY SignalingAssumption DEF ShuttingDown, IInv, TypeOK, Clientele, Assembly,
     Flag, Message, Naming, NoNullPointer, TagsOwnSession, Has, Alive, Clients,
     Torn, Messages, SessionMessages, startup, link, flags, ids, sending

LEMMA StopKeeps == ASSUME IInv, Stop PROVE IInv'
  BY SignalingAssumption DEF Stop, IInv, TypeOK, Clientele, Assembly, Flag,
     Message, Naming, NoNullPointer, TagsOwnSession, Has, Alive, Clients, Torn,
     Messages, SessionMessages, startup, link, flags, ids, sending

LEMMA DisconnectKeeps == ASSUME IInv, Disconnect PROVE IInv'
<1>1. TypeOK'
  BY SignalingAssumption DEF IInv, Disconnect, CloseClient, Alive, TypeOK,
     Torn, Messages, SessionMessages, Clients, startup, link, flags, ids,
     sending
<1>2. Clientele'
  BY SignalingAssumption DEF IInv, Disconnect, CloseClient, Alive, TypeOK,
     Clientele, Clients, startup, link, flags, ids, sending
<1>3. Assembly'
  BY SignalingAssumption DEF IInv, Disconnect, CloseClient, Alive, TypeOK,
     Assembly, Clients, startup, link, flags, ids, sending
<1>4. Flag'
  BY SignalingAssumption DEF IInv, Disconnect, CloseClient, Alive, TypeOK,
     Flag, Clientele, Has, Clients, Assembly, startup, link, flags, ids,
     sending
<1>5. Message'
  BY SignalingAssumption DEF IInv, Disconnect, CloseClient, Alive, TypeOK,
     Message, Has, SessionMessages, Flag, Clientele, Messages, Clients,
     Assembly, startup, link, flags, ids, sending
<1>6. Naming'
  BY SignalingAssumption DEF IInv, Disconnect, CloseClient, Alive, TypeOK,
     Naming, startup, link, flags, ids, sending
<1>7. NoNullPointer'
  BY SignalingAssumption DEF IInv, Disconnect, CloseClient, Alive, TypeOK,
     NoNullPointer, Message, SessionMessages, Assembly, startup, link, flags,
     ids, sending
<1>8. TagsOwnSession'
  BY SignalingAssumption DEF IInv, Disconnect, CloseClient, Alive, TypeOK,
     TagsOwnSession, Naming, Torn, startup, link, flags, ids, sending
<1> QED
  BY <1>1, <1>2, <1>3, <1>4, <1>5, <1>6, <1>7, <1>8 DEF IInv

LEMMA ClosedKeeps == ASSUME IInv, Closed PROVE IInv'
  BY SignalingAssumption DEF Closed, IInv, TypeOK, Clientele, Assembly, Flag,
     Message, Naming, NoNullPointer, TagsOwnSession, Has, Alive, Clients, Torn,
     Messages, SessionMessages, startup, link, flags, ids, sending

LEMMA ClearConnectedKeeps == ASSUME IInv, ClearConnected PROVE IInv'
<1>1. TypeOK'
  BY SignalingAssumption DEF IInv, ClearConnected, Alive, TypeOK, Torn,
     Messages, SessionMessages, Clients, startup, link, flags, ids, sending
<1>2. Clientele'
  BY SignalingAssumption DEF IInv, ClearConnected, Alive, TypeOK, Clientele,
     Clients, startup, link, flags, ids, sending
<1>3. Assembly'
  BY SignalingAssumption DEF IInv, ClearConnected, Alive, TypeOK, Assembly,
     Clients, startup, link, flags, ids, sending
<1>4. Flag'
  BY SignalingAssumption DEF IInv, ClearConnected, Alive, TypeOK, Flag,
     Clientele, Has, Clients, Assembly, startup, link, flags, ids, sending
<1>5. Message'
  BY SignalingAssumption DEF IInv, ClearConnected, Alive, TypeOK, Message, Has,
     SessionMessages, Flag, Clientele, Messages, Clients, Assembly, startup,
     link, flags, ids, sending
<1>6. Naming'
  BY SignalingAssumption DEF IInv, ClearConnected, Alive, TypeOK, Naming,
     startup, link, flags, ids, sending
<1>7. NoNullPointer'
  BY SignalingAssumption DEF IInv, ClearConnected, Alive, TypeOK,
     NoNullPointer, Message, SessionMessages, Assembly, startup, link, flags,
     ids, sending
<1>8. TagsOwnSession'
  BY SignalingAssumption DEF IInv, ClearConnected, Alive, TypeOK,
     TagsOwnSession, Naming, Torn, startup, link, flags, ids, sending
<1> QED
  BY <1>1, <1>2, <1>3, <1>4, <1>5, <1>6, <1>7, <1>8 DEF IInv

(* The message handlers. *)

LEMMA IgnoreKeeps == ASSUME IInv, Ignore PROVE IInv'
<1>1. TypeOK'
  BY FinishTyped, SignalingAssumption DEF IInv, Ignore, Alive, TypeOK, Torn,
     startup, link, flags, ids, sending
<1>2. Clientele'
  BY SignalingAssumption DEF IInv, Ignore, Finish, Alive, TypeOK, Clientele,
     Clients, startup, link, flags, ids, sending
<1>3. Assembly'
  BY SignalingAssumption DEF IInv, Ignore, Finish, Alive, TypeOK, Assembly,
     Clients, startup, link, flags, ids, sending
<1>4. Flag'
  BY SignalingAssumption DEF IInv, Ignore, Finish, Alive, TypeOK, Flag,
     Clientele, Has, Clients, Assembly, startup, link, flags, ids, sending
<1>5. Message'
  BY SignalingAssumption DEF IInv, Ignore, Finish, Alive, TypeOK, Message, Has,
     SessionMessages, Flag, Clientele, Messages, Clients, Assembly, startup,
     link, flags, ids, sending
<1>6. Naming'
  BY SignalingAssumption DEF IInv, Ignore, Finish, Alive, TypeOK, Naming,
     startup, link, flags, ids, sending
<1>7. NoNullPointer'
  BY SignalingAssumption DEF IInv, Ignore, Finish, Alive, TypeOK,
     NoNullPointer, Message, SessionMessages, Assembly, startup, link, flags,
     ids, sending
<1>8. TagsOwnSession'
  BY SignalingAssumption DEF IInv, Ignore, Finish, Alive, TypeOK,
     TagsOwnSession, Naming, Torn, startup, link, flags, ids, sending
<1> QED
  BY <1>1, <1>2, <1>3, <1>4, <1>5, <1>6, <1>7, <1>8 DEF IInv

LEMMA MisreadKeeps == ASSUME IInv, Misread PROVE IInv'
<1>1. TypeOK'
  BY FinishTyped, SignalingAssumption DEF IInv, Misread, OnError, Alive,
     TypeOK, Torn, startup, link, flags, ids, sending
<1>2. Clientele'
  BY SignalingAssumption DEF IInv, Misread, OnError, Finish, Alive, TypeOK,
     Clientele, Clients, startup, link, flags, ids, sending
<1>3. Assembly'
  BY SignalingAssumption DEF IInv, Misread, OnError, Finish, Alive, TypeOK,
     Assembly, Clients, startup, link, flags, ids, sending
<1>4. Flag'
  BY SignalingAssumption DEF IInv, Misread, OnError, Finish, Alive, TypeOK,
     Flag, Clientele, Has, Clients, Assembly, startup, link, flags, ids,
     sending
<1>5. Message'
  BY SignalingAssumption DEF IInv, Misread, OnError, Finish, Alive, TypeOK,
     Message, Has, SessionMessages, Flag, Clientele, Messages, Clients,
     Assembly, startup, link, flags, ids, sending
<1>6. Naming'
  BY SignalingAssumption DEF IInv, Misread, OnError, Finish, Alive, TypeOK,
     Naming, startup, link, flags, ids, sending
<1>7. NoNullPointer'
  BY SignalingAssumption DEF IInv, Misread, OnError, Finish, Alive, TypeOK,
     NoNullPointer, Message, SessionMessages, Assembly, startup, link, flags,
     ids, sending
<1>8. TagsOwnSession'
  BY SignalingAssumption DEF IInv, Misread, OnError, Finish, Alive, TypeOK,
     TagsOwnSession, Naming, Torn, startup, link, flags, ids, sending
<1> QED
  BY <1>1, <1>2, <1>3, <1>4, <1>5, <1>6, <1>7, <1>8 DEF IInv

LEMMA PrepareConnectionKeeps == ASSUME IInv, PrepareConnection PROVE IInv'
  BY SignalingAssumption DEF PrepareConnection, IInv, TypeOK, Clientele,
     Assembly, Flag, Message, Naming, NoNullPointer, TagsOwnSession, Has,
     Alive, Clients, Torn, Messages, SessionMessages, startup, link, flags,
     ids, sending

LEMMA HandlePrepareConnectionKeeps ==
  ASSUME IInv, HandlePrepareConnection
  PROVE  IInv'
<1>1. TypeOK'
  BY FinishTyped, SignalingAssumption DEF IInv, HandlePrepareConnection, Alive,
     TypeOK, Torn, startup, link, flags, ids, sending
<1>2. Clientele'
  BY SignalingAssumption DEF IInv, HandlePrepareConnection, Finish, Alive,
     TypeOK, Clientele, Clients, startup, link, flags, ids, sending
<1>3. Assembly'
  BY SignalingAssumption DEF IInv, HandlePrepareConnection, Finish, Alive,
     TypeOK, Assembly, Clients, startup, link, flags, ids, sending
<1>4. Flag'
  BY SignalingAssumption DEF IInv, HandlePrepareConnection, Finish, Alive,
     TypeOK, Flag, Clientele, Has, Clients, Assembly, startup, link, flags,
     ids, sending
<1>5. Message'
  BY SignalingAssumption DEF IInv, HandlePrepareConnection, Finish, Alive,
     TypeOK, Message, Has, SessionMessages, Flag, Clientele, Messages, Clients,
     Assembly, startup, link, flags, ids, sending
<1>6. Naming'
  BY SignalingAssumption DEF IInv, HandlePrepareConnection, Finish, Alive,
     TypeOK, Naming, startup, link, flags, ids, sending
<1>7. NoNullPointer'
  BY SignalingAssumption DEF IInv, HandlePrepareConnection, Finish, Alive,
     TypeOK, NoNullPointer, Message, SessionMessages, Assembly, startup, link,
     flags, ids, sending
<1>8. TagsOwnSession'
  BY SignalingAssumption DEF IInv, HandlePrepareConnection, Finish, Alive,
     TypeOK, TagsOwnSession, Naming, Torn, startup, link, flags, ids, sending
<1> QED
  BY <1>1, <1>2, <1>3, <1>4, <1>5, <1>6, <1>7, <1>8 DEF IInv

LEMMA HandleSessionMessageKeeps ==
  ASSUME IInv, HandleSessionMessage
  PROVE  IInv'
<1>1. TypeOK'
  BY FinishTyped, SignalingAssumption DEF IInv, HandleSessionMessage, Alive,
     TypeOK, Torn, startup, link, flags, ids, sending
<1>2. Clientele'
  BY SignalingAssumption DEF IInv, HandleSessionMessage, Finish, Alive, TypeOK,
     Clientele, Clients, startup, link, flags, ids, sending
<1>3. Assembly'
  BY SignalingAssumption DEF IInv, HandleSessionMessage, Finish, Alive, TypeOK,
     Assembly, Clients, startup, link, flags, ids, sending
<1>4. Flag'
  BY SignalingAssumption DEF IInv, HandleSessionMessage, Finish, Alive, TypeOK,
     Flag, Clientele, Has, Clients, Assembly, startup, link, flags, ids,
     sending
<1>5. Message'
  BY SignalingAssumption DEF IInv, HandleSessionMessage, Finish, Alive, TypeOK,
     Message, Has, SessionMessages, Flag, Clientele, Messages, Clients,
     Assembly, startup, link, flags, ids, sending
<1>6. Naming'
  BY SignalingAssumption DEF IInv, HandleSessionMessage, Finish, Alive, TypeOK,
     Naming, SessionMessages, startup, link, flags, ids, sending
<1>7. NoNullPointer'
  BY SignalingAssumption DEF IInv, HandleSessionMessage, Finish, Alive, TypeOK,
     NoNullPointer, Message, SessionMessages, Assembly, startup, link, flags,
     ids, sending
<1>8. TagsOwnSession'
  BY SignalingAssumption DEF IInv, HandleSessionMessage, Finish, Alive, TypeOK,
     TagsOwnSession, Naming, Torn, startup, link, flags, ids, sending
<1> QED
  BY <1>1, <1>2, <1>3, <1>4, <1>5, <1>6, <1>7, <1>8 DEF IInv

LEMMA HandleRequestKeeps == ASSUME IInv, HandleRequest PROVE IInv'
<1>1. TypeOK'
  BY FinishTyped, SignalingAssumption DEF IInv, HandleRequest, Alive, TypeOK,
     Torn, startup, link, flags, ids, sending
<1>2. Clientele'
  BY SignalingAssumption DEF IInv, HandleRequest, Finish, Alive, TypeOK,
     Clientele, Clients, startup, link, flags, ids, sending
<1>3. Assembly'
  BY SignalingAssumption DEF IInv, HandleRequest, Finish, Alive, TypeOK,
     Assembly, Clients, startup, link, flags, ids, sending
<1>4. Flag'
  BY SignalingAssumption DEF IInv, HandleRequest, Finish, Alive, TypeOK, Flag,
     Clientele, Has, Clients, Assembly, startup, link, flags, ids, sending
<1>5. Message'
  BY SignalingAssumption DEF IInv, HandleRequest, Finish, Alive, TypeOK,
     Message, Has, SessionMessages, Flag, Clientele, Messages, Clients,
     Assembly, startup, link, flags, ids, sending
<1>6. Naming'
  BY SignalingAssumption DEF IInv, HandleRequest, Finish, Alive, TypeOK,
     Naming, startup, link, flags, ids, sending
<1>7. NoNullPointer'
  BY SignalingAssumption DEF IInv, HandleRequest, Finish, Alive, TypeOK,
     NoNullPointer, Message, SessionMessages, Assembly, startup, link, flags,
     ids, sending
<1>8. TagsOwnSession'
  BY SignalingAssumption DEF IInv, HandleRequest, Finish, Alive, TypeOK,
     TagsOwnSession, Naming, Torn, startup, link, flags, ids, sending
<1> QED
  BY <1>1, <1>2, <1>3, <1>4, <1>5, <1>6, <1>7, <1>8 DEF IInv

LEMMA ReplyKeeps == ASSUME IInv, Reply PROVE IInv'
<1>1. TypeOK'
  BY FinishTyped, SignalingAssumption DEF IInv, Reply, OnError, Alive, TypeOK,
     Torn, startup, link, flags, ids, sending
<1>2. Clientele'
  BY SignalingAssumption DEF IInv, Reply, OnError, Finish, Alive, TypeOK,
     Clientele, Clients, startup, link, flags, ids, sending
<1>3. Assembly'
  BY SignalingAssumption DEF IInv, Reply, OnError, Finish, Alive, TypeOK,
     Assembly, Clients, startup, link, flags, ids, sending
<1>4. Flag'
  BY SignalingAssumption DEF IInv, Reply, OnError, Finish, Alive, TypeOK, Flag,
     Clientele, Has, Clients, Assembly, startup, link, flags, ids, sending
<1>5. Message'
  BY SignalingAssumption DEF IInv, Reply, OnError, Finish, Alive, TypeOK,
     Message, Has, SessionMessages, Flag, Clientele, Messages, Clients,
     Assembly, startup, link, flags, ids, sending
<1>6. Naming'
  BY SignalingAssumption DEF IInv, Reply, OnError, Finish, Alive, TypeOK,
     Naming, startup, link, flags, ids, sending
<1>7. NoNullPointer'
  BY SignalingAssumption DEF IInv, Reply, OnError, Finish, Alive, TypeOK,
     NoNullPointer, Message, SessionMessages, Assembly, startup, link, flags,
     ids, sending
<1>8. TagsOwnSession'
  BY SignalingAssumption DEF IInv, Reply, OnError, Finish, Alive, TypeOK,
     TagsOwnSession, Naming, Torn, startup, link, flags, ids, sending
<1> QED
  BY <1>1, <1>2, <1>3, <1>4, <1>5, <1>6, <1>7, <1>8 DEF IInv

(* WebRTC's thread. *)

LEMMA BuildMessageKeeps == ASSUME IInv, BuildMessage PROVE IInv'
  BY SignalingAssumption DEF BuildMessage, IInv, TypeOK, Clientele, Assembly,
     Flag, Message, Naming, NoNullPointer, TagsOwnSession, Has, Alive, Clients,
     Torn, Messages, SessionMessages, startup, link, flags, ids, sending

LEMMA SendMessageKeeps == ASSUME IInv, SendMessage PROVE IInv'
  BY SignalingAssumption DEF SendMessage, IInv, TypeOK, Clientele, Assembly,
     Flag, Message, Naming, NoNullPointer, TagsOwnSession, Has, Alive, Clients,
     Torn, Messages, SessionMessages, startup, link, flags, ids, sending

--------------------------------------------------------------------------------

\* The start of the process satisfies the invariant.
THEOREM Initially == Init => IInv
<1> SUFFICES ASSUME Init
             PROVE  IInv
  OBVIOUS
<1>1. TypeOK
  <2>1. {authenticator, connector, manager, ready} \subseteq BOOLEAN
    BY DEF Init
  <2>2. {mConnected, isConnected} \subseteq BOOLEAN
    BY DEF Init
  <2>3. {early, late, misread} \subseteq BOOLEAN
    BY DEF Init
  <2> QED
    BY <2>1, <2>2, <2>3, SignalingAssumption DEF Init, TypeOK, Torn
<1>2. Clientele
  BY SignalingAssumption DEF Init, Clientele, Clients
<1>3. Assembly /\ Flag
  BY DEF Init, Assembly, Flag
<1>4. Message /\ Naming
  BY DEF Init, Message, Naming, SessionMessages
<1>5. NoNullPointer /\ TagsOwnSession
  BY DEF Init, NoNullPointer, TagsOwnSession
<1> QED
  BY <1>1, <1>2, <1>3, <1>4, <1>5 DEF IInv

LEMMA StutterKeeps == ASSUME IInv, UNCHANGED vars PROVE IInv'
  BY DEF IInv, TypeOK, Clientele, Assembly, Flag, Message, Naming,
     NoNullPointer, TagsOwnSession, Has, vars, startup, link, flags, ids,
     sending

\* No step of any thread leaves the invariant.
THEOREM Inductive == IInv /\ [Next]_vars => IInv'
<1> SUFFICES ASSUME IInv, [Next]_vars
             PROVE  IInv'
  OBVIOUS
<1>1. CASE \E c \in Clients : Link(c) \/ Receive(c)
  BY <1>1, SocketOpensKeeps, DialFailsKeeps, SocketClosesKeeps, ConnectedKeeps,
     OnConnectedKeeps, HandleCloseKeeps, OnDisconnectedKeeps, RedialKeeps,
     ReceiveKeeps DEF Link
<1>2. CASE App \/ ShuttingDown
  BY <1>2, CreateAuthenticatorKeeps, StartKeeps, StartReturnsKeeps,
     SetMosaicConnectorKeeps, SetPeerConnectionManagerKeeps,
     InitializeWebRTCKeeps, ShuttingDownKeeps, StopKeeps, DisconnectKeeps,
     ClosedKeeps, ClearConnectedKeeps DEF App
<1>3. CASE Handle
  BY <1>3, IgnoreKeeps, MisreadKeeps, PrepareConnectionKeeps,
     HandlePrepareConnectionKeeps, HandleSessionMessageKeeps,
     HandleRequestKeeps, ReplyKeeps DEF Handle
<1>4. CASE BuildMessage \/ SendMessage
  BY <1>4, BuildMessageKeeps, SendMessageKeeps
<1>5. CASE Rests \/ UNCHANGED vars
  BY <1>5, StutterKeeps DEF Rests
<1> QED
  BY <1>1, <1>2, <1>3, <1>4, <1>5 DEF Next

\* The invariant holds throughout.
THEOREM Invariant == Spec => []IInv
  BY Initially, Inductive, PTL DEF Spec

\* The variables of the link keep their types.
THEOREM TypeCorrect == Spec => []TypeOK
<1>1. IInv => TypeOK
  BY DEF IInv
<1> QED
  BY <1>1, Invariant, PTL

\* However often the link is lost and dialed again, a message handler meets a
\* null pointer only in a session message that came before READY_TO_CONNECT.
THEOREM HandlersFindTheConnector == Spec => []NoNullPointer
<1>1. IInv => NoNullPointer
  BY DEF IInv
<1> QED
  BY <1>1, Invariant, PTL

\* Detached threads, late tasks and Stop never make a second link, and never
\* leave the last client without a link and without a thread that dials again.
THEOREM OneLinkForever == Spec => []OneLink
<1>1. IInv => OneLink
  BY SignalingAssumption DEF IInv, TypeOK, Clientele, OneLink, Carries, Clients
<1> QED
  BY <1>1, Invariant, PTL

\* m_connected stands for an opened client, unless it was set too late, and
\* m_client is not replaced under a message handler.
THEOREM LinkInUse == Spec => []UsesItsLink
<1>1. IInv => UsesItsLink
  BY DEF IInv, Flag, Message, Has, UsesItsLink
<1> QED
  BY <1>1, Invariant, PTL

\* Requests are dropped at the two ends of a link only.
THEOREM DropsAtTheEdges == Spec => []DropsOnlyAtTheEdges
<1>1. IInv => DropsOnlyAtTheEdges
  BY SignalingAssumption DEF IInv, TypeOK, Flag, Message, Has,
     DropsOnlyAtTheEdges, Clients
<1> QED
  BY <1>1, Invariant, PTL

\* A message of the newest session never carries the id of an older one.
THEOREM TagsBelong == Spec => []TagsOwnSession
<1>1. IInv => TagsOwnSession
  BY DEF IInv
<1> QED
  BY <1>1, Invariant, PTL

================================================================================
