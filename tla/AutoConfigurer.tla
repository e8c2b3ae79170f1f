--------------------------- MODULE AutoConfigurer ---------------------------
(***************************************************************************)
(* Configuring a robot from a file: AutoConfigurer reads the file, creates *)
(* the MosaicConnector, resolves the configured connectors, configures     *)
(* each and registers their handlers; MosaicConnector keeps them by label. *)
(* The registries are read by WebRTC's thread when a session starts, which *)
(* it may from the moment the MosaicConnector has been created.            *)
(*                                                                         *)
(* The caller is a C++ program, or Python: a plain AutoConfigurer or a     *)
(* subclass of it.  Python's threads share the interpreter lock (GIL),     *)
(* and a logger written in Python needs it on every thread that logs.      *)
(*                                                                         *)
(* A connector of the file is a record: its kind ("dc", "multi" for the    *)
(* connection check with its two data channels, "pymulti" for one of       *)
(* several channels that is written in Python, "mt", "other"), its label,  *)
(* what resolving it gives and what its Configure does.  A handler is a    *)
(* pair: the position of its connector, and the Configure call that made   *)
(* it.                                                                     *)
(***************************************************************************)
EXTENDS Naturals, Sequences

CONSTANTS
    Confs,          \* the connectors a file may list
    MaxConnectors,  \* bound: connectors in one file
    MaxCalls,       \* bound: calls of auto_configure
    MayLackKeys,    \* the file may lack a key that is required
    AuthTypes       \* whether an authentication type is registered: outcomes

Kinds == {"dc", "multi", "pymulti", "mt", "other"}

ASSUME ConfigurerAssumption ==
    /\ \A c \in Confs : c.kind \in Kinds
    /\ MaxConnectors \in Nat /\ MaxCalls \in Nat
    /\ MayLackKeys \in BOOLEAN /\ AuthTypes \subseteq BOOLEAN

VARIABLES
    caller,      \* "cpp", "plain" or "subclass"
    pyLogger,    \* set_logger was given a Python logger
    level,       \* LogService::log_level_
    file,        \* the keys the file has, its connectors and its auth type
    app,         \* where auto_configure is
    calls,       \* calls so far
    connectors,  \* configurable_connectors_
    made,        \* per connector: Configure calls that made a handler
    index,       \* the connector that the loop over them is at
    pending,     \* handlers of that connector still to register
    created,     \* mosaic_connector_ is not nullptr
    dcs, mts,    \* MosaicConnector's handlers by label
    dcMap, mtMap,  \* dc_handler_map_, mt_handler_map_
    gil,         \* who holds the interpreter lock: "app" or "free"
    task,        \* the continuation of the WebSocket's connect
    rtc,         \* the last session: "none", "tracks" (they are added), "up",
                 \* "find" (the handler of a data channel is looked up)
    tracks,      \* labels of the tracks that session got
    failed,      \* labels of the tracks that could not be created for it
    early,       \* that session's offer came before auto_configure returned
    fault

setting == <<caller, pyLogger, level, file>>
progress == <<connectors, made, index, pending>>
registry == <<dcs, mts>>
maps == <<dcMap, mtMap>>
python == <<gil, task>>
session == <<rtc, tracks, failed, early>>
vars == <<setting, app, calls, progress, created, registry, maps, python,
          session, fault>>

Keys == {"extension", "server", "ws_url", "auth", "auth.type", "auth.robot_id",
         "webrtc", "ice_servers", "urls", "username", "credential", "connectors",
         "connector.type", "connector.label"}
Levels == [DEBUG |-> 0, WARNING |-> 1, INFO |-> 2, ERROR |-> 3]

Empty == [l \in {} |-> <<0, 0>>]
Handlers == Nat \X (Nat \ {0})
Labels == {<<c.label>> : c \in Confs}
            \union {<<c.label, side>> : c \in Confs, side \in {"receiver", "sender"}}

TypeOK ==
    /\ caller \in {"cpp", "plain", "subclass"}
    /\ level \in DOMAIN Levels
    /\ app \in {"idle", "read", "create", "creating", "resolve", "before",
                "configure", "register", "done", "threw"}
    /\ calls \in 0..MaxCalls
    /\ connectors \in Seq(Confs) /\ made \in Seq(Nat)
    /\ Len(made) = Len(connectors)
    /\ index \in Nat \ {0}
    /\ pending \in Seq([label : Labels, handler : Handlers])
    /\ \A f \in {dcs, mts, dcMap, mtMap} :
         DOMAIN f \subseteq Labels /\ \A l \in DOMAIN f : f[l] \in Handlers
    /\ gil \in {"app", "free"} /\ task \in {"none", "logs", "done"}
    /\ rtc \in {"none", "tracks", "up", "find"}
    /\ tracks \subseteq Labels /\ failed \subseteq Labels
    /\ {pyLogger, created, early} \subseteq BOOLEAN
    /\ fault \in {"none", "null", "race", "thrown"}

Files ==
    [ has : {Keys} \union IF MayLackKeys THEN {Keys \ {k} : k \in Keys} ELSE {},
      connectors : UNION {[1..n -> Confs] : n \in 0..MaxConnectors},
      known : AuthTypes ]

Init ==
    /\ caller \in {"cpp", "plain", "subclass"}
    /\ pyLogger \in BOOLEAN /\ (caller = "cpp" => ~pyLogger)
    /\ level \in {"INFO", "ERROR"}
    /\ file \in Files
    /\ app = "idle" /\ calls = 0
    /\ connectors = <<>> /\ made = <<>> /\ index = 1 /\ pending = <<>>
    /\ created = FALSE
    /\ dcs = Empty /\ mts = Empty /\ dcMap = Empty /\ mtMap = Empty
    /\ gil = "free" /\ task = "none"
    /\ rtc = "none" /\ tracks = {} /\ failed = {} /\ early = TRUE
    /\ fault = "none"

At(l) == fault = "none" /\ app = l

-----------------------------------------------------------------------------
(* The log service: a Python logger takes the interpreter lock.            *)

IsInfoEnabled == Levels[level] <= Levels["INFO"]
LogsInPython == pyLogger /\ IsInfoEnabled

-----------------------------------------------------------------------------
(* The file.  Every required key that is missing makes the reader throw,   *)
(* and so does a name without the extension of a reader, here a key too.   *)

Has(f, keys) == keys \subseteq f.has
GetConfigReader(f) == Has(f, {"extension"})
ParseIceServers(f) == Has(f, {"urls", "username", "credential"})
ParseWebRtcConfig(f) == Has(f, {"ice_servers"}) /\ ParseIceServers(f)
ParseAuthConfig(f) == Has(f, {"auth.type", "auth.robot_id"})
ParseServerConfig(f) ==
    /\ Has(f, {"ws_url", "auth", "webrtc"})
    /\ ParseAuthConfig(f) /\ ParseWebRtcConfig(f)
ParseConnectorConfig(f) == Has(f, {"connector.type", "connector.label"})
ParseConnectorConfigs(f) ==
    /\ Has(f, {"server", "connectors"})
    /\ ParseServerConfig(f)
    /\ f.connectors # <<>> => ParseConnectorConfig(f)

-----------------------------------------------------------------------------
(* AutoConfigure.                                                          *)

AutoConfigure ==
    /\ fault = "none" /\ app \in {"idle", "done", "threw"} /\ calls < MaxCalls
    /\ calls' = calls + 1
    /\ gil' = IF caller = "cpp" THEN "free" ELSE "app"
    /\ app' = "read"
    /\ UNCHANGED <<setting, progress, created, registry, maps, task, session,
                   fault>>

\* auto_configure returns to its caller, or the exception does.
Return(result) == app' = result /\ gil' = "free"

ReadConfigs ==
    /\ At("read")
    /\ IF GetConfigReader(file) /\ ParseConnectorConfigs(file)
         THEN app' = "create" /\ gil' = gil ELSE Return("threw")
    /\ UNCHANGED <<setting, calls, progress, created, registry, maps, task,
                   session, fault>>

\* No session yet with the MosaicConnector that is created.
NoSession == rtc' = "none" /\ tracks' = {} /\ failed' = {} /\ early' = TRUE

\* Mutant: the interpreter lock is kept while the connector is created.
CreateMosaicConnector_holds ==
    /\ At("create")
    /\ IF file.known THEN app' = "creating" /\ task' = "logs"
                     ELSE app' = "resolve" /\ task' = task
    /\ created' = FALSE /\ dcs' = Empty /\ mts' = Empty /\ NoSession
    /\ index' = 1
    /\ UNCHANGED <<setting, calls, connectors, made, pending, maps, gil, fault>>

\* Mutant: a MosaicConnector that exists is used again.
CreateMosaicConnector_reuses ==
    /\ At("create")
    /\ IF created \/ ~file.known
         THEN app' = "resolve" /\ task' = task /\ gil' = gil
         ELSE /\ app' = "creating" /\ task' = "logs"
              /\ gil' = IF caller = "subclass" THEN "free" ELSE gil
    /\ index' = 1
    /\ UNCHANGED <<setting, calls, connectors, made, pending, created, registry,
                   maps, session, fault>>

\* The factory gives nullptr for an unknown authentication type.  Otherwise it
\* waits for the WebSocket; the binding of a Python subclass releases the
\* interpreter lock around this call, that of a plain AutoConfigurer does not.
\* From here on the model follows the sessions of the new MosaicConnector.
CreateMosaicConnector ==
    /\ At("create")
    /\ IF file.known
         THEN /\ app' = "creating" /\ task' = "logs"
              /\ gil' = IF caller = "subclass" THEN "free" ELSE gil
         ELSE app' = "resolve" /\ task' = task /\ gil' = gil
    /\ created' = FALSE /\ dcs' = Empty /\ mts' = Empty /\ NoSession
    /\ index' = 1
    /\ UNCHANGED <<setting, calls, connectors, made, pending, maps, fault>>

\* "WebSocket connected", on a task of the WebSocket client.
ConnectedLogs ==
    /\ fault = "none" /\ task = "logs"
    /\ LogsInPython => gil = "free"
    /\ task' = "done"
    /\ UNCHANGED <<setting, app, calls, progress, created, registry, maps, gil,
                   session, fault>>

CreateReturns ==
    /\ At("creating") /\ task = "done"
    /\ created' = TRUE /\ task' = "none"
    /\ gil' = IF caller = "cpp" THEN gil ELSE "app"
    /\ app' = "resolve"
    /\ UNCHANGED <<setting, calls, progress, registry, maps, session, fault>>

\* Connectors of an unknown type, that their factory does not create or that
\* do not validate are left out; a factory written in Python that raises ends
\* auto_configure.  Connectors of an earlier call stay in the list.
GetConfigurableConnector(c) == c.resolves = "yes"
FactoryRaises(c) == c.resolves = "raises"

ResolveConnector ==
    LET c == file.connectors[index] IN
    /\ At("resolve") /\ index <= Len(file.connectors)
    /\ IF GetConfigurableConnector(c)
         THEN connectors' = Append(connectors, c) /\ made' = Append(made, 0)
         ELSE UNCHANGED <<connectors, made>>
    /\ IF FactoryRaises(c) THEN Return("threw") /\ index' = index
       ELSE index' = index + 1 /\ UNCHANGED <<app, gil>>
    /\ UNCHANGED <<setting, calls, pending, created, registry, maps, task,
                   session, fault>>

ConnectorsResolved ==
    /\ At("resolve") /\ index > Len(file.connectors)
    /\ app' = "before"
    /\ UNCHANGED <<setting, calls, progress, created, registry, maps, python,
                   session, fault>>

\* A Python subclass may add connectors of its own in before_configure.
BeforeConfigure ==
    /\ At("before")
    /\ \/ UNCHANGED <<connectors, made>>
       \/ /\ caller = "subclass" /\ Len(connectors) < MaxConnectors
          /\ \E c \in Confs : connectors' = Append(connectors, c)
          /\ made' = Append(made, 0)
    /\ index' = 1
    /\ app' = "configure"
    /\ UNCHANGED <<setting, calls, pending, created, registry, maps, python,
                   session, fault>>

\* What the n-th Configure of c, connector i, leaves in handler_ or handlers_.  A
\* handler is set again, and so are the handlers of a connector written in
\* Python; the connection check adds two to those of its earlier calls.
Handler(i, n, label) == [label |-> label, handler |-> <<i, n>>]
Pair(i, n, label) == << Handler(i, n, <<label, "receiver">>),
                        Handler(i, n, <<label, "sender">>) >>
SetHandler(i, n, label) == << Handler(i, n, <<label>>) >>
SetHandlers(i, n, label) == Pair(i, n, label)
PushHandlers(i, n, label) ==
    [j \in 1..(2 * n) |-> Pair(i, (j + 1) \div 2, label)[2 - (j % 2)]]

Made(c, i, n) ==
    CASE c.kind \in {"dc", "mt"} -> SetHandler(i, n, c.label)
      [] c.kind = "pymulti" -> SetHandlers(i, n, c.label)
      [] c.kind = "multi" -> PushHandlers(i, n, c.label)
      [] OTHER -> <<>>

\* Configure may throw; nothing in auto_configure catches that.  A data channel
\* connector without a handler is passed over; the other kinds use the null
\* pointer, and so does every registration when there is no MosaicConnector.
ConfigureConnector ==
    LET c == connectors[index] IN
    /\ At("configure") /\ index <= Len(connectors)
    /\ \/ /\ c.configures = "throws"
          /\ Return("threw")
          /\ UNCHANGED <<made, index, pending, fault>>
       \/ /\ c.configures = "null"
          /\ gil' = gil /\ UNCHANGED <<made, pending>>
          /\ IF c.kind \in {"dc", "other"}
               THEN index' = index + 1 /\ UNCHANGED <<app, fault>>
               ELSE fault' = "null" /\ UNCHANGED <<app, index>>
       \/ /\ c.configures = "ok"
          /\ gil' = gil /\ index' = index
          /\ made' = [made EXCEPT ![index] = @ + 1]
          /\ pending' = Made(c, index, made[index] + 1)
          /\ app' = "register" /\ fault' = fault
    /\ UNCHANGED <<setting, calls, connectors, created, registry, maps, task,
                   session>>

\* Mutant: a label that is looked up is inserted, with no handler.
Added_subscript(f, h) ==
    IF h.label \in DOMAIN f THEN f
    ELSE [l \in DOMAIN f \union {h.label} |-> IF l = h.label THEN <<0, 0>> ELSE f[l]]

\* Mutant: the last of a label stays.
Added_overwrites(f, h) ==
    [l \in DOMAIN f \union {h.label} |-> IF l = h.label THEN h.handler ELSE f[l]]

\* AddDataChannelHandler, AddMediaTrackHandler: the first of a label stays.
Added(f, h) == IF h.label \in DOMAIN f THEN f
               ELSE [l \in DOMAIN f \union {h.label} |->
                       IF l = h.label THEN h.handler ELSE f[l]]

\* The configurer's own map is assigned: the last of a label stays.
Mapped(f, h) ==
    [l \in DOMAIN f \union {h.label} |-> IF l = h.label THEN h.handler ELSE f[l]]

\* An insertion while WebRTC's thread iterates over the tracks, or looks up a
\* data channel's label, is a data race.
RegisterHandler ==
    LET h == Head(pending)
        isTrack == connectors[index].kind = "mt"
    IN
    /\ At("register") /\ pending # <<>>
    /\ IF ~created THEN fault' = "null" /\ UNCHANGED <<registry, maps, pending>>
       ELSE /\ pending' = Tail(pending)
            /\ \/ fault' = fault
               \/ /\ rtc = IF isTrack THEN "tracks" ELSE "find"
                  /\ fault' = "race"
            /\ dcs' = IF isTrack THEN dcs ELSE Added(dcs, h)
            /\ dcMap' = IF isTrack THEN dcMap ELSE Mapped(dcMap, h)
            /\ mts' = IF isTrack THEN Added(mts, h) ELSE mts
            /\ mtMap' = IF isTrack THEN Mapped(mtMap, h) ELSE mtMap
    /\ UNCHANGED <<setting, app, calls, connectors, made, index, created,
                   python, session>>

NextConnector ==
    /\ At("register") /\ pending = <<>>
    /\ index' = index + 1
    /\ app' = "configure"
    /\ UNCHANGED <<setting, calls, connectors, made, pending, created, registry,
                   maps, python, session, fault>>

AfterConfigure ==
    /\ At("configure") /\ index > Len(connectors)
    /\ Return("done")
    /\ UNCHANGED <<setting, calls, progress, created, registry, maps, task,
                   session, fault>>

App ==
    \/ ReadConfigs \/ CreateMosaicConnector \/ CreateReturns
    \/ ResolveConnector \/ ConnectorsResolved \/ BeforeConfigure
    \/ ConfigureConnector \/ RegisterHandler \/ NextConnector \/ AfterConfigure

-----------------------------------------------------------------------------
(* WebRTC's thread: CreateAllMediaTracks for an offer, and OnDataChannel.    *)

CreateAllMediaTracks ==
    /\ fault = "none" /\ rtc \in {"none", "up"} /\ created
    /\ rtc' = "tracks"
    /\ tracks' = {} /\ failed' = {}
    /\ early' = (app # "done")
    /\ UNCHANGED <<setting, app, calls, progress, created, registry, maps,
                   python, fault>>

Session(next) ==
    /\ rtc' = next
    /\ UNCHANGED <<setting, app, calls, progress, created, registry, maps,
                   python, early>>

\* The handlers the loop over them has still to come to, in any order.
Left == DOMAIN mts \ (tracks \union failed)

AddTrack ==
    /\ fault = "none" /\ rtc = "tracks"
    /\ \E l \in Left : tracks' = tracks \union {l}
    /\ Session("tracks") /\ UNCHANGED <<failed, fault>>

\* Mutant: the loop ends at the first track that cannot be added.
SkipTrack_returns ==
    /\ fault = "none" /\ rtc = "tracks"
    /\ \E l \in Left : failed' = failed \union {l}
    /\ Session("up") /\ UNCHANGED <<tracks, fault>>

\* No source, no track, or the connection does not take it: logged, and the loop
\* goes on with the next handler.
SkipTrack ==
    /\ fault = "none" /\ rtc = "tracks"
    /\ \E l \in Left : failed' = failed \union {l}
    /\ Session("tracks") /\ UNCHANGED <<tracks, fault>>

\* A handler that throws when it is started throws into WebRTC.
StartThrows ==
    /\ fault = "none" /\ rtc = "tracks" /\ Left # {}
    /\ fault' = "thrown"
    /\ Session("tracks") /\ UNCHANGED <<tracks, failed>>

TracksAdded ==
    /\ fault = "none" /\ rtc = "tracks" /\ Left = {}
    /\ Session("up") /\ UNCHANGED <<tracks, failed, fault>>

\* OnDataChannel looks for the channel's label among the handlers.
OnDataChannel ==
    /\ fault = "none" /\ rtc = "up"
    /\ Session("find") /\ UNCHANGED <<tracks, failed, fault>>

HandlerFound ==
    /\ fault = "none" /\ rtc = "find"
    /\ Session("up") /\ UNCHANGED <<tracks, failed, fault>>

WebRtc ==
    \/ CreateAllMediaTracks
    \/ AddTrack \/ SkipTrack \/ StartThrows \/ TracksAdded
    \/ OnDataChannel \/ HandlerFound

-----------------------------------------------------------------------------
\* The process has died, the last call has returned, or it waits for ever for
\* a task that waits for the interpreter lock.
Rests ==
    /\ \/ fault # "none"
       \/ calls = MaxCalls /\ app \in {"done", "threw"}
       \/ app = "creating" /\ task = "logs" /\ LogsInPython /\ gil = "app"
    /\ UNCHANGED vars

Next ==
    \/ AutoConfigure \/ App \/ ConnectedLogs
    \/ WebRtc
    \/ Rests

Spec == Init /\ [][Next]_vars

\* The calling thread goes on and the WebSocket's task runs.
FairSpec == Spec /\ WF_vars(App) /\ WF_vars(ConnectedLogs)

-----------------------------------------------------------------------------
(* Properties.                                                             *)

IsTrack(i) == connectors[i].kind = "mt"
Configured == {i \in 1..Len(connectors) : made[i] > 0 /\ connectors[i].configures = "ok"}

\* The handlers that connector i has now, where those with label l stand among
\* them, and the connectors that have one.
HandlersOf(i) == Made(connectors[i], i, made[i])
Of(i, l) == {j \in 1..Len(HandlersOf(i)) : HandlersOf(i)[j].label = l}
Owners(l, track) == {i \in Configured : IsTrack(i) = track /\ Of(i, l) # {}}
Least(S) == CHOOSE i \in S : \A j \in S : i <= j
FirstHandler(l, track) ==
    LET i == Least(Owners(l, track)) IN HandlersOf(i)[Least(Of(i, l))].handler
LabelsOf(track) ==
    UNION {{HandlersOf(i)[j].label : j \in 1..Len(HandlersOf(i))} :
             i \in {k \in Configured : IsTrack(k) = track}}

\* When auto_configure has returned, the MosaicConnector it created knows
\* exactly the labels of the connectors that were configured, and under each
\* the first handler of that label, whatever the file lists and however often
\* it was called.  A handler that the configurer hands out after the first call
\* is the one sessions use, unless two connectors have its label.
RegistersFirst ==
    app = "done" /\ created /\ fault = "none" =>
        /\ dcs = [l \in LabelsOf(FALSE) |-> FirstHandler(l, FALSE)]
        /\ mts = [l \in LabelsOf(TRUE) |-> FirstHandler(l, TRUE)]
        /\ calls = 1 =>
             /\ \A l \in DOMAIN dcMap : \/ l \in DOMAIN dcs /\ dcMap[l] = dcs[l]
                                      \/ \E i, j \in Owners(l, FALSE) : i # j
             /\ \A l \in DOMAIN mtMap : \/ l \in DOMAIN mts /\ mtMap[l] = mts[l]
                                      \/ \E i, j \in Owners(l, TRUE) : i # j

\* A session whose offer came after auto_configure had returned gets the track
\* of every media connector that was configured, except those whose own track
\* could not be created: a camera that fails costs no other one its track.
SessionHasAllTracks ==
    rtc \in {"up", "find"} /\ ~early /\ fault = "none" =>
        tracks = LabelsOf(TRUE) \ failed

\* The registries are changed under a session only when its offer came before
\* auto_configure had returned; a null pointer is dereferenced only for an
\* authentication type that is not registered, or a connector that made no
\* handler.
FailsForAReason ==
    /\ fault = "race" => early
    /\ fault = "null" =>
         \/ ~file.known
         \/ /\ connectors[index].configures = "null"
            /\ connectors[index].kind \notin {"dc", "other"}

\* Creating the MosaicConnector comes to an end, whatever logger is set, except
\* for a plain Python AutoConfigurer with a Python logger that information is
\* logged to: that caller waits with the interpreter lock for a task that waits
\* for the interpreter lock.
CreationEnds ==
    app = "creating" /\ ~(caller = "plain" /\ LogsInPython) ~> app # "creating"
=============================================================================
