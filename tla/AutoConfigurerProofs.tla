------------------------- MODULE AutoConfigurerProofs -------------------------
(***************************************************************************)
(* AutoConfigurer proved for any files, connectors and number of calls:    *)
(* its types, why auto_configure fails, and what the MosaicConnector's     *)
(* registries hold when it has returned.                                   *)
(***************************************************************************)
EXTENDS AutoConfigurer, TLAPS, SequenceTheorems

-------------------------------------------------------------------------------
(* Types. *)

HandlerRecords == [label : Labels, handler : Handlers]

\* Handlers by label.
Registers(f) == DOMAIN f \subseteq Labels /\ \A l \in DOMAIN f : f[l] \in Handlers

TypeInv == TypeOK /\ file.connectors \in Seq(Confs)

LEMMA LabelsAreLabels ==
  ASSUME NEW c \in Confs
  PROVE  /\ <<c.label>> \in Labels
         /\ <<c.label, "receiver">> \in Labels /\ <<c.label, "sender">> \in Labels
  BY DEF Labels

\* What a connector makes is a sequence of handlers.
LEMMA MadeType ==
  ASSUME NEW c \in Confs, NEW i \in Nat, NEW n \in Nat \ {0}
  PROVE  Made(c, i, n) \in Seq(HandlerRecords)
<1>1. <<i, n>> \in Handlers
  BY DEF Handlers
<1>2. SetHandler(i, n, c.label) \in Seq(HandlerRecords)
  <2>1. Handler(i, n, <<c.label>>) \in HandlerRecords
    BY <1>1, LabelsAreLabels DEF Handler, HandlerRecords
  <2> QED
    BY <2>1 DEF SetHandler
<1>3. \A k \in Nat \ {0} : /\ Pair(i, k, c.label) \in Seq(HandlerRecords)
                          /\ Len(Pair(i, k, c.label)) = 2
  <2> SUFFICES ASSUME NEW k \in Nat \ {0}
               PROVE  /\ Pair(i, k, c.label) \in Seq(HandlerRecords)
                      /\ Len(Pair(i, k, c.label)) = 2
    OBVIOUS
  <2>1. <<i, k>> \in Handlers
    BY DEF Handlers
  <2>2. \A x \in {"receiver", "sender"} :
          Handler(i, k, <<c.label, x>>) \in HandlerRecords
    BY <2>1, LabelsAreLabels DEF Handler, HandlerRecords
  <2> QED
    BY <2>2 DEF Pair
<1>4. PushHandlers(i, n, c.label) \in Seq(HandlerRecords)
  <2>1. ASSUME NEW j \in 1..(2 * n)
        PROVE  Pair(i, (j + 1) \div 2, c.label)[2 - (j % 2)] \in HandlerRecords
    <3>1. (j + 1) \div 2 \in Nat \ {0} /\ 2 - (j % 2) \in 1..2
      OBVIOUS
    <3> QED
      BY <3>1, <1>3
  <2> QED
    BY <2>1 DEF PushHandlers
<1> QED
  BY <1>2, <1>3, <1>4 DEF Made, SetHandlers

\* A connector is added at the end, with no handler yet.
LEMMA Appended ==
  ASSUME TypeInv, NEW c \in Confs
  PROVE  /\ Append(connectors, c) \in Seq(Confs) /\ Append(made, 0) \in Seq(Nat)
         /\ Len(Append(connectors, c)) = Len(connectors) + 1
         /\ Len(Append(made, 0)) = Len(connectors) + 1
         /\ \A i \in 1..Len(connectors) :
              /\ Append(connectors, c)[i] = connectors[i]
              /\ Append(made, 0)[i] = made[i]
         /\ Append(made, 0)[Len(connectors) + 1] = 0
  BY AppendProperties DEF TypeInv, TypeOK

LEMMA TypeInit == ASSUME Init PROVE TypeInv
<1>1. file.connectors \in Seq(Confs)
  BY DEF Init, Files
<1>2. \A f \in {dcs, mts, dcMap, mtMap} : DOMAIN f = {}
  BY DEF Init, Empty
<1>3. level \in DOMAIN Levels
  BY DEF Init, Levels
<1>4. connectors \in Seq(Confs) /\ made \in Seq(Nat) /\ Len(made) = Len(connectors)
      /\ pending \in Seq([label : Labels, handler : Handlers])
  BY DEF Init
<1>5. calls \in 0..MaxCalls
  BY ConfigurerAssumption DEF Init
<1>6. {pyLogger, created, early} \subseteq BOOLEAN
  BY DEF Init
<1>7. \A f \in {dcs, mts, dcMap, mtMap} :
        DOMAIN f \subseteq Labels /\ \A l \in DOMAIN f : f[l] \in Handlers
  BY <1>2
<1>8. TypeOK
  BY <1>3, <1>4, <1>5, <1>6, <1>7 DEF Init, TypeOK
<1> QED
  BY <1>1, <1>8 DEF TypeInv

-------------------------------------------------------------------------------
(* Each step keeps the types. *)

LEMMA AutoConfigureTypes == ASSUME TypeInv, AutoConfigure PROVE TypeInv'
<1>1. calls + 1 \in 0..MaxCalls
  BY ConfigurerAssumption DEF AutoConfigure, TypeInv, TypeOK
<1> QED
  BY <1>1 DEF AutoConfigure, TypeInv, TypeOK, At, Return, setting, progress,
     registry, maps, python, session

LEMMA ReadConfigsTypes == ASSUME TypeInv, ReadConfigs PROVE TypeInv'
  BY DEF ReadConfigs, TypeInv, TypeOK, At, Return, setting, progress, registry,
     maps, python, session

LEMMA CreateMosaicConnectorTypes == ASSUME TypeInv, CreateMosaicConnector PROVE TypeInv'
<1>1. \A f \in {dcs', mts', dcMap', mtMap'} :
        DOMAIN f \subseteq Labels /\ \A l \in DOMAIN f : f[l] \in Handlers
  <2>1. DOMAIN Empty = {}
    BY DEF Empty
  <2> QED
    BY <2>1 DEF CreateMosaicConnector, maps, TypeInv, TypeOK
<1>2. {pyLogger', created', early'} \subseteq BOOLEAN /\ index' \in Nat \ {0}
  <2>1. /\ pyLogger' = pyLogger /\ created' = FALSE /\ early' = TRUE
        /\ index' = 1 /\ pyLogger \in BOOLEAN
    BY DEF CreateMosaicConnector, NoSession, setting, TypeInv, TypeOK
  <2>2. {pyLogger', created', early'} \subseteq BOOLEAN
    BY <2>1, Zenon
  <2> QED
    BY <2>1, <2>2
<1>3. /\ app' \in {"creating", "resolve"} /\ gil' \in {"app", "free"}
      /\ task' \in {"none", "logs", "done"}
  BY DEF CreateMosaicConnector, TypeInv, TypeOK
<1>4. UNCHANGED <<caller, pyLogger, level, file, calls, connectors, made,
                  pending, fault>> /\ rtc' = "none"
      /\ tracks' = {} /\ failed' = {}
  BY DEF CreateMosaicConnector, NoSession, setting
<1> QED
  BY <1>1, <1>2, <1>3, <1>4 DEF TypeInv, TypeOK

LEMMA ConnectedLogsTypes == ASSUME TypeInv, ConnectedLogs PROVE TypeInv'
  BY DEF ConnectedLogs, TypeInv, TypeOK, At, Return, setting, progress, registry,
     maps, python, session

LEMMA CreateReturnsTypes == ASSUME TypeInv, CreateReturns PROVE TypeInv'
  BY DEF CreateReturns, TypeInv, TypeOK, At, Return, setting, progress, registry,
     maps, python, session

LEMMA ResolveConnectorTypes == ASSUME TypeInv, ResolveConnector PROVE TypeInv'
<1> DEFINE c == file.connectors[index]
<1>1. c \in Confs
  BY DEF ResolveConnector, TypeInv, TypeOK
<1>2. /\ connectors' \in Seq(Confs) /\ made' \in Seq(Nat)
      /\ Len(made') = Len(connectors')
  BY <1>1, Appended DEF ResolveConnector, TypeInv, TypeOK
<1>3. index' \in Nat \ {0}
  BY DEF ResolveConnector, TypeInv, TypeOK
<1> QED
  BY <1>2, <1>3 DEF ResolveConnector, TypeInv, TypeOK, At, Return, setting,
     progress, registry, maps, python, session

LEMMA ConnectorsResolvedTypes == ASSUME TypeInv, ConnectorsResolved PROVE TypeInv'
  BY DEF ConnectorsResolved, TypeInv, TypeOK, At, Return, setting, progress,
     registry, maps, python, session

LEMMA BeforeConfigureTypes == ASSUME TypeInv, BeforeConfigure PROVE TypeInv'
<1>1. /\ connectors' \in Seq(Confs) /\ made' \in Seq(Nat)
      /\ Len(made') = Len(connectors')
  BY Appended DEF BeforeConfigure, TypeInv, TypeOK
<1>2. index' \in Nat \ {0}
  BY DEF BeforeConfigure
<1> QED
  BY <1>1, <1>2 DEF BeforeConfigure, TypeInv, TypeOK, At, Return, setting,
     progress, registry, maps, python, session

LEMMA ConfigureConnectorTypes == ASSUME TypeInv, ConfigureConnector PROVE TypeInv'
<1>1. index \in 1..Len(connectors) /\ connectors[index] \in Confs
  BY DEF ConfigureConnector, TypeInv, TypeOK
<1>2. /\ made' \in Seq(Nat) /\ Len(made') = Len(connectors)
      /\ index' \in Nat \ {0}
  <2>1. made \in Seq(Nat) /\ Len(made) = Len(connectors) /\ index \in Nat \ {0}
    BY DEF TypeInv, TypeOK
  <2>2. index + 1 \in Nat \ {0}
    BY <2>1
  <2>3. /\ [made EXCEPT ![index] = @ + 1] \in Seq(Nat)
        /\ Len([made EXCEPT ![index] = @ + 1]) = Len(made)
    BY <1>1, <2>1
  <2> QED
    BY <2>1, <2>2, <2>3 DEF ConfigureConnector
<1>3. Made(connectors[index], index, made[index] + 1) \in Seq([label : Labels, handler : Handlers])
  <2>1. index \in Nat /\ made[index] + 1 \in Nat \ {0}
    BY <1>1 DEF TypeInv, TypeOK
  <2> QED
    BY <1>1, <2>1, MadeType DEF HandlerRecords
<1>4. pending' \in Seq([label : Labels, handler : Handlers])
  BY <1>3 DEF ConfigureConnector, TypeInv, TypeOK
<1> QED
  BY <1>2, <1>4 DEF ConfigureConnector, TypeInv, TypeOK, At, Return, setting,
     progress, registry, maps, python, session

LEMMA RegisterHandlerTypes == ASSUME TypeInv, RegisterHandler PROVE TypeInv'
<1>1. /\ Head(pending) \in [label : Labels, handler : Handlers]
      /\ Tail(pending) \in Seq([label : Labels, handler : Handlers])
  <2>1. pending \in Seq([label : Labels, handler : Handlers]) /\ pending # <<>>
    BY DEF RegisterHandler, TypeInv, TypeOK
  <2> QED
    BY <2>1, HeadTailProperties
<1>2. \A f \in {dcs, mts, dcMap, mtMap} :
        /\ Registers(Added(f, Head(pending)))
        /\ Registers(Mapped(f, Head(pending)))
  BY <1>1 DEF TypeInv, TypeOK, Registers, Added, Mapped
<1>3. \A f \in {dcs, mts, dcMap, mtMap} : Registers(f)
  BY DEF TypeInv, TypeOK, Registers
<1>4. Registers(dcs') /\ Registers(mts') /\ Registers(dcMap') /\ Registers(mtMap')
  BY <1>2, <1>3 DEF RegisterHandler, registry, maps
<1>5. \A f \in {dcs', mts', dcMap', mtMap'} :
        DOMAIN f \subseteq Labels /\ \A l \in DOMAIN f : f[l] \in Handlers
  BY <1>4 DEF Registers
<1>6. pending' \in Seq([label : Labels, handler : Handlers])
  BY <1>1 DEF RegisterHandler, TypeInv, TypeOK
<1> QED
  BY <1>5, <1>6 DEF RegisterHandler, TypeInv, TypeOK, At, Return, setting,
     progress, registry, maps, python, session

LEMMA NextConnectorTypes == ASSUME TypeInv, NextConnector PROVE TypeInv'
  BY DEF NextConnector, TypeInv, TypeOK, At, Return, setting, progress, registry,
     maps, python, session

LEMMA AfterConfigureTypes == ASSUME TypeInv, AfterConfigure PROVE TypeInv'
  BY DEF AfterConfigure, TypeInv, TypeOK, At, Return, setting, progress, registry,
     maps, python, session

LEMMA CreateAllMediaTracksTypes == ASSUME TypeInv, CreateAllMediaTracks PROVE TypeInv'
  BY DEF CreateAllMediaTracks, TypeInv, TypeOK, At, Return, setting, progress,
     registry, maps, python, session

LEMMA LeftAreLabels == ASSUME TypeInv PROVE Left \subseteq Labels
  BY DEF Left, TypeInv, TypeOK

LEMMA AddTrackTypes == ASSUME TypeInv, AddTrack PROVE TypeInv'
  BY LeftAreLabels DEF AddTrack, Session, TypeInv, TypeOK, setting, progress, registry, maps,
     python

LEMMA SkipTrackTypes == ASSUME TypeInv, SkipTrack PROVE TypeInv'
  BY LeftAreLabels DEF SkipTrack, Session, TypeInv, TypeOK, setting, progress, registry, maps,
     python

LEMMA StartThrowsTypes == ASSUME TypeInv, StartThrows PROVE TypeInv'
  BY LeftAreLabels DEF StartThrows, Session, TypeInv, TypeOK, setting, progress, registry, maps,
     python

LEMMA TracksAddedTypes == ASSUME TypeInv, TracksAdded PROVE TypeInv'
  BY LeftAreLabels DEF TracksAdded, Session, TypeInv, TypeOK, setting, progress, registry, maps,
     python

LEMMA OnDataChannelTypes == ASSUME TypeInv, OnDataChannel PROVE TypeInv'
  BY LeftAreLabels DEF OnDataChannel, Session, TypeInv, TypeOK, setting, progress, registry, maps,
     python

LEMMA HandlerFoundTypes == ASSUME TypeInv, HandlerFound PROVE TypeInv'
  BY LeftAreLabels DEF HandlerFound, Session, TypeInv, TypeOK, setting, progress, registry, maps,
     python

LEMMA TypeStutter == ASSUME TypeInv, UNCHANGED vars PROVE TypeInv'
  BY DEF TypeInv, TypeOK, vars, setting, progress, registry, maps, python, session

\* The types, and that the file lists connectors, hold throughout.
THEOREM TypesInvariant == Spec => []TypeInv
<1>1. Init => TypeInv
  BY TypeInit
<1>2. TypeInv /\ [Next]_vars => TypeInv'
  <2> SUFFICES ASSUME TypeInv, [Next]_vars
               PROVE  TypeInv'
    OBVIOUS
  <2>1. CASE App
    BY <2>1, ReadConfigsTypes, CreateMosaicConnectorTypes, CreateReturnsTypes,
       ResolveConnectorTypes, ConnectorsResolvedTypes, BeforeConfigureTypes,
       ConfigureConnectorTypes, RegisterHandlerTypes, NextConnectorTypes,
       AfterConfigureTypes DEF App
  <2>2. CASE AutoConfigure \/ ConnectedLogs
    BY <2>2, AutoConfigureTypes, ConnectedLogsTypes
  <2>3. CASE WebRtc
    BY <2>3, CreateAllMediaTracksTypes, AddTrackTypes, SkipTrackTypes,
       StartThrowsTypes, TracksAddedTypes, OnDataChannelTypes, HandlerFoundTypes DEF WebRtc
  <2>4. CASE Rests \/ UNCHANGED vars
    BY <2>4, TypeStutter DEF Rests
  <2> QED
    BY <2>1, <2>2, <2>3, <2>4 DEF Next
<1> QED
  BY <1>1, <1>2, PTL DEF Spec

\* Every variable keeps to its type: what is registered and still to register are
\* handlers of the connectors that were resolved, under labels of theirs.
THEOREM TypeCorrect == Spec => []TypeOK
<1>1. TypeInv => TypeOK
  BY DEF TypeInv
<1> QED
  BY <1>1, TypesInvariant, PTL

-------------------------------------------------------------------------------
(* Failures. *)

\* Between the call of the factory and the return to the caller.
Busy == app \in {"creating", "resolve", "before", "configure", "register"}

\* A session of the new MosaicConnector that is under way meanwhile was offered
\* before the call has returned.
Sessions ==
    /\ early \in BOOLEAN
    /\ Busy /\ rtc \in {"tracks", "up", "find"} => early

\* The connector is missing after the factory only for an unknown authentication
\* type, and only a known one makes the caller wait.
Creation ==
    /\ app = "creating" => file.known
    /\ app \in {"resolve", "before", "configure", "register"} /\ ~created =>
         ~file.known

IInv == Sessions /\ Creation /\ FailsForAReason

-------------------------------------------------------------------------------
(* The steps of auto_configure, of its task and of a session. *)

LEMMA AutoConfigureKeeps == ASSUME IInv, AutoConfigure PROVE IInv'
  BY DEF AutoConfigure, IInv, Sessions, Creation, FailsForAReason, Busy, At,
     setting, progress, registry, maps,
     python, session

LEMMA ReadConfigsKeeps == ASSUME IInv, ReadConfigs PROVE IInv'
  BY DEF ReadConfigs, Return, IInv, Sessions, Creation, FailsForAReason, Busy, At,
     setting, progress, registry, maps,
     python, session

LEMMA CreateMosaicConnectorKeeps == ASSUME IInv, CreateMosaicConnector PROVE IInv'
  BY DEF CreateMosaicConnector, NoSession, IInv, Sessions, Creation,
     FailsForAReason, Busy, At, setting, progress,
     registry, maps, python, session

LEMMA ConnectedLogsKeeps == ASSUME IInv, ConnectedLogs PROVE IInv'
  BY DEF ConnectedLogs, IInv, Sessions, Creation, FailsForAReason, Busy, At,
     setting, progress, registry, maps,
     python, session

LEMMA CreateReturnsKeeps == ASSUME IInv, CreateReturns PROVE IInv'
  BY DEF CreateReturns, IInv, Sessions, Creation, FailsForAReason, Busy, At,
     setting, progress, registry, maps,
     python, session

LEMMA ResolveConnectorKeeps == ASSUME IInv, ResolveConnector PROVE IInv'
  BY DEF ResolveConnector, Return, IInv, Sessions, Creation, FailsForAReason, Busy,
     At, setting, progress, registry, maps,
     python, session

LEMMA ConnectorsResolvedKeeps == ASSUME IInv, ConnectorsResolved PROVE IInv'
  BY DEF ConnectorsResolved, IInv, Sessions, Creation, FailsForAReason, Busy, At,
     setting, progress, registry, maps,
     python, session

LEMMA BeforeConfigureKeeps == ASSUME IInv, BeforeConfigure PROVE IInv'
  BY DEF BeforeConfigure, IInv, Sessions, Creation, FailsForAReason, Busy, At,
     setting, progress, registry, maps,
     python, session

LEMMA ConfigureConnectorKeeps == ASSUME IInv, ConfigureConnector PROVE IInv'
  BY DEF ConfigureConnector, Return, IInv, Sessions, Creation, FailsForAReason,
     Busy, At, setting, progress, registry, maps,
     python, session

LEMMA RegisterHandlerKeeps == ASSUME IInv, RegisterHandler PROVE IInv'
<1>1. /\ app = "register" /\ app' = app /\ fault = "none"
      /\ UNCHANGED <<file, connectors, index, created, rtc, early>>
  BY DEF RegisterHandler, At, setting, session
<1>2. \/ fault' = "null" /\ ~created
      \/ fault' = "none"
      \/ fault' = "race" /\ rtc \in {"tracks", "find"}
  BY <1>1 DEF RegisterHandler
<1>3. (Sessions /\ Creation)'
  BY <1>1 DEF IInv, Sessions, Creation, Busy
<1>4. FailsForAReason'
  BY <1>1, <1>2 DEF IInv, Sessions, Creation, FailsForAReason, Busy
<1> QED
  BY <1>3, <1>4 DEF IInv

LEMMA NextConnectorKeeps == ASSUME IInv, NextConnector PROVE IInv'
  BY DEF NextConnector, IInv, Sessions, Creation, FailsForAReason, Busy, At,
     setting, progress, registry, maps,
     python, session

LEMMA AfterConfigureKeeps == ASSUME IInv, AfterConfigure PROVE IInv'
  BY DEF AfterConfigure, Return, IInv, Sessions, Creation, FailsForAReason, Busy,
     At, setting, progress, registry, maps,
     python, session

LEMMA CreateAllMediaTracksKeeps == ASSUME IInv, CreateAllMediaTracks PROVE IInv'
  BY DEF CreateAllMediaTracks, IInv, Sessions, Creation, FailsForAReason, Busy, At,
     setting, progress, registry, maps,
     python, session

LEMMA AddTrackKeeps == ASSUME IInv, AddTrack PROVE IInv'
  BY DEF AddTrack, Session, IInv, Sessions, Creation, FailsForAReason, Busy, At, setting,
     progress, registry, maps, python

LEMMA SkipTrackKeeps == ASSUME IInv, SkipTrack PROVE IInv'
  BY DEF SkipTrack, Session, IInv, Sessions, Creation, FailsForAReason, Busy, At, setting,
     progress, registry, maps, python

LEMMA StartThrowsKeeps == ASSUME IInv, StartThrows PROVE IInv'
  BY DEF StartThrows, Session, IInv, Sessions, Creation, FailsForAReason, Busy, At, setting,
     progress, registry, maps, python

LEMMA TracksAddedKeeps == ASSUME IInv, TracksAdded PROVE IInv'
  BY DEF TracksAdded, Session, IInv, Sessions, Creation, FailsForAReason, Busy, At, setting,
     progress, registry, maps, python

LEMMA OnDataChannelKeeps == ASSUME IInv, OnDataChannel PROVE IInv'
  BY DEF OnDataChannel, Session, IInv, Sessions, Creation, FailsForAReason, Busy, At, setting,
     progress, registry, maps, python

LEMMA HandlerFoundKeeps == ASSUME IInv, HandlerFound PROVE IInv'
  BY DEF HandlerFound, Session, IInv, Sessions, Creation, FailsForAReason, Busy, At, setting,
     progress, registry, maps, python

-------------------------------------------------------------------------------

\* The start of the program satisfies the invariant.
THEOREM Initially == Init => IInv
<1> SUFFICES ASSUME Init
             PROVE  IInv
  OBVIOUS
<1>1. early = TRUE /\ rtc = "none" /\ app = "idle" /\ fault = "none"
  BY DEF Init
<1> QED
  BY <1>1 DEF IInv, Sessions, Creation, Busy, FailsForAReason

LEMMA StutterKeeps == ASSUME IInv, UNCHANGED vars PROVE IInv'
  BY DEF IInv, Sessions, Creation, FailsForAReason,
         Busy, vars, setting, progress, session

\* No step of a call, a task or a session leaves the invariant.
THEOREM Inductive == IInv /\ [Next]_vars => IInv'
<1> SUFFICES ASSUME IInv, [Next]_vars
             PROVE  IInv'
  OBVIOUS
<1>1. CASE App
  BY <1>1, ReadConfigsKeeps, CreateMosaicConnectorKeeps, CreateReturnsKeeps,
     ResolveConnectorKeeps, ConnectorsResolvedKeeps, BeforeConfigureKeeps, ConfigureConnectorKeeps,
     RegisterHandlerKeeps, NextConnectorKeeps, AfterConfigureKeeps DEF App
<1>2. CASE AutoConfigure \/ ConnectedLogs
  BY <1>2, AutoConfigureKeeps, ConnectedLogsKeeps
<1>3. CASE WebRtc
  BY <1>3, CreateAllMediaTracksKeeps, AddTrackKeeps, SkipTrackKeeps,
     StartThrowsKeeps, TracksAddedKeeps, OnDataChannelKeeps, HandlerFoundKeeps DEF WebRtc
<1>4. CASE Rests \/ UNCHANGED vars
  BY <1>4, StutterKeeps DEF Rests
<1> QED
  BY <1>1, <1>2, <1>3, <1>4 DEF Next

\* The invariant holds throughout.
THEOREM Invariant == Spec => []IInv
  BY Initially, Inductive, PTL DEF Spec

\* The registries of handlers are written under a session only when its offer
\* came before auto_configure had returned, and only the configuration makes
\* auto_configure follow a null pointer.
THEOREM FailuresHaveAReason == Spec => []FailsForAReason
<1>1. IInv => FailsForAReason
  BY DEF IInv
<1> QED
  BY <1>1, Invariant, PTL

-------------------------------------------------------------------------------
(* The registries. *)

\* The first handlers of connector i that have been passed to the
\* MosaicConnector in this call, and to the configurer's own map.
PassedOf(i) ==
    IF connectors[i].configures # "ok" THEN 0
    ELSE IF i < index THEN Len(HandlersOf(i))
    ELSE IF i = index /\ app = "register" THEN Len(HandlersOf(i)) - Len(pending)
    ELSE 0

Entry(i, j) == [connector |-> i, position |-> j, label |-> HandlersOf(i)[j].label,
                handler |-> HandlersOf(i)[j].handler]
Passed(track) ==
    UNION {{Entry(i, j) : j \in 1..PassedOf(i)} :
             i \in {k \in 1..Len(connectors) : IsTrack(k) = track}}

Before(p, q) ==
    p.connector < q.connector \/ (p.connector = q.connector /\ p.position <= q.position)

\* A registry has the labels of these entries, and under each the first handler;
\* a map of the configurer has some handler under each.
HoldsFirst(f, P) ==
    /\ f = [l \in DOMAIN f |-> f[l]]
    /\ DOMAIN f = {p.label : p \in P}
    /\ \A l \in DOMAIN f : \E p \in P :
         /\ p.label = l /\ f[l] = p.handler
         /\ \A q \in P : q.label = l => Before(p, q)
HoldsSome(m, P) ==
    /\ DOMAIN m = {p.label : p \in P}
    /\ \A l \in DOMAIN m : \E p \in P : p.label = l /\ m[l] = p.handler

\* The call has begun to configure, or a session was offered after it had done so.
Started == app \in {"configure", "register", "done"} \/ ~early

Loop ==
    /\ app = "register" =>
         /\ index <= Len(connectors)
         /\ connectors[index].configures = "ok" /\ made[index] > 0
         /\ Len(pending) <= Len(HandlersOf(index))
         /\ \A m \in 1..Len(pending) :
              pending[m] = HandlersOf(index)[Len(HandlersOf(index)) - Len(pending) + m]
    /\ app = "done" \/ ~early => index > Len(connectors)
    /\ ~early => app \in {"done", "read", "create", "threw"}
    /\ Started => \A i \in 1..Len(connectors) :
         i < index /\ connectors[i].configures = "ok" => made[i] > 0

Registries ==
    /\ app \in {"creating", "resolve", "before"} => dcs = Empty /\ mts = Empty
    /\ Started => HoldsFirst(dcs, Passed(FALSE)) /\ HoldsFirst(mts, Passed(TRUE))

\* The session has gone through handlers that are registered, each once, and is
\* through them all when it is up.
OfSession ==
    ~early =>
        /\ tracks \subseteq DOMAIN mts /\ tracks \intersect failed = {}
        /\ rtc \in {"up", "find"} => DOMAIN mts \subseteq tracks \union failed

\* In the first call no connector has been configured twice: one that has still
\* to be configured has made nothing.
Preparing == app \in {"idle", "read", "create", "creating", "resolve", "before"}
Configuring == app \in {"configure", "register"}
ToConfigure(i) ==
    \/ Preparing
    \/ Configuring /\ i > index
    \/ app = "configure" /\ i = index
Calls ==
    /\ app = "idle" <=> calls = 0
    /\ calls <= 1 /\ ~early => app = "done"
MadeOnce ==
    calls <= 1 => \A i \in 1..Len(connectors) :
                    made[i] <= 1 /\ (ToConfigure(i) => made[i] = 0)
Maps ==
    calls <= 1 =>
        /\ Preparing => dcMap = Empty /\ mtMap = Empty
        /\ Configuring \/ app = "done" =>
             HoldsSome(dcMap, Passed(FALSE)) /\ HoldsSome(mtMap, Passed(TRUE))
FirstCall == Calls /\ MadeOnce /\ Maps

RInv == Loop /\ Registries /\ OfSession /\ FirstCall

-------------------------------------------------------------------------------
(* One more handler of a registry. *)

\* No label of a registry changes its handler, and one it does not have is added.
LEMMA AddedFirst ==
  ASSUME NEW f, NEW P, HoldsFirst(f, P), NEW p, \A q \in P : Before(q, p),
         NEW h, h.label = p.label, h.handler = p.handler,
         p.position \in Nat
  PROVE  HoldsFirst(Added(f, h), P \union {p})
<1> DEFINE Q == P \union {p}
           g == Added(f, h)
<1>0. Before(p, p)
  BY DEF Before
<1>1. g = [l \in DOMAIN g |-> g[l]] /\ DOMAIN g = {q.label : q \in Q}
  <2>1. DOMAIN f = {q.label : q \in P}
    BY DEF HoldsFirst
  <2>2. CASE h.label \in DOMAIN f
    <3>1. g = f
      BY <2>2 DEF Added
    <3> QED
      BY <2>1, <2>2, <3>1 DEF HoldsFirst
  <2>3. CASE h.label \notin DOMAIN f
    <3>1. g = [l \in DOMAIN f \union {h.label} |->
                 IF l = h.label THEN h.handler ELSE f[l]]
      BY <2>3 DEF Added
    <3> QED
      BY <2>1, <3>1
  <2> QED
    BY <2>2, <2>3
<1>2. ASSUME NEW l \in DOMAIN g
      PROVE  \E q \in Q : /\ q.label = l /\ g[l] = q.handler
                          /\ \A r \in Q : r.label = l => Before(q, r)
  <2>1. CASE l \in DOMAIN f
    BY <2>1 DEF HoldsFirst, Added
  <2>2. CASE l \notin DOMAIN f
    <3>1. l = p.label /\ g[l] = p.handler /\ \A r \in P : r.label # l
      BY <2>2, <1>2 DEF HoldsFirst, Added
    <3> QED
      BY <3>1, <1>0
  <2> QED
    BY <2>1, <2>2
<1> QED
  BY <1>1, <1>2 DEF HoldsFirst

LEMMA MappedSome ==
  ASSUME NEW m, NEW P, HoldsSome(m, P), NEW p,
         NEW h, h.label = p.label, h.handler = p.handler
  PROVE  HoldsSome(Mapped(m, h), P \union {p})
<1> DEFINE Q == P \union {p}
           g == Mapped(m, h)
<1>1. DOMAIN g = {q.label : q \in Q}
  BY DEF HoldsSome, Mapped
<1>2. ASSUME NEW l \in DOMAIN g
      PROVE  \E q \in Q : q.label = l /\ g[l] = q.handler
  BY DEF HoldsSome, Mapped
<1> QED
  BY <1>1, <1>2 DEF HoldsSome

LEMMA EmptyHolds == HoldsFirst(Empty, {}) /\ HoldsSome(Empty, {})
  BY DEF HoldsFirst, HoldsSome, Empty

-------------------------------------------------------------------------------
(* What has been passed. *)

LEMMA IsPassed ==
  ASSUME NEW p
  PROVE  /\ p \in Passed(TRUE) <=>
              \E i \in 1..Len(connectors) :
                connectors[i].kind = "mt" /\ \E j \in 1..PassedOf(i) : p = Entry(i, j)
         /\ p \in Passed(FALSE) <=>
              \E i \in 1..Len(connectors) :
                connectors[i].kind # "mt" /\ \E j \in 1..PassedOf(i) : p = Entry(i, j)
  BY DEF Passed, IsTrack

LEMMA SamePassed ==
  ASSUME connectors' = connectors,
         \A i \in 1..Len(connectors) :
           /\ PassedOf(i)' = PassedOf(i)
           /\ PassedOf(i) # 0 => made'[i] = made[i]
  PROVE  Passed(FALSE)' = Passed(FALSE) /\ Passed(TRUE)' = Passed(TRUE)
<1>1. ASSUME NEW i \in 1..Len(connectors), NEW j \in 1..PassedOf(i)
      PROVE  Entry(i, j)' = Entry(i, j)
  <2>1. CASE PassedOf(i) # 0
    BY <2>1 DEF Entry, HandlersOf
  <2>2. CASE PassedOf(i) = 0
    BY <2>2
  <2> QED
    BY <2>1, <2>2
<1>2. \A i \in 1..Len(connectors) : IsTrack(i)' = IsTrack(i)
  BY DEF IsTrack
<1> QED
  BY <1>1, <1>2 DEF Passed

LEMMA PassedStill ==
  ASSUME UNCHANGED progress, app = "register" <=> app' = "register"
  PROVE  Passed(FALSE)' = Passed(FALSE) /\ Passed(TRUE)' = Passed(TRUE)
<1>1. \A i \in 1..Len(connectors) : PassedOf(i)' = PassedOf(i)
  BY DEF PassedOf, HandlersOf, progress
<1> QED
  BY <1>1, SamePassed DEF progress

-------------------------------------------------------------------------------
(* The steps that register nothing. *)

LEMMA AutoConfigureRegisters == ASSUME TypeInv, RInv, AutoConfigure PROVE RInv'
<1>1. calls \in Nat /\ calls' = calls + 1
  BY ConfigurerAssumption DEF AutoConfigure, TypeInv, TypeOK
<1>2. /\ app \in {"idle", "done", "threw"} /\ app' = "read"
      /\ UNCHANGED <<connectors, made, index, pending, dcs, mts, dcMap, mtMap,
                     early, rtc, tracks, failed>>
  BY DEF AutoConfigure, progress, registry, maps, session
<1>3. Passed(FALSE)' = Passed(FALSE) /\ Passed(TRUE)' = Passed(TRUE)
  BY <1>2, PassedStill DEF progress
<1>4. Loop' /\ Registries' /\ OfSession'
  BY <1>2, <1>3 DEF RInv, Loop, Registries, OfSession, Started, HandlersOf
<1>5. FirstCall'
  <2>1. Calls'
    BY <1>1, <1>2 DEF RInv, FirstCall, Calls, Loop
  <2>2. MadeOnce'
    BY <1>1, <1>2 DEF RInv, FirstCall, MadeOnce, Calls, Preparing, Configuring,
       ToConfigure
  <2>3. Maps'
    <3>1. calls' <= 1 => app = "idle" /\ calls <= 1
      BY <1>1 DEF RInv, FirstCall, Calls
    <3> QED
      BY <1>2, <3>1 DEF RInv, FirstCall, Maps, Preparing, Configuring
  <2> QED
    BY <2>1, <2>2, <2>3 DEF FirstCall
<1> QED
  BY <1>4, <1>5 DEF RInv

LEMMA ReadConfigsRegisters == ASSUME TypeInv, RInv, ReadConfigs PROVE RInv'
  BY PassedStill DEF ReadConfigs, RInv, Loop, Registries, OfSession, FirstCall,
     Calls, MadeOnce, Maps, Preparing, Configuring, ToConfigure, Started, At,
     Return, HandlersOf, setting, progress, registry, maps, python, session

LEMMA ConnectedLogsRegisters == ASSUME TypeInv, RInv, ConnectedLogs PROVE RInv'
  BY PassedStill DEF ConnectedLogs, RInv, Loop, Registries, OfSession, FirstCall,
     Calls, MadeOnce, Maps, Preparing, Configuring, ToConfigure, Started, At,
     Return, HandlersOf, setting, progress, registry, maps, python, session

LEMMA CreateReturnsRegisters == ASSUME TypeInv, RInv, CreateReturns PROVE RInv'
  BY PassedStill DEF CreateReturns, RInv, Loop, Registries, OfSession, FirstCall,
     Calls, MadeOnce, Maps, Preparing, Configuring, ToConfigure, Started, At,
     Return, HandlersOf, setting, progress, registry, maps, python, session

LEMMA ConnectorsResolvedRegisters == ASSUME TypeInv, RInv, ConnectorsResolved PROVE RInv'
  BY PassedStill DEF ConnectorsResolved, RInv, Loop, Registries, OfSession,
     FirstCall, Calls, MadeOnce, Maps, Preparing, Configuring, ToConfigure,
     Started, At, Return, HandlersOf, setting, progress, registry, maps, python,
     session

LEMMA AfterConfigureRegisters == ASSUME TypeInv, RInv, AfterConfigure PROVE RInv'
  BY PassedStill DEF AfterConfigure, RInv, Loop, Registries, OfSession, FirstCall,
     Calls, MadeOnce, Maps, Preparing, Configuring, ToConfigure, Started, At,
     Return, HandlersOf, setting, progress, registry, maps, python, session

LEMMA CreateAllMediaTracksRegisters == ASSUME TypeInv, RInv, CreateAllMediaTracks PROVE RInv'
  BY PassedStill DEF CreateAllMediaTracks, RInv, Loop, Registries, OfSession,
     FirstCall, Calls, MadeOnce, Maps, Preparing, Configuring, ToConfigure,
     Started, At, Return, HandlersOf, setting, progress, registry, maps, python,
     session

LEMMA AddTrackRegisters == ASSUME TypeInv, RInv, AddTrack PROVE RInv'
  BY PassedStill DEF AddTrack, Session, Left, RInv, Loop, Registries, OfSession, FirstCall,
     Calls, MadeOnce, Maps, Preparing, Configuring, ToConfigure, Started, At,
     HandlersOf, setting, progress, registry, maps, python

LEMMA SkipTrackRegisters == ASSUME TypeInv, RInv, SkipTrack PROVE RInv'
  BY PassedStill DEF SkipTrack, Session, Left, RInv, Loop, Registries, OfSession, FirstCall,
     Calls, MadeOnce, Maps, Preparing, Configuring, ToConfigure, Started, At,
     HandlersOf, setting, progress, registry, maps, python

LEMMA StartThrowsRegisters == ASSUME TypeInv, RInv, StartThrows PROVE RInv'
  BY PassedStill DEF StartThrows, Session, Left, RInv, Loop, Registries, OfSession, FirstCall,
     Calls, MadeOnce, Maps, Preparing, Configuring, ToConfigure, Started, At,
     HandlersOf, setting, progress, registry, maps, python

LEMMA TracksAddedRegisters == ASSUME TypeInv, RInv, TracksAdded PROVE RInv'
  BY PassedStill DEF TracksAdded, Session, Left, RInv, Loop, Registries, OfSession, FirstCall,
     Calls, MadeOnce, Maps, Preparing, Configuring, ToConfigure, Started, At,
     HandlersOf, setting, progress, registry, maps, python

LEMMA OnDataChannelRegisters == ASSUME TypeInv, RInv, OnDataChannel PROVE RInv'
  BY PassedStill DEF OnDataChannel, Session, Left, RInv, Loop, Registries, OfSession, FirstCall,
     Calls, MadeOnce, Maps, Preparing, Configuring, ToConfigure, Started, At,
     HandlersOf, setting, progress, registry, maps, python

LEMMA HandlerFoundRegisters == ASSUME TypeInv, RInv, HandlerFound PROVE RInv'
  BY PassedStill DEF HandlerFound, Session, Left, RInv, Loop, Registries, OfSession, FirstCall,
     Calls, MadeOnce, Maps, Preparing, Configuring, ToConfigure, Started, At,
     HandlersOf, setting, progress, registry, maps, python

LEMMA CreateMosaicConnectorRegisters ==
  ASSUME TypeInv, RInv, CreateMosaicConnector PROVE RInv'
  BY DEF CreateMosaicConnector, NoSession, RInv, Loop, Registries, OfSession,
     FirstCall, Calls, MadeOnce, Maps, Preparing, Configuring, ToConfigure, Started, At, maps

LEMMA ResolveConnectorRegisters == ASSUME TypeInv, RInv, ResolveConnector PROVE RInv'
<1>1. app = "resolve" /\ app' \in {"resolve", "threw"} /\ early
      /\ UNCHANGED <<calls, dcs, mts, dcMap, mtMap, early, rtc, tracks,
                     failed>>
  BY DEF ResolveConnector, Return, At, RInv, Loop, registry, maps, session
<1>2. Loop' /\ Registries' /\ OfSession'
  BY <1>1 DEF RInv, Loop, Registries, OfSession, Started
<1>3. \A i \in 1..Len(connectors') : calls <= 1 => made'[i] = 0
  <2>1. \A i \in 1..Len(connectors) : calls <= 1 => made[i] = 0
    BY <1>1 DEF RInv, FirstCall, Calls, MadeOnce, Maps, Preparing, Configuring,
       ToConfigure
  <2>2. file.connectors[index] \in Confs
    BY DEF ResolveConnector, TypeInv, TypeOK
  <2>3. CASE connectors' = connectors /\ made' = made
    BY <2>1, <2>3
  <2>4. CASE /\ connectors' = Append(connectors, file.connectors[index])
             /\ made' = Append(made, 0)
    BY <2>1, <2>2, <2>4, Appended DEF TypeInv, TypeOK
  <2> QED
    BY <2>3, <2>4 DEF ResolveConnector
<1>4. FirstCall'
  <2>1. Calls'
    BY <1>1, <1>3 DEF RInv, FirstCall, Calls, Loop
  <2>2. MadeOnce'
    BY <1>1, <1>3 DEF RInv, FirstCall, MadeOnce, Calls, Preparing, Configuring,
       ToConfigure
  <2>3. Maps'
    BY <1>1, <1>3 DEF RInv, FirstCall, Maps, Calls, Preparing, Configuring
  <2> QED
    BY <2>1, <2>2, <2>3 DEF FirstCall
<1> QED
  BY <1>2, <1>4 DEF RInv

LEMMA BeforeConfigureRegisters == ASSUME TypeInv, RInv, BeforeConfigure PROVE RInv'
<1>1. app = "before" /\ app' = "configure" /\ early /\ index' = 1
      /\ UNCHANGED <<calls, dcs, mts, dcMap, mtMap, early, rtc, tracks,
                     failed>>
  BY DEF BeforeConfigure, At, RInv, Loop, registry, maps, session
<1>2. Passed(FALSE)' = {} /\ Passed(TRUE)' = {}
  <2>1. \A i \in 1..Len(connectors') : PassedOf(i)' = 0
    BY <1>1 DEF PassedOf
  <2> QED
    BY <2>1 DEF Passed
<1>3. Loop' /\ OfSession'
  BY <1>1 DEF RInv, Loop, OfSession, Started
<1>4. Registries'
  BY <1>1, <1>2, EmptyHolds DEF RInv, Registries
<1>5. \A i \in 1..Len(connectors') : calls <= 1 => made'[i] = 0
  <2>1. \A i \in 1..Len(connectors) : calls <= 1 => made[i] = 0
    BY <1>1 DEF RInv, FirstCall, Calls, MadeOnce, Maps, Preparing, Configuring,
       ToConfigure
  <2>2. \/ connectors' = connectors /\ made' = made
        \/ /\ \E c \in Confs : connectors' = Append(connectors, c)
           /\ made' = Append(made, 0)
    BY DEF BeforeConfigure
  <2>3. CASE connectors' = connectors /\ made' = made
    BY <2>1, <2>3
  <2>4. CASE \E c \in Confs : connectors' = Append(connectors, c)
    <3>1. made' = Append(made, 0)
      BY <2>2, <2>4, Appended DEF TypeInv, TypeOK
    <3> QED
      BY <2>1, <2>4, <3>1, Appended DEF TypeInv, TypeOK
  <2> QED
    BY <2>2, <2>3, <2>4
<1>6. FirstCall'
  <2>1. Calls'
    BY <1>1, <1>2, <1>5, EmptyHolds DEF RInv, FirstCall, Calls, Loop
  <2>2. MadeOnce'
    BY <1>1, <1>2, <1>5, EmptyHolds DEF RInv, FirstCall, MadeOnce, Calls,
       Preparing, Configuring, ToConfigure
  <2>3. Maps'
    BY <1>1, <1>2, <1>5, EmptyHolds DEF RInv, FirstCall, Maps, Calls, Preparing,
       Configuring
  <2> QED
    BY <2>1, <2>2, <2>3 DEF FirstCall
<1> QED
  BY <1>3, <1>4, <1>6 DEF RInv

LEMMA ConfigureConnectorRegisters == ASSUME TypeInv, RInv, ConfigureConnector PROVE RInv'
<1>1. /\ app = "configure" /\ early /\ index \in 1..Len(connectors)
      /\ made \in Seq(Nat) /\ Len(made) = Len(connectors)
      /\ UNCHANGED <<calls, connectors, dcs, mts, dcMap, mtMap, early, rtc, tracks,
                     failed>>
  BY DEF ConfigureConnector, At, RInv, Loop, registry, maps, session, TypeInv,
     TypeOK
<1>2. CASE connectors[index].configures = "ok"
  <2>1. /\ app' = "register" /\ index' = index
        /\ made' = [made EXCEPT ![index] = @ + 1]
        /\ pending' = Made(connectors[index], index, made[index] + 1)
    BY <1>2 DEF ConfigureConnector
  <2>2. made'[index] = made[index] + 1 /\ made[index] \in Nat
        /\ \A i \in 1..Len(connectors) : i # index => made'[i] = made[i]
    BY <1>1, <2>1
  <2>3. pending' = HandlersOf(index)'
    BY <1>1, <2>1, <2>2 DEF HandlersOf
  <2>4. Len(pending') \in Nat
    BY <1>1, <2>1, <2>2, MadeType DEF TypeInv, TypeOK
  <2>5. \A i \in 1..Len(connectors) :
          /\ PassedOf(i)' = PassedOf(i)
          /\ PassedOf(i) # 0 => made'[i] = made[i]
    <3> SUFFICES ASSUME NEW i \in 1..Len(connectors)
                 PROVE  /\ PassedOf(i)' = PassedOf(i)
                        /\ PassedOf(i) # 0 => made'[i] = made[i]
      OBVIOUS
    <3>1. CASE i = index
      BY <1>1, <2>1, <2>3, <2>4, <3>1 DEF PassedOf
    <3>2. CASE i # index
      BY <1>1, <2>1, <2>2, <3>2 DEF PassedOf, HandlersOf
    <3> QED
      BY <3>1, <3>2
  <2>6. Passed(FALSE)' = Passed(FALSE) /\ Passed(TRUE)' = Passed(TRUE)
    <3>1. connectors' = connectors
      BY <1>1
    <3> QED
      BY <3>1, <2>5, SamePassed
  <2>7. Loop'
    <3>1. \A i \in 1..Len(connectors) :
            i < index /\ connectors[i].configures = "ok" => made'[i] > 0
      BY <1>1, <2>2 DEF RInv, Loop, Started
    <3>2. /\ Len(pending') <= Len(HandlersOf(index)')
          /\ \A m \in 1..Len(pending') :
               pending'[m] = (HandlersOf(index)')[Len(HandlersOf(index)') - Len(pending') + m]
      BY <2>3, <2>4
    <3>3. /\ app' = "register" /\ early' = early /\ early /\ index' = index
          /\ connectors' = connectors /\ index <= Len(connectors)
          /\ made'[index] > 0
      BY <1>1, <2>1, <2>2
    <3> QED
      BY <1>2, <3>1, <3>2, <3>3 DEF Loop, Started
  <2>8. Registries' /\ OfSession'
    BY <1>1, <2>1, <2>6 DEF RInv, Registries, OfSession, Started
  <2>9. FirstCall'
    <3>1. Calls'
      BY <1>1, <2>1, <2>2, <2>6 DEF RInv, FirstCall, Calls, Loop
    <3>2. MadeOnce'
      BY <1>1, <2>1, <2>2, <2>6 DEF RInv, FirstCall, MadeOnce, Calls, Preparing,
         Configuring, ToConfigure
    <3>3. Maps'
      BY <1>1, <2>1, <2>2, <2>6 DEF RInv, FirstCall, Maps, Calls, Preparing, Configuring
    <3> QED
      BY <3>1, <3>2, <3>3 DEF FirstCall
  <2> QED
    BY <2>7, <2>8, <2>9 DEF RInv
<1>3. CASE connectors[index].configures # "ok"
  <2>1. /\ app' \in {"configure", "threw"} /\ UNCHANGED made
        /\ app' = "configure" => index' \in {index, index + 1}
        /\ app' = "threw" => index' = index
    BY <1>1, <1>3 DEF ConfigureConnector, Return
  <2>2. \A i \in 1..Len(connectors) : PassedOf(i)' = PassedOf(i)
    BY <1>1, <1>3, <2>1 DEF PassedOf, HandlersOf
  <2>3. Passed(FALSE)' = Passed(FALSE) /\ Passed(TRUE)' = Passed(TRUE)
    BY <1>1, <2>1, <2>2, SamePassed
  <2>4. Loop'
    BY <1>1, <1>3, <2>1 DEF RInv, Loop, Started
  <2>5. Registries' /\ OfSession'
    BY <1>1, <2>1, <2>3 DEF RInv, Registries, OfSession, Started
  <2>6. FirstCall'
    <3>1. Calls'
      BY <1>1, <2>1, <2>3 DEF RInv, FirstCall, Calls, Loop
    <3>2. MadeOnce'
      BY <1>1, <2>1, <2>3 DEF RInv, FirstCall, MadeOnce, Calls, Preparing,
         Configuring, ToConfigure
    <3>3. Maps'
      BY <1>1, <2>1, <2>3 DEF RInv, FirstCall, Maps, Calls, Preparing, Configuring
    <3> QED
      BY <3>1, <3>2, <3>3 DEF FirstCall
  <2> QED
    BY <2>4, <2>5, <2>6 DEF RInv
<1> QED
  BY <1>2, <1>3

LEMMA NextConnectorRegisters == ASSUME TypeInv, RInv, NextConnector PROVE RInv'
<1>1. /\ app = "register" /\ app' = "configure" /\ early /\ index' = index + 1
      /\ index \in 1..Len(connectors) /\ pending = <<>>
      /\ connectors[index].configures = "ok" /\ made[index] > 0
      /\ UNCHANGED <<calls, connectors, made, dcs, mts, dcMap, mtMap, early, rtc,
                     tracks, failed>>
  BY DEF NextConnector, At, RInv, Loop, registry, maps, session, TypeInv, TypeOK
<1>2. Len(HandlersOf(index)) \in Nat
  BY <1>1, MadeType DEF HandlersOf, TypeInv, TypeOK
<1>3. \A i \in 1..Len(connectors) : PassedOf(i)' = PassedOf(i)
  BY <1>1, <1>2 DEF PassedOf, HandlersOf
<1>4. Passed(FALSE)' = Passed(FALSE) /\ Passed(TRUE)' = Passed(TRUE)
  BY <1>1, <1>3, SamePassed
<1>5. Loop'
  BY <1>1 DEF RInv, Loop, Started
<1>6. Registries' /\ OfSession'
  BY <1>1, <1>4 DEF RInv, Registries, OfSession, Started
<1>7. FirstCall'
  <2>1. Calls'
    BY <1>1, <1>4 DEF RInv, FirstCall, Calls, Loop
  <2>2. MadeOnce'
    BY <1>1, <1>4 DEF RInv, FirstCall, MadeOnce, Calls, Preparing, Configuring,
       ToConfigure
  <2>3. Maps'
    BY <1>1, <1>4 DEF RInv, FirstCall, Maps, Calls, Preparing, Configuring
  <2> QED
    BY <2>1, <2>2, <2>3 DEF FirstCall
<1> QED
  BY <1>5, <1>6, <1>7 DEF RInv

-------------------------------------------------------------------------------
(* A handler is registered. *)

\* Where RegisterHandler is: the entry that is passed, after all of those passed.
LEMMA NextEntry ==
  ASSUME TypeInv, RInv, app = "register", pending # <<>>
  PROVE  LET p == Entry(index, PassedOf(index) + 1) IN
         /\ Head(pending).label = p.label /\ Head(pending).handler = p.handler
         /\ index \in 1..Len(connectors)
         /\ Len(HandlersOf(index)) \in Nat /\ Len(pending) \in Nat \ {0}
         /\ PassedOf(index) = Len(HandlersOf(index)) - Len(pending)
         /\ PassedOf(index) \in Nat
         /\ p.connector = index /\ p.position = PassedOf(index) + 1
         /\ \A q \in Passed(TRUE) \union Passed(FALSE) : Before(q, p)
<1> DEFINE p == Entry(index, PassedOf(index) + 1)
<1>1. /\ index \in 1..Len(connectors) /\ connectors[index].configures = "ok"
      /\ made[index] \in Nat \ {0} /\ Len(pending) <= Len(HandlersOf(index))
      /\ \A m \in 1..Len(pending) :
           pending[m] = HandlersOf(index)[Len(HandlersOf(index)) - Len(pending) + m]
  BY DEF RInv, Loop, TypeInv, TypeOK
<1>2. HandlersOf(index) \in Seq(HandlerRecords)
  <2>1. connectors[index] \in Confs /\ index \in Nat
    BY <1>1 DEF TypeInv, TypeOK
  <2> QED
    BY <1>1, <2>1, MadeType DEF HandlersOf
<1>3. Len(HandlersOf(index)) \in Nat /\ Len(pending) \in Nat \ {0}
  BY <1>2 DEF TypeInv, TypeOK
<1>4. PassedOf(index) = Len(HandlersOf(index)) - Len(pending)
  BY <1>1 DEF PassedOf
<1>5. Head(pending) = HandlersOf(index)[PassedOf(index) + 1]
  <2>1. Head(pending) = pending[1]
    BY <1>3 DEF TypeInv, TypeOK
  <2>2. pending[1] = HandlersOf(index)[Len(HandlersOf(index)) - Len(pending) + 1]
    BY <1>1, <1>3
  <2> QED
    BY <2>1, <2>2, <1>4
<1>6. /\ Head(pending).label = p.label /\ Head(pending).handler = p.handler
      /\ p.connector = index /\ p.position = PassedOf(index) + 1
  BY <1>5 DEF Entry
<1>7. ASSUME NEW q \in Passed(TRUE) \union Passed(FALSE)
      PROVE  Before(q, p)
  <2>0. PICK i \in 1..Len(connectors) : \E j \in 1..PassedOf(i) : q = Entry(i, j)
    BY IsPassed
  <2>1. PICK j \in 1..PassedOf(i) : q = Entry(i, j)
    BY <2>0
  <2>2. q.connector = i /\ q.position = j
    BY <2>1 DEF Entry
  <2>3. i <= index
    BY <1>1, <2>1 DEF PassedOf, TypeInv, TypeOK
  <2> QED
    BY <1>1, <1>3, <1>4, <1>6, <2>1, <2>2, <2>3 DEF Before
<1>8. PassedOf(index) \in Nat
  BY <1>1, <1>3, <1>4
<1> QED
  BY <1>1, <1>3, <1>4, <1>6, <1>7, <1>8

LEMMA RegisterHandlerRegisters == ASSUME TypeInv, RInv, RegisterHandler PROVE RInv'
<1>1. /\ app = "register" /\ app' = "register" /\ early /\ pending # <<>>
      /\ UNCHANGED <<calls, connectors, made, index, early, rtc, tracks, failed>>
  BY DEF RegisterHandler, At, RInv, Loop, session
<1>2. CASE ~created
  <2>1. UNCHANGED <<pending, dcs, mts, dcMap, mtMap>>
    BY <1>2 DEF RegisterHandler, registry, maps
  <2>2. Passed(FALSE)' = Passed(FALSE) /\ Passed(TRUE)' = Passed(TRUE)
    BY <1>1, <2>1, PassedStill DEF progress
  <2> QED
    BY <1>1, <2>1, <2>2 DEF RInv, Loop, Registries, OfSession, FirstCall, Calls,
       MadeOnce, Maps, Preparing, Configuring, ToConfigure, Started, HandlersOf
<1>3. CASE created
  <2> DEFINE h == Head(pending)
             p == Entry(index, PassedOf(index) + 1)
             track == connectors[index].kind = "mt"
  <2>1. /\ pending' = Tail(pending)
        /\ track => /\ mts' = Added(mts, h) /\ mtMap' = Mapped(mtMap, h)
                    /\ dcs' = dcs /\ dcMap' = dcMap
        /\ ~track => /\ dcs' = Added(dcs, h) /\ dcMap' = Mapped(dcMap, h)
                     /\ mts' = mts /\ mtMap' = mtMap
    BY <1>3 DEF RegisterHandler
  <2>2. /\ h.label = p.label /\ h.handler = p.handler
        /\ index \in 1..Len(connectors)
        /\ Len(HandlersOf(index)) \in Nat /\ Len(pending) \in Nat \ {0}
        /\ PassedOf(index) = Len(HandlersOf(index)) - Len(pending)
        /\ PassedOf(index) \in Nat
        /\ p.connector = index /\ p.position = PassedOf(index) + 1
        /\ \A q \in Passed(TRUE) \union Passed(FALSE) : Before(q, p)
    BY <1>1, NextEntry
  <2>3. p.position \in Nat
    BY <2>2
  <2>4. /\ Len(pending') = Len(pending) - 1
        /\ \A m \in 1..Len(pending') : pending'[m] = pending[m + 1]
    BY <1>1, <2>1, HeadTailProperties DEF TypeInv, TypeOK
  <2>5. HandlersOf(index)' = HandlersOf(index)
    BY <1>1 DEF HandlersOf
  <2>6. \A i \in 1..Len(connectors) :
          PassedOf(i)' = IF i = index THEN PassedOf(i) + 1 ELSE PassedOf(i)
    <3>1. connectors[index].configures = "ok"
      BY <1>1 DEF RInv, Loop
    <3> QED
      BY <1>1, <2>2, <2>4, <3>1 DEF PassedOf, HandlersOf
  <2>7. /\ track => Passed(TRUE)' = Passed(TRUE) \union {p} /\ Passed(FALSE)' = Passed(FALSE)
        /\ ~track => Passed(FALSE)' = Passed(FALSE) \union {p} /\ Passed(TRUE)' = Passed(TRUE)
    <3>1. \A i \in 1..Len(connectors) : \A j : Entry(i, j)' = Entry(i, j)
      BY <1>1 DEF Entry, HandlersOf
    <3>2. ASSUME NEW q
          PROVE  /\ q \in Passed(TRUE)' <=>
                      \E i \in 1..Len(connectors) :
                        /\ connectors[i].kind = "mt"
                        /\ \E j \in 1..PassedOf(i)' : q = Entry(i, j)
                 /\ q \in Passed(FALSE)' <=>
                      \E i \in 1..Len(connectors) :
                        /\ connectors[i].kind # "mt"
                        /\ \E j \in 1..PassedOf(i)' : q = Entry(i, j)
      BY <1>1, <3>1 DEF Passed, IsTrack
    <3>3. ASSUME NEW i \in 1..Len(connectors), NEW q
          PROVE  (\E j \in 1..PassedOf(i)' : q = Entry(i, j)) <=>
                   \/ \E j \in 1..PassedOf(i) : q = Entry(i, j)
                   \/ i = index /\ q = p
      <4>1. CASE i = index
        <5>1. 1..PassedOf(i)' = 1..PassedOf(i) \union {PassedOf(i) + 1}
          BY <2>2, <2>6, <4>1
        <5> QED
          BY <4>1, <5>1
      <4>2. CASE i # index
        BY <2>6, <4>2
      <4> QED
        BY <4>1, <4>2
    <3>4. ASSUME NEW q
          PROVE  /\ q \in Passed(TRUE)' <=> q \in Passed(TRUE) \/ (track /\ q = p)
                 /\ q \in Passed(FALSE)' <=> q \in Passed(FALSE) \/ (~track /\ q = p)
      <4> DEFINE Was(i) == \E j \in 1..PassedOf(i) : q = Entry(i, j)
                 Is(i) == \E j \in 1..PassedOf(i)' : q = Entry(i, j)
                 I == 1..Len(connectors)
                 Mt(i) == connectors[i].kind = "mt"
      <4>1. \A i \in I : Is(i) <=> Was(i) \/ (i = index /\ q = p)
        BY <3>3
      <4>2. /\ q \in Passed(TRUE)' <=> \E i \in I : Mt(i) /\ Is(i)
            /\ q \in Passed(FALSE)' <=> \E i \in I : ~Mt(i) /\ Is(i)
        BY <3>2
      <4>3. /\ q \in Passed(TRUE) <=> \E i \in I : Mt(i) /\ Was(i)
            /\ q \in Passed(FALSE) <=> \E i \in I : ~Mt(i) /\ Was(i)
        BY IsPassed
      <4>4. index \in I /\ (track <=> Mt(index))
        BY <2>2
      <4> HIDE DEF Was, Is, I, Mt, p, track
      <4> QED
        BY <4>1, <4>2, <4>3, <4>4
    <3> HIDE DEF p, track
    <3> QED
      BY <3>4
  <2>8. Loop'
    BY <1>1, <2>2, <2>4, <2>5 DEF RInv, Loop, Started
  <2>9. Registries'
    <3>1. HoldsFirst(dcs, Passed(FALSE)) /\ HoldsFirst(mts, Passed(TRUE))
      BY <1>1 DEF RInv, Registries, Started
    <3>2. CASE track
      <4>1. HoldsFirst(Added(mts, h), Passed(TRUE) \union {p})
        BY <2>2, <2>3, <3>1, AddedFirst
      <4> QED
        BY <1>1, <2>1, <2>7, <3>1, <3>2, <4>1 DEF Registries
    <3>3. CASE ~track
      <4>1. HoldsFirst(Added(dcs, h), Passed(FALSE) \union {p})
        BY <2>2, <2>3, <3>1, AddedFirst
      <4> QED
        BY <1>1, <2>1, <2>7, <3>1, <3>3, <4>1 DEF Registries
    <3> QED
      BY <3>2, <3>3
  <2>10. OfSession' /\ Calls' /\ MadeOnce'
    BY <1>1 DEF RInv, OfSession, FirstCall, Calls, MadeOnce, ToConfigure,
       Preparing, Configuring
  <2>11. Maps'
    <3> SUFFICES ASSUME calls <= 1
                 PROVE  HoldsSome(dcMap', Passed(FALSE)') /\ HoldsSome(mtMap', Passed(TRUE)')
      BY <1>1 DEF Maps, Preparing
    <3>1. HoldsSome(dcMap, Passed(FALSE)) /\ HoldsSome(mtMap, Passed(TRUE))
      BY <1>1 DEF RInv, FirstCall, Maps, Configuring
    <3>2. CASE track
      <4>1. HoldsSome(Mapped(mtMap, h), Passed(TRUE) \union {p})
        BY <2>2, <3>1, MappedSome
      <4> QED
        BY <2>1, <2>7, <3>1, <3>2, <4>1
    <3>3. CASE ~track
      <4>1. HoldsSome(Mapped(dcMap, h), Passed(FALSE) \union {p})
        BY <2>2, <3>1, MappedSome
      <4> QED
        BY <2>1, <2>7, <3>1, <3>3, <4>1
    <3> QED
      BY <3>2, <3>3
  <2> QED
    BY <2>8, <2>9, <2>10, <2>11 DEF RInv, FirstCall
<1> QED
  BY <1>2, <1>3

-------------------------------------------------------------------------------
(* What the invariant says of a configuration that is complete. *)

LEMMA LeastIs ==
  ASSUME NEW S, S \subseteq Nat, NEW i \in S, \A j \in S : i <= j
  PROVE  Least(S) = i
<1> DEFINE m == Least(S)
<1>1. m \in S /\ \A j \in S : m <= j
  BY DEF Least
<1>2. m <= i /\ i <= m /\ m \in Nat /\ i \in Nat
  BY <1>1
<1>3. m = i
  <2> HIDE DEF m
  <2> QED
    BY <1>2
<1> QED
  BY <1>3

\* Every handler of the connectors that were configured has been passed.
LEMMA AllPassed ==
  ASSUME TypeInv, RInv, index > Len(connectors), Started, app # "register",
         NEW track, NEW p
  PROVE  p \in Passed(track) <=>
           \E i \in Configured : /\ IsTrack(i) = track
                                 /\ \E j \in 1..Len(HandlersOf(i)) : p = Entry(i, j)
<1>1. \A i \in 1..Len(connectors) :
        PassedOf(i) = IF i \in Configured THEN Len(HandlersOf(i)) ELSE 0
  BY DEF PassedOf, Configured, RInv, Loop, TypeInv, TypeOK
<1>2. Configured \subseteq 1..Len(connectors)
  BY DEF Configured
<1> QED
  BY <1>1, <1>2 DEF Passed

\* A registry that holds what has been passed has under each label the first
\* handler of it.
LEMMA HoldsAll ==
  ASSUME TypeInv, RInv, index > Len(connectors), Started, app # "register",
         NEW track, NEW f, HoldsFirst(f, Passed(track))
  PROVE  f = [l \in LabelsOf(track) |-> FirstHandler(l, track)]
<1>1. DOMAIN f = LabelsOf(track)
  <2>1. \A l : l \in LabelsOf(track) <=>
          \E i \in Configured : /\ IsTrack(i) = track
                                /\ \E j \in 1..Len(HandlersOf(i)) :
                                     l = HandlersOf(i)[j].label
    BY DEF LabelsOf
  <2>2. \A l : l \in DOMAIN f <=> \E p \in Passed(track) : p.label = l
    BY DEF HoldsFirst
  <2>3. ASSUME NEW l, l \in DOMAIN f
        PROVE  l \in LabelsOf(track)
    BY <2>1, <2>2, <2>3, AllPassed DEF Entry
  <2>4. ASSUME NEW l, l \in LabelsOf(track)
        PROVE  l \in DOMAIN f
    <3>1. PICK i \in Configured :
            /\ IsTrack(i) = track
            /\ \E j \in 1..Len(HandlersOf(i)) : l = HandlersOf(i)[j].label
      BY <2>1, <2>4
    <3>2. PICK j \in 1..Len(HandlersOf(i)) : l = HandlersOf(i)[j].label
      BY <3>1
    <3>3. Entry(i, j) \in Passed(track) /\ Entry(i, j).label = l
      BY <3>1, <3>2, AllPassed DEF Entry
    <3> QED
      BY <2>2, <3>3
  <2> QED
    BY <2>3, <2>4
<1>2. ASSUME NEW l \in DOMAIN f
      PROVE  f[l] = FirstHandler(l, track)
  <2>1. PICK p \in Passed(track) :
          /\ p.label = l /\ f[l] = p.handler
          /\ \A q \in Passed(track) : q.label = l => Before(p, q)
    BY DEF HoldsFirst
  <2>2. PICK i \in Configured :
          /\ IsTrack(i) = track
          /\ \E j \in 1..Len(HandlersOf(i)) : p = Entry(i, j)
    BY AllPassed
  <2>3. PICK j \in 1..Len(HandlersOf(i)) : p = Entry(i, j)
    BY <2>2
  <2>4. ASSUME NEW k \in Configured, IsTrack(k) = track,
               NEW m \in 1..Len(HandlersOf(k)), HandlersOf(k)[m].label = l
        PROVE  i < k \/ (i = k /\ j <= m)
    <3>1. Entry(k, m) \in Passed(track)
      BY <2>4, AllPassed
    <3>2. Entry(k, m).label = l
      BY <2>4 DEF Entry
    <3>3. Before(p, Entry(k, m))
      BY <2>1, <3>1, <3>2
    <3> QED
      BY <2>3, <3>3 DEF Before, Entry
  <2>5. HandlersOf(i)[j].label = l /\ f[l] = HandlersOf(i)[j].handler
    BY <2>1, <2>3 DEF Entry
  <2>6. i \in Nat /\ j \in Nat /\ Configured \subseteq Nat
    BY DEF Configured, TypeInv, TypeOK
  <2>7. Least(Owners(l, track)) = i
    <3>1. i \in Owners(l, track)
      BY <2>2, <2>5 DEF Owners, Of
    <3>2. ASSUME NEW k \in Owners(l, track)
          PROVE  i <= k
      BY <2>4, <2>6 DEF Owners, Of
    <3>3. Owners(l, track) \subseteq Nat
      BY <2>6 DEF Owners
    <3> QED
      BY <3>1, <3>2, <3>3, LeastIs
  <2>8. Least(Of(i, l)) = j
    <3>1. j \in Of(i, l)
      BY <2>5 DEF Of
    <3>2. ASSUME NEW m \in Of(i, l)
          PROVE  j <= m
      BY <2>2, <2>4, <2>6 DEF Of
    <3>3. Of(i, l) \subseteq Nat
      BY DEF Of
    <3> QED
      BY <3>1, <3>2, <3>3, LeastIs
  <2> QED
    BY <2>5, <2>7, <2>8 DEF FirstHandler
<1>3. f = [l \in DOMAIN f |-> f[l]]
  BY DEF HoldsFirst
<1> QED
  BY <1>1, <1>2, <1>3

\* A connector that was configured once has no two handlers of one label.
LEMMA DistinctLabels ==
  ASSUME NEW c \in Confs, NEW i \in Nat,
         NEW a \in 1..Len(Made(c, i, 1)), NEW b \in 1..Len(Made(c, i, 1)),
         Made(c, i, 1)[a].label = Made(c, i, 1)[b].label
  PROVE  a = b
<1> DEFINE h == Made(c, i, 1)
<1>1. CASE c.kind \in {"dc", "mt"}
  <2>1. Len(h) = 1
    BY <1>1 DEF Made, SetHandler
  <2> QED
    BY <2>1
<1>2. CASE c.kind \in {"multi", "pymulti"}
  <2>1. Len(h) = 2 /\ h[1].label = <<c.label, "receiver">>
        /\ h[2].label = <<c.label, "sender">>
    <3>1. CASE c.kind = "pymulti"
      BY <3>1 DEF Made, SetHandlers, Pair, Handler
    <3>2. CASE c.kind = "multi"
      <4>1. h = [j \in 1..2 |-> Pair(i, (j + 1) \div 2, c.label)[2 - (j % 2)]]
        BY <3>2 DEF Made, PushHandlers
      <4>2. h[1] = Pair(i, 1, c.label)[1] /\ h[2] = Pair(i, 1, c.label)[2] /\ Len(h) = 2
        BY <4>1
      <4> QED
        BY <4>2 DEF Pair, Handler
    <3> QED
      BY <1>2, <3>1, <3>2
  <2>2. <<c.label, "receiver">> # <<c.label, "sender">>
    OBVIOUS
  <2> QED
    BY <2>1, <2>2
<1>3. CASE c.kind \notin {"dc", "mt", "multi", "pymulti"}
  BY <1>3 DEF Made
<1> QED
  BY <1>1, <1>2, <1>3

\* After the first call a map differs from the registry only for two owners.
LEMMA MapsAgree ==
  ASSUME TypeInv, RInv, index > Len(connectors), Started, app # "register",
         calls = 1, NEW track, NEW f, HoldsFirst(f, Passed(track)),
         NEW m, HoldsSome(m, Passed(track)), NEW l \in DOMAIN m
  PROVE  \/ l \in DOMAIN f /\ m[l] = f[l]
         \/ \E i, j \in Owners(l, track) : i # j
<1>1. l \in DOMAIN f
  BY DEF HoldsFirst, HoldsSome
<1>2. PICK p \in Passed(track) : p.label = l /\ m[l] = p.handler
  BY DEF HoldsSome
<1>3. PICK q \in Passed(track) : q.label = l /\ f[l] = q.handler
  BY <1>1 DEF HoldsFirst
<1>4. PICK i \in Configured : IsTrack(i) = track /\ \E a \in 1..Len(HandlersOf(i)) : p = Entry(i, a)
  BY AllPassed
<1>5. PICK a \in 1..Len(HandlersOf(i)) : p = Entry(i, a)
  BY <1>4
<1>6. PICK k \in Configured : IsTrack(k) = track /\ \E b \in 1..Len(HandlersOf(k)) : q = Entry(k, b)
  BY AllPassed
<1>7. PICK b \in 1..Len(HandlersOf(k)) : q = Entry(k, b)
  BY <1>6
<1>8. /\ HandlersOf(i)[a].label = l /\ HandlersOf(i)[a].handler = m[l]
      /\ HandlersOf(k)[b].label = l /\ HandlersOf(k)[b].handler = f[l]
  BY <1>2, <1>3, <1>5, <1>7 DEF Entry
<1>9. CASE i # k
  <2>1. i \in Owners(l, track) /\ k \in Owners(l, track)
    BY <1>4, <1>6, <1>8 DEF Owners, Of
  <2> QED
    BY <1>9, <2>1
<1>10. CASE i = k
  <2>1. made[i] = 1 /\ connectors[i] \in Confs /\ i \in Nat
    BY DEF Configured, RInv, FirstCall, MadeOnce, TypeInv, TypeOK
  <2>2. a = b
    BY <1>8, <1>10, <2>1, DistinctLabels DEF HandlersOf
  <2> QED
    BY <1>1, <1>8, <1>10, <2>2
<1> QED
  BY <1>9, <1>10

-------------------------------------------------------------------------------
(* The theorems. *)

LEMMA RegistriesInit == ASSUME Init PROVE RInv
<1>1. /\ app = "idle" /\ calls = 0 /\ early = TRUE /\ Len(connectors) = 0
      /\ dcMap = Empty /\ mtMap = Empty
  BY DEF Init
<1> QED
  BY <1>1 DEF RInv, Loop, Registries, OfSession, FirstCall, Calls, MadeOnce, Maps,
     Preparing, Configuring, Started

LEMMA RegistriesStutter == ASSUME TypeInv, RInv, UNCHANGED vars PROVE RInv'
<1>1. UNCHANGED <<app, calls, connectors, made, index, pending, dcs, mts, dcMap,
                  mtMap, early, rtc, tracks,
                     failed>>
  BY DEF vars, progress, registry, maps, session
<1>2. Passed(FALSE)' = Passed(FALSE) /\ Passed(TRUE)' = Passed(TRUE)
  BY <1>1, PassedStill DEF progress
<1> QED
  BY <1>1, <1>2 DEF RInv, Loop, Registries, OfSession, FirstCall, Calls, MadeOnce,
     Maps, Preparing, Configuring, ToConfigure, Started, HandlersOf

\* Throughout a call the registries hold the first handler of every label that
\* has been passed so far, and the loop is where it says.
THEOREM RegistriesInvariant == Spec => []RInv
<1>1. Init => RInv
  BY RegistriesInit
<1>2. TypeInv /\ RInv /\ [Next]_vars => RInv'
  <2> SUFFICES ASSUME TypeInv, RInv, [Next]_vars
               PROVE  RInv'
    OBVIOUS
  <2>1. CASE App
    BY <2>1, ReadConfigsRegisters, CreateMosaicConnectorRegisters,
       CreateReturnsRegisters,
       ResolveConnectorRegisters, ConnectorsResolvedRegisters, BeforeConfigureRegisters,
       ConfigureConnectorRegisters, RegisterHandlerRegisters, NextConnectorRegisters,
       AfterConfigureRegisters DEF App
  <2>2. CASE AutoConfigure \/ ConnectedLogs
    BY <2>2, AutoConfigureRegisters, ConnectedLogsRegisters
  <2>3. CASE WebRtc
    BY <2>3, CreateAllMediaTracksRegisters, AddTrackRegisters, SkipTrackRegisters,
       StartThrowsRegisters, TracksAddedRegisters, OnDataChannelRegisters, HandlerFoundRegisters DEF WebRtc
  <2>4. CASE Rests \/ UNCHANGED vars
    BY <2>4, RegistriesStutter DEF Rests
  <2> QED
    BY <2>1, <2>2, <2>3, <2>4 DEF Next
<1> QED
  BY <1>1, <1>2, TypesInvariant, PTL DEF Spec

\* When auto_configure returns, the MosaicConnector knows the labels of the
\* connectors that were configured, each with the first handler of that label.
THEOREM FirstRegistered == Spec => []RegistersFirst
<1>1. TypeInv /\ RInv => RegistersFirst
  <2> SUFFICES ASSUME TypeInv, RInv, app = "done"
               PROVE  RegistersFirst
    BY DEF RegistersFirst
  <2>1. /\ index > Len(connectors) /\ Started
        /\ HoldsFirst(dcs, Passed(FALSE)) /\ HoldsFirst(mts, Passed(TRUE))
    BY DEF RInv, Loop, Registries, Started
  <2>2. /\ dcs = [l \in LabelsOf(FALSE) |-> FirstHandler(l, FALSE)]
        /\ mts = [l \in LabelsOf(TRUE) |-> FirstHandler(l, TRUE)]
    BY <2>1, HoldsAll
  <2>3. ASSUME calls = 1
        PROVE  HoldsSome(dcMap, Passed(FALSE)) /\ HoldsSome(mtMap, Passed(TRUE))
    <3>1. calls <= 1
      BY <2>3
    <3> QED
      BY <3>1 DEF RInv, FirstCall, Maps, Configuring
  <2>4. ASSUME calls = 1, NEW l \in DOMAIN dcMap
        PROVE  \/ l \in DOMAIN dcs /\ dcMap[l] = dcs[l]
               \/ \E i, j \in Owners(l, FALSE) : i # j
    BY <2>1, <2>3, <2>4, MapsAgree
  <2>5. ASSUME calls = 1, NEW l \in DOMAIN mtMap
        PROVE  \/ l \in DOMAIN mts /\ mtMap[l] = mts[l]
               \/ \E i, j \in Owners(l, TRUE) : i # j
    BY <2>1, <2>3, <2>5, MapsAgree
  <2> QED
    BY <2>2, <2>4, <2>5 DEF RegistersFirst
<1> QED
  BY <1>1, TypesInvariant, RegistriesInvariant, PTL

\* A session that was offered after auto_configure had returned has the track of
\* every media connector that was configured, but for those that failed
\* themselves.
THEOREM AllTracks == Spec => []SessionHasAllTracks
<1>1. TypeInv /\ RInv => SessionHasAllTracks
  <2> SUFFICES ASSUME TypeInv, RInv, ~early, rtc \in {"up", "find"}
               PROVE  tracks = LabelsOf(TRUE) \ failed
    BY DEF SessionHasAllTracks
  <2>1. /\ index > Len(connectors) /\ Started /\ app # "register"
        /\ HoldsFirst(mts, Passed(TRUE))
    BY DEF RInv, Loop, Registries, Started
  <2>2. tracks = DOMAIN mts \ failed
    BY DEF RInv, OfSession
  <2>3. DOMAIN mts = LabelsOf(TRUE)
    <3>1. mts = [l \in LabelsOf(TRUE) |-> FirstHandler(l, TRUE)]
      BY <2>1, HoldsAll
    <3> QED
      BY <3>1
  <2> QED
    BY <2>2, <2>3
<1> QED
  BY <1>1, TypesInvariant, RegistriesInvariant, PTL

===============================================================================
