------------------------- MODULE DataChannelReceiver -------------------------
(***************************************************************************)
(* The receiving half of one data channel handler: the observer that a     *)
(* channel is given, the conversion of a message and its handling in C++   *)
(* (the connection check, which sends it back on a channel of its sender)  *)
(* or in Python.                                                           *)
(*                                                                         *)
(* Messages and state changes come on WebRTC's network thread, new         *)
(* channels on its signaling thread.  A handler written in Python needs    *)
(* the interpreter lock (GIL), which a Python thread may hold while it     *)
(* waits for the network thread.  A channel keeps messages until it has an *)
(* observer.                                                               *)
(***************************************************************************)
EXTENDS Naturals, Sequences

CONSTANTS
    ToPython(_),  \* the JSON binding: a JSON value as a Python object
    ToJson(_),    \* the JSON binding: a Python object as a JSON value
    Raises,       \* in place of a value: the conversion ended in an exception
    Types,        \* the types of handler: a subset of HandlerTypes
    Messages,     \* per type: messages, if binary, if UTF-8, their JSON value
    NotJson,      \* the value of a message that is not JSON
    MaxMessages,  \* bound: messages of one behaviour
    MaxChannels   \* bound: channels with the handler's label

HandlerTypes == {"connection-check", "string", "json", "bytes"}

ASSUME ReceiverAssumption ==
    /\ Types \subseteq HandlerTypes
    /\ \A t \in Types : \A m \in Messages[t] : {m.binary, m.utf8} \subseteq BOOLEAN
    /\ MaxMessages \in Nat /\ MaxChannels \in Nat

VARIABLES
    type,       \* the type of the handler
    dc,         \* dc_interface_: a channel, 0 for nullptr
    observer,   \* observer_: the registration it was made for, 0 for nullptr
    made,       \* observers made so far
    state,      \* per channel: "none", "open", "closing", "closed"
    heardBy,    \* per channel: the observer registered with it, 0 for none
    announced,  \* channels WebRTC has still to announce to OnDataChannel
    signal,     \* signaling thread: a channel it registers an observer with, 0
    wire,       \* per channel: messages that arrived, not yet delivered
    net,        \* network thread: "idle", "gil" (waits for it), "python"
    current,    \* the channel and the number of the message it handles
    gil,        \* the interpreter lock: "free", "net" or "py"
    py,         \* a Python thread: "away", "runs", "waits" (blocking call)
    content,    \* the messages that were sent, by number
    log,        \* what became of each: channel, number, outcome
    back,       \* what was sent back: the number, and the message or the value
    reopened,   \* the peer opened a channel before the last one was closed
    fault       \* "none", "freed": a call went to an observer that was freed,
                \* "threw": an exception went into WebRTC

channels == <<dc, observer, made, state, heardBy, announced, signal>>
python == <<gil, py>>
ghosts == <<log, back>>
vars == <<type, channels, wire, net, current, python, content, ghosts, reopened,
          fault>>

Channels == 1..MaxChannels
Nobody == <<0, 0>>

ChannelTypes ==
    /\ dc \in 0..MaxChannels /\ observer \in 0..made /\ made \in 0..MaxChannels
    /\ state \in [Channels -> {"none", "open", "closing", "closed"}]
    /\ heardBy \in [Channels -> 0..made]
    /\ announced \in Seq(Channels) /\ signal \in 0..MaxChannels

Outcomes == {"handled", "unsent", "dropped", "raised"}
Numbers == 1..Len(content)

MessageTypes ==
    /\ content \in Seq(Messages[type])
    /\ wire \in [Channels -> Seq(Numbers)]
    /\ current \in IF net = "idle" THEN {Nobody} ELSE Channels \X Numbers
    /\ log \in Seq([on : Channels, number : Numbers, outcome : Outcomes])
    /\ \A i \in DOMAIN back : back[i][1] \in Numbers

ThreadTypes ==
    /\ net \in {"idle", "gil", "python"}
    /\ gil \in {"free", "net", "py"} /\ py \in {"away", "runs", "waits"}
    /\ gil = "net" <=> net = "python"
    /\ gil = "py" <=> py # "away"

TypeOK ==
    /\ type \in Types
    /\ ChannelTypes /\ MessageTypes /\ ThreadTypes
    /\ reopened \in BOOLEAN /\ fault \in {"none", "freed", "threw"}

Init ==
    /\ type \in Types
    /\ dc = 0 /\ observer = 0 /\ made = 0
    /\ state = [c \in Channels |-> "none"]
    /\ heardBy = [c \in Channels |-> 0]
    /\ announced = <<>> /\ signal = 0
    /\ wire = [c \in Channels |-> <<>>]
    /\ net = "idle" /\ current = Nobody
    /\ gil = "free" /\ py = "away"
    /\ content = <<>> /\ log = <<>> /\ back = <<>>
    /\ reopened = FALSE /\ fault = "none"

\* A call of the observer of channel c: of a freed one anything may come.
Calls(c) ==
    \/ fault' = fault
    \/ heardBy[c] # observer /\ fault' = "freed"

-----------------------------------------------------------------------------
(* The peer.                                                               *)

PeerOpens ==
    /\ fault = "none"
    /\ \E c \in Channels :
         /\ state[c] = "none" /\ \A d \in 1..(c - 1) : state[d] # "none"
         /\ state' = [state EXCEPT ![c] = "open"]
         /\ announced' = Append(announced, c)
         /\ reopened' = (reopened \/ \E d \in 1..(c - 1) : state[d] # "closed")
    /\ UNCHANGED <<type, dc, observer, made, heardBy, signal, wire, net, current,
                   python, content, ghosts, fault>>

PeerSends ==
    /\ fault = "none" /\ Len(content) < MaxMessages
    /\ \E c \in Channels, m \in Messages[type] :
         /\ state[c] = "open"
         /\ content' = Append(content, m)
         /\ wire' = [wire EXCEPT ![c] = Append(@, Len(content) + 1)]
    /\ UNCHANGED <<type, channels, net, current, python, ghosts, reopened, fault>>

-----------------------------------------------------------------------------
(* The state of a channel, as WebRTC's network thread changes and reports  *)
(* it; messages that were not delivered go with the channel.               *)

Enter(c, s) ==
    /\ fault = "none" /\ net = "idle"
    /\ state' = [state EXCEPT ![c] = s]
    /\ wire' = IF s = "closed" THEN [wire EXCEPT ![c] = <<>>] ELSE wire
    /\ IF heardBy[c] = 0 THEN fault' = fault ELSE Calls(c)

PeerCloses(c) ==
    /\ state[c] = "open" /\ Enter(c, "closing")
    /\ UNCHANGED <<type, dc, observer, made, heardBy, announced, signal, net,
                   current, python, content, ghosts, reopened>>

\* The channel has been closed by both sides, or its connection is gone.
Closed(c) ==
    /\ state[c] = "closing" /\ Enter(c, "closed")
    /\ UNCHANGED <<type, dc, observer, made, heardBy, announced, signal, net,
                   current, python, content, ghosts, reopened>>

-----------------------------------------------------------------------------
(* The channel and its observer, on WebRTC's signaling thread.             *)

\* GetState() of the channel the handler holds.
Open == dc # 0 /\ state[dc] = "open"

\* Mutant: a channel that is held, open or not, is kept.
OnDataChannel_once ==
    /\ fault = "none" /\ announced # <<>> /\ signal = 0
    /\ announced' = Tail(announced)
    /\ IF dc # 0 THEN UNCHANGED <<dc, observer, made, signal>>
       ELSE /\ dc' = Head(announced) /\ signal' = Head(announced)
            /\ made' = made + 1 /\ observer' = made + 1
    /\ UNCHANGED <<type, state, heardBy, wire, net, current, python, content,
                   ghosts, reopened, fault>>

\* A channel is dropped while the one that is held is open.  Otherwise it takes
\* its place (SetDataChannelInterface), and RegisterDataChannelObserver makes a
\* new observer; the old one is freed, registered or not.
OnDataChannel ==
    /\ fault = "none" /\ announced # <<>> /\ signal = 0
    /\ announced' = Tail(announced)
    /\ IF Open THEN UNCHANGED <<dc, observer, made, signal>>
       ELSE /\ dc' = Head(announced) /\ signal' = Head(announced)
            /\ made' = made + 1 /\ observer' = made + 1
    /\ UNCHANGED <<type, state, heardBy, wire, net, current, python, content,
                   ghosts, reopened, fault>>

\* RegisterObserver runs on the network thread.  A channel that was closed since
\* SetDataChannelInterface makes RegisterDataChannelObserver throw into WebRTC.
RegisterDataChannelObserver ==
    /\ fault = "none" /\ signal # 0 /\ net = "idle"
    /\ IF dc = 0 THEN fault' = "threw" /\ heardBy' = heardBy
       ELSE heardBy' = [heardBy EXCEPT ![signal] = observer] /\ fault' = fault
    /\ signal' = 0
    /\ UNCHANGED <<type, dc, observer, made, state, announced, wire, net, current,
                   python, content, ghosts, reopened>>

\* Mutant: the observer is freed with the interface.
CloseDataChannel_frees ==
    /\ dc # 0
    /\ Enter(dc, IF state[dc] = "closed" THEN "closed" ELSE "closing")
    /\ dc' = 0 /\ observer' = 0
    /\ UNCHANGED <<type, made, heardBy, announced, signal, net, current, python,
                   content, ghosts, reopened>>

\* The session ends.  The observer stays, and with it what it is registered
\* with.
CloseDataChannel ==
    /\ dc # 0
    /\ Enter(dc, IF state[dc] = "closed" THEN "closed" ELSE "closing")
    /\ dc' = 0
    /\ UNCHANGED <<type, observer, made, heardBy, announced, signal, net, current,
                   python, content, ghosts, reopened>>

-----------------------------------------------------------------------------
(* A message, on WebRTC's network thread.                                  *)

Record(c, n, outcome) == log' = Append(log, [on |-> c, number |-> n, outcome |-> outcome])

\* ConvertBufferToData throws for a message that is not JSON, which OnMessage
\* catches and logs.
Converts(n) == type = "json" => content[n].json # NotJson

\* The connection check sends a message back through its sender, a handler with a
\* channel of its own, which DataChannelSender models: as text, and only while
\* that channel is open.  Otherwise it is logged and not sent.
AsText(m) == [m EXCEPT !.binary = FALSE]
SendsBack(c, n) ==
    \/ Record(c, n, "handled") /\ back' = Append(back, <<n, AsText(content[n])>>)
    \/ Record(c, n, "unsent") /\ back' = back

\* Mutant: a message for Python is posted to one place, and not waited for.
OnMessage_posts(c) ==
    LET n == Head(wire[c]) IN
    /\ fault = "none" /\ net \in {"idle", "gil"} /\ wire[c] # <<>> /\ heardBy[c] # 0
    /\ Calls(c)
    /\ wire' = [wire EXCEPT ![c] = Tail(@)]
    /\ net' = "gil" /\ current' = <<c, n>>
    /\ UNCHANGED <<type, channels, python, content, ghosts, reopened>>

\* The connection check handles a message at once; a Python handler needs the
\* interpreter lock.
OnMessage(c) ==
    LET n == Head(wire[c]) IN
    /\ fault = "none" /\ net = "idle" /\ wire[c] # <<>> /\ heardBy[c] # 0
    /\ Calls(c)
    /\ wire' = [wire EXCEPT ![c] = Tail(@)]
    /\ \/ /\ ~Converts(n)
          /\ Record(c, n, "dropped")
          /\ UNCHANGED <<net, current, back>>
       \/ /\ Converts(n) /\ type = "connection-check"
          /\ SendsBack(c, n)
          /\ UNCHANGED <<net, current>>
       \/ /\ Converts(n) /\ type # "connection-check"
          /\ net' = "gil" /\ current' = <<c, n>>
          /\ UNCHANGED ghosts
    /\ UNCHANGED <<type, channels, python, content, reopened>>

AcquireGil ==
    /\ fault = "none" /\ net = "gil" /\ gil = "free"
    /\ net' = "python" /\ gil' = "net"
    /\ UNCHANGED <<type, channels, wire, current, py, content, ghosts, reopened,
                   fault>>

\* What handle_data is given; a string must be UTF-8 to become a str.
Argument(n) ==
    CASE type = "json" -> ToPython(content[n].json)
      [] type = "string" /\ ~content[n].utf8 -> Raises
      [] OTHER -> <<"data", content[n]>>

\* What send_json, or send_string with a str, gives back for it.
Reply(n) == IF type = "json" THEN ToJson(Argument(n)) ELSE Argument(n)

\* Mutant: the interpreter lock is kept when handle_data raises.
HandleData_keeps ==
    LET n == current[2]
        Ends(outcome) == /\ Record(current[1], n, outcome)
                         /\ net' = "idle" /\ current' = Nobody
    IN
    /\ fault = "none" /\ net = "python"
    /\ \/ Argument(n) # Raises /\ Ends("handled") /\ back' = back /\ gil' = "free"
       \/ Argument(n) # Raises /\ Reply(n) # Raises /\ Ends("handled")
          /\ back' = Append(back, <<n, Reply(n)>>) /\ gil' = "free"
       \/ Ends("raised") /\ back' = back /\ gil' = gil
    /\ UNCHANGED <<type, channels, wire, py, content, reopened, fault>>

\* handle_data returns, with or without sending what it was given back, which
\* it can only on an open channel, or raises, which OnMessage catches as it does
\* a failed conversion.
HandleData ==
    LET n == current[2]
        Ends(outcome) == /\ Record(current[1], n, outcome)
                         /\ net' = "idle" /\ current' = Nobody
    IN
    /\ fault = "none" /\ net = "python"
    /\ \/ Argument(n) # Raises /\ Ends("handled") /\ back' = back
       \/ /\ Argument(n) # Raises /\ Reply(n) # Raises
          /\ Ends("handled")
          /\ back' = Append(back, <<n, Reply(n)>>)
       \/ Ends("raised") /\ back' = back
    /\ gil' = "free"
    /\ UNCHANGED <<type, channels, wire, py, content, reopened, fault>>

-----------------------------------------------------------------------------
(* A Python thread.                                                        *)

Take ==
    /\ fault = "none" /\ py = "away" /\ gil = "free"
    /\ py' = "runs" /\ gil' = "py"
    /\ UNCHANGED <<type, channels, wire, net, current, content, ghosts, reopened,
                   fault>>

Release ==
    /\ fault = "none" /\ py = "runs"
    /\ py' = "away" /\ gil' = "free"
    /\ UNCHANGED <<type, channels, wire, net, current, content, ghosts, reopened,
                   fault>>

\* send_string, send_json and close wait for the network thread, and so does
\* shutting_down; none of the bindings releases the lock.  With is_async the
\* message is queued and nothing waits.
BlockingCall ==
    /\ fault = "none" /\ py = "runs"
    /\ py' = "waits"
    /\ UNCHANGED <<type, channels, wire, net, current, gil, content, ghosts,
                   reopened, fault>>

CallReturns ==
    /\ fault = "none" /\ py = "waits" /\ net = "idle"
    /\ py' = "runs"
    /\ UNCHANGED <<type, channels, wire, net, current, gil, content, ghosts,
                   reopened, fault>>

-----------------------------------------------------------------------------
\* The network thread waits for the lock of a thread that waits for it.
Crossed == net = "gil" /\ py = "waits"

Rests == (fault # "none" \/ Crossed) /\ UNCHANGED vars

Network == \E c \in Channels : OnMessage(c) \/ Closed(c)

Next ==
    \/ PeerOpens \/ PeerSends \/ \E c \in Channels : PeerCloses(c)
    \/ Network
    \/ OnDataChannel \/ RegisterDataChannelObserver \/ CloseDataChannel
    \/ AcquireGil \/ HandleData
    \/ Take \/ Release \/ BlockingCall \/ CallReturns
    \/ Rests

Spec == Init /\ [][Next]_vars

\* Threads go on.  A thread that waits for the lock gets it in the end, which
\* Python's switch interval sees to.
FairSpec ==
    /\ Spec
    /\ \A c \in Channels : WF_vars(OnMessage(c))
    /\ WF_vars(OnDataChannel) /\ SF_vars(RegisterDataChannelObserver)
    /\ SF_vars(AcquireGil) /\ WF_vars(HandleData)
    /\ WF_vars(Release) /\ SF_vars(CallReturns)

-----------------------------------------------------------------------------
(* Properties.                                                             *)

Handles(c, n) == current = <<c, n>>
HasHandled(c, n) == \E i \in DOMAIN log : log[i].on = c /\ log[i].number = n
Waits(c, n) == \E i \in DOMAIN wire[c] : wire[c][i] = n

\* The messages of a channel are handled one after the other, in the order the
\* peer sent them, each at most once, and none that is not lost with its
\* channel is passed over.
HandledInOrder ==
    /\ \A i, j \in DOMAIN log :
         i < j /\ log[i].on = log[j].on => log[i].number < log[j].number
    /\ \A i \in DOMAIN log : log[i].on = current[1] => log[i].number < current[2]
WaitInOrder ==
    \A c \in Channels : \A j \in DOMAIN wire[c] :
        /\ \A i \in DOMAIN log : log[i].on = c => log[i].number < wire[c][j]
        /\ current[1] = c => current[2] < wire[c][j]
        /\ \A i \in DOMAIN wire[c] : i < j => wire[c][i] < wire[c][j]
NonePassedOver ==
    (\A c \in Channels : state[c] # "closed") =>
        \A n \in DOMAIN content : \E c \in Channels :
            HasHandled(c, n) \/ Handles(c, n) \/ Waits(c, n)
InOrder == HandledInOrder /\ WaitInOrder /\ NonePassedOver

\* A message is lost to its handler only when it cannot be converted or the
\* Python handler raises.  The connection check sends back, as text and in the
\* order in which it was given them, exactly the messages that it did not find
\* its sender's channel closed for.  A JSON object that a Python handler sends
\* back as it was given reaches the peer as the peer sent it.
DroppedForAReason ==
    \A i \in DOMAIN log : log[i].outcome = "dropped" =>
        type = "json" /\ content[log[i].number].json = NotJson
Echoed(i, k) == log[i].outcome = "handled" /\ log[i].number = back[k][1]
SentBack ==
    type = "connection-check" =>
        /\ \A i \in DOMAIN log :
             /\ log[i].outcome \in {"handled", "unsent"}
             /\ log[i].outcome = "handled" => \E k \in DOMAIN back : Echoed(i, k)
        /\ \A k \in DOMAIN back :
             /\ \E i \in DOMAIN log : Echoed(i, k)
             /\ back[k][2] = AsText(content[back[k][1]])
        /\ \A j, k \in DOMAIN back : j < k =>
             \E h, i \in DOMAIN log : h < i /\ Echoed(h, j) /\ Echoed(i, k)
ObjectsReturn ==
    type = "json" =>
        \A i \in DOMAIN back :
            LET j == content[back[i][1]].json IN
            j[1] = "object" => back[i][2] = j
MessagesComeThrough == DroppedForAReason /\ SentBack /\ ObjectsReturn

\* A call goes to an observer that was freed only when the peer opened a
\* channel of the same label before the last one was closed.
FreedOnlyByReopening == fault = "freed" => reopened

\* A message that has arrived on an open channel does not wait for ever, unless
\* the network thread and a Python thread wait for each other, the process has
\* died, or the channel was not taken because the one before it was open.
MessagesAreTaken ==
    \A c \in Channels :
        wire[c] # <<>> ~>
            \/ wire[c] = <<>> \/ Crossed \/ fault # "none"
            \/ reopened /\ heardBy[c] = 0
=============================================================================
