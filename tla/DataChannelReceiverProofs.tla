---------------------- MODULE DataChannelReceiverProofs ----------------------
(***************************************************************************)
(* Proofs about DataChannelReceiver: the order in which messages are taken,*)
(* what becomes of them, and when an observer is freed under a caller.     *)
(***************************************************************************)
EXTENDS DataChannelReceiver, TLAPS, SequenceTheorems

-----------------------------------------------------------------------------
(* The inductive invariant. *)

\* Channels are opened one after the other and announced in that order; one that
\* the handler has taken, or that has an observer, was announced.  There are at
\* most as many observers as channels that were taken.
Announcements ==
    /\ \A c, d \in Channels : d < c /\ state[c] # "none" => state[d] # "none"
    /\ \A i \in DOMAIN announced :
         state[announced[i]] # "none" /\ made + i <= announced[i]
    /\ \A i, j \in DOMAIN announced : i < j => announced[i] < announced[j]
    /\ \A c \in Channels : state[c] = "none" => made + Len(announced) < c

\* c was taken from the announcements.
TakenBefore(c) == state[c] # "none" /\ \A i \in DOMAIN announced : c < announced[i]

Registrations ==
    /\ \A c \in Channels : heardBy[c] # 0 => TakenBefore(c)
    /\ dc # 0 => TakenBefore(dc)
    /\ signal # 0 /\ dc # 0 => signal = dc

\* Messages wait on channels that are not closed.
Waiting == \A c \in Channels : state[c] = "closed" => wire[c] = <<>>

\* As long as every channel was closed before the next was opened, only closed
\* ones have an observer that was freed.
Observers ==
    ~reopened =>
        /\ \A c, d \in Channels : d < c /\ state[c] # "none" => state[d] = "closed"
        /\ \A c \in Channels : heardBy[c] \notin {0, observer} => state[c] = "closed"
        /\ dc # 0 => heardBy[dc] \in {0, observer}

\* What is sent back is what the conversions make of the message, and only a
\* Python handler keeps the network thread.
Echo(n) == IF type = "connection-check" THEN AsText(content[n]) ELSE Reply(n)
Replies == {<<n, Echo(n)>> : n \in Numbers}
Echoes ==
    /\ back \in Seq(Replies)
    /\ net # "idle" => type # "connection-check"
    /\ type = "json" => \A i \in DOMAIN back : back[i][2] # Raises

IInv == /\ TypeOK /\ Announcements /\ Registrations /\ Waiting /\ Observers
        /\ InOrder /\ Echoes /\ DroppedForAReason /\ SentBack /\ FreedOnlyByReopening

-----------------------------------------------------------------------------
(* What each action leaves alone. *)

\* The steps that neither open, close, take nor observe a channel.
LEMMA ChannelsAlone ==
  ASSUME \/ PeerSends \/ AcquireGil \/ HandleData \/ Take \/ Release \/ BlockingCall
         \/ CallReturns \/ (\E c \in Channels : OnMessage(c)) \/ Rests \/ UNCHANGED vars
  PROVE  UNCHANGED channels
  BY DEF PeerSends, AcquireGil, HandleData, Take, Release, BlockingCall, CallReturns,
     OnMessage, Rests, vars

\* The steps that neither send, lose nor handle a message.
LEMMA MessagesAlone ==
  ASSUME \/ PeerOpens \/ OnDataChannel \/ RegisterDataChannelObserver \/ Take
         \/ Release \/ BlockingCall \/ CallReturns \/ Rests \/ UNCHANGED vars
  PROVE  UNCHANGED <<wire, current, content, ghosts, type, net>>
  BY DEF PeerOpens, OnDataChannel, RegisterDataChannelObserver, Take, Release,
     BlockingCall, CallReturns, Rests, vars

\* The steps of the peer and of WebRTC's channels.
LEMMA ThreadsAlone ==
  ASSUME \/ PeerOpens \/ PeerSends \/ OnDataChannel \/ RegisterDataChannelObserver
         \/ CloseDataChannel \/ (\E c \in Channels : PeerCloses(c) \/ Closed(c))
         \/ Rests \/ UNCHANGED vars
  PROVE  UNCHANGED <<net, python>>
  BY DEF PeerOpens, PeerSends, OnDataChannel, RegisterDataChannelObserver,
     CloseDataChannel, PeerCloses, Closed, Rests, vars

\* Channel c, which the handler holds or which is not closed yet, changes its
\* state to s: its messages are gone when that is "closed".
Changes(c, s) ==
    /\ net = "idle" /\ fault = "none"
    /\ c = dc \/ state[c] \in {"open", "closing"}
    /\ state[c] = "closed" => s = "closed"
    /\ state' = [state EXCEPT ![c] = s]
    /\ wire' = IF s = "closed" THEN [wire EXCEPT ![c] = <<>>] ELSE wire
    /\ fault' = fault \/ (fault' = "freed" /\ heardBy[c] \notin {0, observer})
    /\ dc' \in {dc, 0}
    /\ UNCHANGED <<type, observer, made, heardBy, announced, signal, net, current,
                   python, content, ghosts, reopened>>

LEMMA Changing ==
  ASSUME ChannelTypes,
         CloseDataChannel \/ \E c \in Channels : PeerCloses(c) \/ Closed(c)
  PROVE  \E c \in Channels : \E s \in {"closing", "closed"} : Changes(c, s)
<1>1. CASE CloseDataChannel
  <2>1. dc \in Channels
    BY <1>1 DEF CloseDataChannel, ChannelTypes, Channels
  <2>2. Changes(dc, IF state[dc] = "closed" THEN "closed" ELSE "closing")
    BY <1>1 DEF CloseDataChannel, Enter, Calls, Changes, python, ghosts
  <2> QED
    BY <2>1, <2>2
<1>2. ASSUME NEW c \in Channels, PeerCloses(c)
      PROVE  Changes(c, "closing")
  BY <1>2 DEF PeerCloses, Enter, Calls, Changes, python, ghosts
<1>3. ASSUME NEW c \in Channels, Closed(c)
      PROVE  Changes(c, "closed")
  BY <1>3 DEF Closed, Enter, Calls, Changes, python, ghosts
<1> QED
  BY <1>1, <1>2, <1>3

\* The steps by the kind of what they change.
LEMMA Steps ==
  ASSUME ChannelTypes, [Next]_vars
  PROVE  \/ PeerOpens
         \/ PeerSends
         \/ \E c \in Channels : \E s \in {"closing", "closed"} : Changes(c, s)
         \/ OnDataChannel
         \/ RegisterDataChannelObserver
         \/ \E c \in Channels : OnMessage(c)
         \/ HandleData
         \/ AcquireGil \/ Take \/ Release \/ BlockingCall \/ CallReturns
         \/ UNCHANGED vars
  BY Changing DEF Next, Network, Rests

-----------------------------------------------------------------------------
(* Types. *)

LEMMA ChannelTypesKept ==
  ASSUME ChannelTypes, Announcements, [Next]_vars
  PROVE  ChannelTypes'
<1>1. CASE PeerOpens
  <2>1. PICK c \in Channels : /\ state' = [state EXCEPT ![c] = "open"]
                             /\ announced' = Append(announced, c)
    BY <1>1 DEF PeerOpens
  <2>2. announced' \in Seq(Channels)
    BY <2>1, AppendProperties DEF ChannelTypes
  <2> QED
    BY <1>1, <2>1, <2>2 DEF PeerOpens, ChannelTypes
<1>2. ASSUME NEW c \in Channels, NEW s \in {"closing", "closed"}, Changes(c, s)
      PROVE  ChannelTypes'
  BY <1>2, ReceiverAssumption DEF Changes, ChannelTypes
<1>3. CASE OnDataChannel
  <2>1. /\ Head(announced) \in Channels /\ Tail(announced) \in Seq(Channels)
        /\ Head(announced) = announced[1] /\ 1 \in DOMAIN announced
    BY <1>3, HeadTailProperties DEF OnDataChannel, ChannelTypes
  <2>2. made + 1 \in 0..MaxChannels /\ 0..made \subseteq 0..(made + 1)
    BY <2>1, ReceiverAssumption DEF Announcements, ChannelTypes, Channels
  <2>3. Head(announced) \in 0..MaxChannels
    BY <2>1 DEF Channels
  <2>4. heardBy \in [Channels -> 0..(made + 1)]
    BY <2>2 DEF ChannelTypes
  <2> QED
    BY <1>3, <2>1, <2>2, <2>3, <2>4 DEF OnDataChannel, ChannelTypes
<1>4. CASE RegisterDataChannelObserver
  <2>1. signal' \in 0..MaxChannels
    BY <1>4, ReceiverAssumption DEF RegisterDataChannelObserver
  <2>2. observer \in 0..made
    BY DEF ChannelTypes
  <2>3. heardBy' \in [Channels -> 0..made]
    BY <1>4, <2>2 DEF RegisterDataChannelObserver, ChannelTypes
  <2> QED
    BY <1>4, <2>1, <2>3 DEF RegisterDataChannelObserver, ChannelTypes
<1>5. CASE UNCHANGED channels
  BY <1>5 DEF channels, ChannelTypes
<1> QED
  BY <1>1, <1>2, <1>3, <1>4, <1>5, Steps, ChannelsAlone

LEMMA ThreadTypesKept ==
  ASSUME ThreadTypes, ChannelTypes, [Next]_vars
  PROVE  ThreadTypes'
<1>1. CASE UNCHANGED <<net, python>>
  BY <1>1 DEF ThreadTypes, python
<1>2. ASSUME NEW c \in Channels, OnMessage(c)
      PROVE  ThreadTypes'
  BY <1>2 DEF OnMessage, SendsBack, ThreadTypes, python
<1>3. CASE HandleData
  BY <1>3 DEF HandleData, ThreadTypes
<1>4. CASE AcquireGil
  BY <1>4 DEF AcquireGil, ThreadTypes
<1>5. CASE Take \/ Release \/ BlockingCall \/ CallReturns
  BY <1>5 DEF Take, Release, BlockingCall, CallReturns, ThreadTypes
<1> QED
  BY <1>1, <1>2, <1>3, <1>4, <1>5, Steps, ThreadsAlone DEF Changes

\* The messages that were sent are numbered on.
LEMMA Sending ==
  ASSUME MessageTypes, PeerSends
  PROVE  \E c \in Channels :
           /\ state[c] = "open" /\ Len(content) \in Nat
           /\ Numbers' = Numbers \union {Len(content) + 1}
           /\ content' \in Seq(Messages[type])
           /\ \A n \in Numbers : content'[n] = content[n]
           /\ wire[c] \in Seq(Numbers)
           /\ wire' = [wire EXCEPT ![c] = Append(@, Len(content) + 1)]
<1>1. PICK c \in Channels, m \in Messages[type] :
         /\ state[c] = "open"
         /\ content' = Append(content, m)
         /\ wire' = [wire EXCEPT ![c] = Append(@, Len(content) + 1)]
  BY DEF PeerSends
<1>2. content \in Seq(Messages[type]) /\ Len(content) \in Nat
  BY DEF MessageTypes
<1>3. /\ content' \in Seq(Messages[type]) /\ Len(content') = Len(content) + 1
      /\ \A n \in Numbers : content'[n] = content[n]
  BY <1>1, <1>2, AppendProperties DEF Numbers
<1>4. Numbers' = Numbers \union {Len(content) + 1}
  BY <1>2, <1>3 DEF Numbers
<1>5. wire[c] \in Seq(Numbers)
  BY DEF MessageTypes
<1> QED
  BY <1>1, <1>2, <1>3, <1>4, <1>5

\* A message is taken from the front of its channel.
LEMMA Taking ==
  ASSUME MessageTypes, NEW c \in Channels, OnMessage(c)
  PROVE  /\ wire[c] \in Seq(Numbers) /\ wire[c] # <<>>
         /\ Head(wire[c]) \in Numbers /\ Head(wire[c]) = wire[c][1]
         /\ Tail(wire[c]) \in Seq(Numbers)
         /\ wire' = [wire EXCEPT ![c] = Tail(@)]
         /\ DOMAIN wire[c] = 1..Len(wire[c]) /\ Len(wire[c]) \in Nat \ {0}
         /\ DOMAIN Tail(wire[c]) = 1..(Len(wire[c]) - 1)
         /\ \A i \in DOMAIN Tail(wire[c]) : Tail(wire[c])[i] = wire[c][i + 1]
<1>1. /\ wire[c] \in Seq(Numbers) /\ wire[c] # <<>>
      /\ wire' = [wire EXCEPT ![c] = Tail(@)]
  BY DEF OnMessage, SendsBack, MessageTypes
<1>2. /\ Head(wire[c]) \in Numbers /\ Head(wire[c]) = wire[c][1]
      /\ Tail(wire[c]) \in Seq(Numbers)
      /\ DOMAIN wire[c] = 1..Len(wire[c]) /\ Len(wire[c]) \in Nat \ {0}
      /\ Len(Tail(wire[c])) = Len(wire[c]) - 1
      /\ \A i \in 1..Len(Tail(wire[c])) : Tail(wire[c])[i] = wire[c][i + 1]
  BY <1>1, HeadTailProperties
<1>3. DOMAIN Tail(wire[c]) = 1..(Len(wire[c]) - 1)
  BY <1>2
<1> QED
  BY <1>1, <1>2, <1>3

\* What becomes of a message is recorded at the end of the log.
Entries == [on : Channels, number : Numbers, outcome : Outcomes]

LEMMA LogEntries ==
  ASSUME MessageTypes
  PROVE  \A i \in DOMAIN log : log[i] \in Entries
<1>1. log \in Seq(Entries)
  BY DEF MessageTypes, Entries
<1> QED
  BY <1>1

LEMMA Recording ==
  ASSUME MessageTypes, NEW c \in Channels, NEW n \in Numbers, NEW o \in Outcomes,
         Record(c, n, o)
  PROVE  /\ log' \in Seq(Entries) /\ log \in Seq(Entries) /\ Len(log) \in Nat
         /\ DOMAIN log = 1..Len(log) /\ DOMAIN log' = 1..(Len(log) + 1)
         /\ \A i \in DOMAIN log : log'[i] = log[i]
         /\ log'[Len(log) + 1].on = c /\ log'[Len(log) + 1].number = n
         /\ log'[Len(log) + 1].outcome = o
<1> DEFINE e == [on |-> c, number |-> n, outcome |-> o]
<1>1. log \in Seq(Entries) /\ e \in Entries /\ log' = Append(log, e)
  BY DEF MessageTypes, Record, Entries
<1>2. e.on = c /\ e.number = n /\ e.outcome = o
  OBVIOUS
<1> HIDE DEF e
<1>3. /\ log' \in Seq(Entries) /\ Len(log') = Len(log) + 1 /\ Len(log) \in Nat
      /\ \A i \in 1..Len(log) : log'[i] = log[i]
      /\ log'[Len(log) + 1] = e
  BY <1>1, AppendProperties
<1>4. DOMAIN log = 1..Len(log) /\ DOMAIN log' = 1..(Len(log) + 1)
  BY <1>1, <1>3
<1> QED
  BY <1>1, <1>2, <1>3, <1>4

\* What OnMessage makes of the message it has taken.
LEMMA Delivering ==
  ASSUME MessageTypes, NEW c \in Channels, OnMessage(c),
         NEW n, n = Head(wire[c])
  PROVE  /\ net = "idle" /\ n \in Numbers /\ current = Nobody
         /\ UNCHANGED <<type, channels, content, reopened>>
         /\ \/ /\ Record(c, n, "dropped") /\ ~Converts(n)
               /\ UNCHANGED <<net, current, back>>
            \/ /\ Record(c, n, "handled") /\ type = "connection-check"
               /\ back' = Append(back, <<n, AsText(content[n])>>)
               /\ UNCHANGED <<net, current>>
            \/ /\ Record(c, n, "unsent") /\ type = "connection-check"
               /\ UNCHANGED <<net, current, back>>
            \/ /\ type # "connection-check" /\ net' = "gil" /\ current' = <<c, n>>
               /\ UNCHANGED <<log, back>>
  BY Taking DEF OnMessage, SendsBack, MessageTypes, ghosts

\* What becomes of the message that Python handles.
LEMMA Handling ==
  ASSUME MessageTypes, ThreadTypes, HandleData
  PROVE  /\ net # "idle" /\ net' = "idle" /\ current' = Nobody
         /\ current[1] \in Channels /\ current[2] \in Numbers
         /\ current = <<current[1], current[2]>>
         /\ UNCHANGED <<type, channels, wire, content, reopened, fault>>
         /\ \E o \in {"handled", "raised"} : Record(current[1], current[2], o)
         /\ \/ back' = back
            \/ /\ Argument(current[2]) # Raises /\ Reply(current[2]) # Raises
               /\ back' = Append(back, <<current[2], Reply(current[2])>>)
<1>1. net = "python" /\ current \in Channels \X Numbers
  BY DEF HandleData, MessageTypes
<1> QED
  BY <1>1 DEF HandleData

\* A message that is sent changes no reply to the ones before.
LEMMA RepliesStay ==
  ASSUME MessageTypes, PeerSends
  PROVE  Replies \subseteq Replies'
<1>1. \A n \in Numbers : n \in Numbers' /\ content'[n] = content[n]
  BY Sending
<1>2. type' = type
  BY DEF PeerSends
<1>3. ASSUME NEW n \in Numbers
      PROVE  Echo(n)' = Echo(n)
  BY <1>1, <1>2, <1>3 DEF Echo, AsText, Reply, Argument
<1> QED
  BY <1>1, <1>3 DEF Replies

LEMMA RepliesSame ==
  ASSUME UNCHANGED <<type, content>>
  PROVE  Replies' = Replies /\ Numbers' = Numbers
  BY DEF Replies, Numbers, Echo, AsText, Reply, Argument

\* A reply is sent behind the others.
LEMMA Replying ==
  ASSUME Echoes, NEW r \in Replies, back' = Append(back, r)
  PROVE  /\ back' \in Seq(Replies) /\ Len(back) \in Nat
         /\ DOMAIN back = 1..Len(back) /\ DOMAIN back' = 1..(Len(back) + 1)
         /\ \A i \in DOMAIN back : back'[i] = back[i]
         /\ back'[Len(back) + 1] = r
<1>1. back \in Seq(Replies)
  BY DEF Echoes
<1>2. /\ back' \in Seq(Replies) /\ Len(back') = Len(back) + 1 /\ Len(back) \in Nat
      /\ \A i \in 1..Len(back) : back'[i] = back[i]
      /\ back'[Len(back) + 1] = r
  BY <1>1, AppendProperties
<1>3. DOMAIN back = 1..Len(back) /\ DOMAIN back' = 1..(Len(back) + 1)
  BY <1>1, <1>2
<1> QED
  BY <1>2, <1>3

\* What OnMessage and HandleData send back.
LEMMA Answering ==
  ASSUME MessageTypes, ThreadTypes, Echoes,
         HandleData \/ \E c \in Channels : OnMessage(c)
  PROVE  \/ back' = back
         \/ \E n \in Numbers : /\ back' = Append(back, <<n, Echo(n)>>)
                               /\ type = "json" => Echo(n) # Raises
<1>1. ASSUME NEW c \in Channels, OnMessage(c), back' # back
      PROVE  /\ Head(wire[c]) \in Numbers /\ type = "connection-check"
             /\ back' = Append(back, <<Head(wire[c]), AsText(content[Head(wire[c])])>>)
  BY <1>1, Delivering
<1>2. ASSUME NEW c \in Channels, OnMessage(c), back' # back
      PROVE  \E n \in Numbers : /\ back' = Append(back, <<n, Echo(n)>>)
                                /\ type = "json" => Echo(n) # Raises
  BY <1>1, <1>2 DEF Echo
<1>3. ASSUME HandleData, back' # back
      PROVE  /\ current[2] \in Numbers /\ type # "connection-check"
             /\ Reply(current[2]) # Raises
             /\ back' = Append(back, <<current[2], Reply(current[2])>>)
  BY <1>3, Handling DEF Echoes
<1>4. ASSUME HandleData, back' # back
      PROVE  \E n \in Numbers : /\ back' = Append(back, <<n, Echo(n)>>)
                                /\ type = "json" => Echo(n) # Raises
  BY <1>3, <1>4 DEF Echo
<1> QED
  BY <1>2, <1>4

LEMMA EchoesKept ==
  ASSUME MessageTypes, ChannelTypes, ThreadTypes, Echoes, [Next]_vars
  PROVE  Echoes'
<1>1. CASE UNCHANGED <<wire, current, content, ghosts, type, net>>
  BY <1>1, RepliesSame DEF Echoes, ghosts
<1>2. CASE PeerSends
  <2>1. UNCHANGED <<type, net, back>>
    BY <1>2 DEF PeerSends, ghosts
  <2>2. back' \in Seq(Replies')
    BY <1>2, <2>1, RepliesStay DEF Echoes
  <2> QED
    BY <2>1, <2>2 DEF Echoes
<1>3. ASSUME NEW c \in Channels, NEW s \in {"closing", "closed"}, Changes(c, s)
      PROVE  Echoes'
  BY <1>3, RepliesSame DEF Changes, Echoes, ghosts
<1>4. CASE HandleData \/ \E c \in Channels : OnMessage(c)
  <2>1. UNCHANGED <<type, content>>
    BY <1>4 DEF OnMessage, SendsBack, HandleData
  <2>2. net' # "idle" => type' # "connection-check"
    BY <1>4, Delivering, Handling DEF Echoes
  <2>3. back' \in Seq(Replies) /\ (type = "json" => \A i \in DOMAIN back' : back'[i][2] # Raises)
    <3>1. CASE back' = back
      BY <3>1 DEF Echoes
    <3>2. ASSUME NEW n \in Numbers, back' = Append(back, <<n, Echo(n)>>),
                 type = "json" => Echo(n) # Raises
          PROVE  /\ back' \in Seq(Replies)
                 /\ type = "json" => \A i \in DOMAIN back' : back'[i][2] # Raises
      <4>1. <<n, Echo(n)>> \in Replies /\ <<n, Echo(n)>>[2] = Echo(n)
        BY DEF Replies
      <4> DEFINE r == <<n, Echo(n)>>
      <4> HIDE DEF r
      <4>2. r \in Replies /\ r[2] = Echo(n) /\ back' = Append(back, r)
        BY <4>1, <3>2 DEF r
      <4>3. /\ back' \in Seq(Replies) /\ Len(back) \in Nat
            /\ DOMAIN back = 1..Len(back) /\ DOMAIN back' = 1..(Len(back) + 1)
            /\ \A i \in DOMAIN back : back'[i] = back[i]
            /\ back'[Len(back) + 1] = r
        BY <4>2, Replying
      <4>4. ASSUME type = "json", NEW i \in DOMAIN back'
            PROVE  back'[i][2] # Raises
        <5>1. CASE i \in DOMAIN back
          BY <4>3, <4>4, <5>1 DEF Echoes
        <5>2. CASE i = Len(back) + 1
          BY <4>2, <4>3, <4>4, <5>2, <3>2
        <5> QED
          BY <4>3, <4>4, <5>1, <5>2
      <4> QED
        BY <4>3, <4>4
    <3>3. \/ back' = back
          \/ \E n \in Numbers : /\ back' = Append(back, <<n, Echo(n)>>)
                                /\ type = "json" => Echo(n) # Raises
      BY <1>4, Answering
    <3> QED
      BY <3>1, <3>2, <3>3
  <2> QED
    BY <2>1, <2>2, <2>3, RepliesSame DEF Echoes
<1>5. CASE AcquireGil
  BY <1>5, RepliesSame DEF AcquireGil, Echoes, ThreadTypes, ghosts
<1> QED
  BY <1>1, <1>2, <1>3, <1>4, <1>5, Steps, MessagesAlone

LEMMA MessageTypesKept ==
  ASSUME MessageTypes, ChannelTypes, ThreadTypes, Echoes, [Next]_vars
  PROVE  MessageTypes'
<1>0. \A i \in DOMAIN back' : back'[i][1] \in Numbers'
  BY EchoesKept DEF Echoes, Replies
<1>1. CASE UNCHANGED <<wire, current, content, ghosts, type, net>>
  BY <1>1 DEF MessageTypes, ghosts, Numbers
<1>2. CASE PeerSends
  <2>1. PICK c \in Channels :
           /\ Len(content) \in Nat
           /\ Numbers' = Numbers \union {Len(content) + 1}
           /\ content' \in Seq(Messages[type])
           /\ wire[c] \in Seq(Numbers)
           /\ wire' = [wire EXCEPT ![c] = Append(@, Len(content) + 1)]
    BY <1>2, Sending
  <2>2. UNCHANGED <<type, net, current, log>>
    BY <1>2 DEF PeerSends, ghosts
  <2>3. \A d \in Channels : wire[d] \in Seq(Numbers')
    BY <2>1 DEF MessageTypes
  <2>4. Append(wire[c], Len(content) + 1) \in Seq(Numbers')
    BY <2>1, <2>3, AppendProperties
  <2>5. wire' \in [Channels -> Seq(Numbers')]
    BY <2>1, <2>3, <2>4 DEF MessageTypes
  <2>6. log \in Seq(Entries)
    BY DEF MessageTypes, Entries
  <2>7. log' \in Seq(Entries')
    <3>1. Entries \subseteq Entries'
      BY <2>1 DEF Entries, Outcomes
    <3> QED
      BY <2>2, <2>6, <3>1
  <2>8. current' \in IF net' = "idle" THEN {Nobody} ELSE Channels \X Numbers'
    BY <2>1, <2>2 DEF MessageTypes
  <2> QED
    BY <1>0, <2>1, <2>2, <2>5, <2>7, <2>8 DEF MessageTypes, Entries
<1>3. ASSUME NEW c \in Channels, NEW s \in {"closing", "closed"}, Changes(c, s)
      PROVE  MessageTypes'
  BY <1>3 DEF Changes, MessageTypes, Numbers, ghosts
<1>4. CASE \/ HandleData \/ \E c \in Channels : OnMessage(c)
  <2>1. UNCHANGED <<type, content>> /\ Numbers' = Numbers
    BY <1>4, RepliesSame DEF OnMessage, SendsBack, HandleData
  <2>2. wire' \in [Channels -> Seq(Numbers)]
    BY <1>4, Taking, Handling DEF MessageTypes
  <2>3. log' \in Seq(Entries)
    <3>1. CASE log' = log
      BY <3>1 DEF MessageTypes, Entries
    <3>2. ASSUME NEW c \in Channels, NEW n \in Numbers, NEW o \in Outcomes,
                 Record(c, n, o)
          PROVE  log' \in Seq(Entries)
      BY <3>2, Recording
    <3> QED
      BY <1>4, <3>1, <3>2, Delivering, Handling DEF Outcomes
  <2>4. current' \in IF net' = "idle" THEN {Nobody} ELSE Channels \X Numbers
    BY <1>4, Delivering, Handling DEF MessageTypes
  <2> QED
    BY <1>0, <2>1, <2>2, <2>3, <2>4 DEF MessageTypes, Entries
<1>6. CASE AcquireGil
  BY <1>6 DEF AcquireGil, MessageTypes, Numbers, ghosts
<1> QED
  BY <1>1, <1>2, <1>3, <1>4, <1>6, Steps, MessagesAlone

-----------------------------------------------------------------------------
(* The channels. *)

\* A channel that is opened lies behind the ones that were opened before, which
\* are the ones that wait to be announced and the ones that were taken.
LEMMA Opening ==
  ASSUME ChannelTypes, Announcements, PeerOpens
  PROVE  \E c \in Channels :
           /\ state[c] = "none" /\ state' = [state EXCEPT ![c] = "open"]
           /\ \A d \in Channels : state[d] # "none" <=> d < c
           /\ \A i \in DOMAIN announced : announced'[i] = announced[i] /\ announced[i] < c
           /\ DOMAIN announced' = DOMAIN announced \union {Len(announced) + 1}
           /\ announced'[Len(announced) + 1] = c /\ Len(announced') = Len(announced) + 1
           /\ DOMAIN announced = 1..Len(announced) /\ Len(announced) \in Nat
           /\ ~reopened' => ~reopened /\ \A d \in Channels : d < c => state[d] = "closed"
           /\ UNCHANGED <<dc, observer, made, heardBy, signal>>
<1>1. PICK c \in Channels :
         /\ state[c] = "none" /\ \A d \in 1..(c - 1) : state[d] # "none"
         /\ state' = [state EXCEPT ![c] = "open"]
         /\ announced' = Append(announced, c)
         /\ reopened' = (reopened \/ \E d \in 1..(c - 1) : state[d] # "closed")
  BY DEF PeerOpens
<1>2. \A d \in Channels : d < c => d \in 1..(c - 1)
  BY DEF Channels
<1>3. \A d \in Channels : state[d] # "none" <=> d < c
  BY <1>1, <1>2 DEF Announcements, Channels
<1>4. announced \in Seq(Channels)
  BY DEF ChannelTypes
<1>5. /\ Len(announced') = Len(announced) + 1 /\ Len(announced) \in Nat
      /\ announced' \in Seq(Channels)
      /\ \A i \in 1..Len(announced) : announced'[i] = announced[i]
      /\ announced'[Len(announced) + 1] = c
  BY <1>1, <1>4, AppendProperties
<1>6. DOMAIN announced = 1..Len(announced) /\ DOMAIN announced' = 1..(Len(announced) + 1)
  BY <1>4, <1>5
<1>7. \A i \in DOMAIN announced : announced[i] < c
  BY <1>3, <1>4, <1>6 DEF Announcements
<1>8. DOMAIN announced' = DOMAIN announced \union {Len(announced) + 1}
  BY <1>5, <1>6
<1>9. UNCHANGED <<dc, observer, made, heardBy, signal>>
  BY DEF PeerOpens
<1> QED
  BY <1>1, <1>2, <1>3, <1>5, <1>6, <1>7, <1>8, <1>9

\* The first announcement is taken, or dropped.
LEMMA Announcing ==
  ASSUME ChannelTypes, OnDataChannel
  PROVE  /\ Head(announced) \in Channels /\ Head(announced) = announced[1]
         /\ signal = 0
         /\ DOMAIN announced = 1..Len(announced) /\ Len(announced) \in Nat \ {0}
         /\ DOMAIN announced' = 1..(Len(announced) - 1)
         /\ Len(announced') = Len(announced) - 1
         /\ \A i \in DOMAIN announced' : i + 1 \in DOMAIN announced
                                       /\ announced'[i] = announced[i + 1]
         /\ UNCHANGED <<state, heardBy, reopened, fault>>
         /\ \/ UNCHANGED <<dc, observer, made, signal>>
            \/ /\ dc' = Head(announced) /\ signal' = Head(announced)
               /\ made' = made + 1 /\ observer' = made + 1
<1>1. announced \in Seq(Channels) /\ announced # <<>> /\ announced' = Tail(announced)
  BY DEF OnDataChannel, ChannelTypes
<1>2. /\ Head(announced) \in Channels /\ Head(announced) = announced[1]
      /\ announced' \in Seq(Channels)
      /\ DOMAIN announced = 1..Len(announced) /\ Len(announced) \in Nat \ {0}
      /\ Len(announced') = Len(announced) - 1
      /\ \A i \in 1..Len(announced') : announced'[i] = announced[i + 1]
  BY <1>1, HeadTailProperties
<1>3. DOMAIN announced' = 1..(Len(announced) - 1)
  BY <1>2
<1>4. \A i \in DOMAIN announced' : i + 1 \in DOMAIN announced
  BY <1>2, <1>3
<1>5. /\ UNCHANGED <<state, heardBy, reopened, fault>> /\ signal = 0
      /\ \/ UNCHANGED <<dc, observer, made, signal>>
         \/ /\ dc' = Head(announced) /\ signal' = Head(announced)
            /\ made' = made + 1 /\ observer' = made + 1
  BY DEF OnDataChannel
<1> QED
  BY <1>2, <1>3, <1>4, <1>5

LEMMA AnnouncementsKept ==
  ASSUME ChannelTypes, Announcements, Registrations, [Next]_vars
  PROVE  Announcements'
<1> USE DEF Announcements
<1>1. CASE PeerOpens
  <2>1. PICK c \in Channels :
           /\ state[c] = "none" /\ state' = [state EXCEPT ![c] = "open"]
           /\ \A d \in Channels : state[d] # "none" <=> d < c
           /\ \A i \in DOMAIN announced : announced'[i] = announced[i] /\ announced[i] < c
           /\ DOMAIN announced' = DOMAIN announced \union {Len(announced) + 1}
           /\ announced'[Len(announced) + 1] = c /\ Len(announced') = Len(announced) + 1
           /\ DOMAIN announced = 1..Len(announced) /\ Len(announced) \in Nat
           /\ made' = made
    BY <1>1, Opening
  <2>2. \A d \in Channels : state'[d] = IF d = c THEN "open" ELSE state[d]
    BY <2>1 DEF ChannelTypes
  <2>3. made \in Nat /\ \A i \in DOMAIN announced : announced[i] \in Channels
    BY DEF ChannelTypes
  <2>4. \A d, e \in Channels : e < d /\ state'[d] # "none" => state'[e] # "none"
    BY <2>1, <2>2 DEF Channels
  <2>5. \A i \in DOMAIN announced' :
           state'[announced'[i]] # "none" /\ made' + i <= announced'[i]
    BY <2>1, <2>2, <2>3 DEF Channels
  <2>6. \A i, j \in DOMAIN announced' : i < j => announced'[i] < announced'[j]
    BY <2>1, <2>3 DEF Channels
  <2>7. \A d \in Channels : state'[d] = "none" => made' + Len(announced') < d
    BY <2>1, <2>2, <2>3 DEF Channels
  <2> QED
    BY <2>4, <2>5, <2>6, <2>7
<1>2. ASSUME NEW c \in Channels, NEW s \in {"closing", "closed"}, Changes(c, s)
      PROVE  Announcements'
  <2>1. \A d \in Channels : state'[d] = IF d = c THEN s ELSE state[d]
    BY <1>2 DEF Changes, ChannelTypes
  <2>2. state[c] # "none"
    BY <1>2 DEF Changes, Registrations, TakenBefore, Channels
  <2>3. \A i \in DOMAIN announced : announced[i] \in Channels
    BY DEF ChannelTypes
  <2>4. UNCHANGED <<announced, made>>
    BY <1>2 DEF Changes
  <2> QED
    BY <2>1, <2>2, <2>3, <2>4
<1>3. CASE OnDataChannel
  <2>1. made \in Nat /\ made' \in {made, made + 1}
    BY <1>3, Announcing DEF ChannelTypes
  <2>0. announced \in Seq(Channels)
    BY DEF ChannelTypes
  <2>2. \A i \in DOMAIN announced' : i + 1 \in DOMAIN announced /\ i \in Nat
                                 /\ announced[i + 1] \in Channels
    BY <1>3, <2>0, Announcing
  <2>3. \A i \in DOMAIN announced' :
           state'[announced'[i]] # "none" /\ made' + i <= announced'[i]
    BY <1>3, <2>1, <2>2, Announcing DEF Channels
  <2>4. \A i, j \in DOMAIN announced' : i < j => announced'[i] < announced'[j]
    BY <1>3, <2>2, Announcing
  <2>5. \A c \in Channels : state'[c] = "none" => made' + Len(announced') < c
    BY <1>3, <2>1, Announcing DEF Channels
  <2>6. state' = state
    BY <1>3, Announcing
  <2> QED
    BY <2>3, <2>4, <2>5, <2>6
<1>4. CASE RegisterDataChannelObserver
  BY <1>4 DEF RegisterDataChannelObserver
<1>5. CASE UNCHANGED channels
  BY <1>5 DEF channels
<1> QED
  BY <1>1, <1>2, <1>3, <1>4, <1>5, Steps, ChannelsAlone

LEMMA RegistrationsKept ==
  ASSUME ChannelTypes, Announcements, Registrations, [Next]_vars
  PROVE  Registrations'
<1>1. CASE PeerOpens
  <2>1. PICK c \in Channels :
           /\ state[c] = "none" /\ state' = [state EXCEPT ![c] = "open"]
           /\ \A d \in Channels : state[d] # "none" <=> d < c
           /\ \A i \in DOMAIN announced : announced'[i] = announced[i] /\ announced[i] < c
           /\ DOMAIN announced' = DOMAIN announced \union {Len(announced) + 1}
           /\ announced'[Len(announced) + 1] = c
           /\ UNCHANGED <<dc, heardBy, signal>>
    BY <1>1, Opening
  <2>2. \A d \in Channels : TakenBefore(d) => TakenBefore(d)'
    BY <2>1 DEF TakenBefore, ChannelTypes
  <2> QED
    BY <2>1, <2>2 DEF Registrations, ChannelTypes, Channels
<1>2. ASSUME NEW c \in Channels, NEW s \in {"closing", "closed"}, Changes(c, s)
      PROVE  Registrations'
  <2>1. \A d \in Channels : TakenBefore(d) => TakenBefore(d)'
    BY <1>2 DEF Changes, TakenBefore, ChannelTypes
  <2> QED
    BY <1>2, <2>1 DEF Changes, Registrations, ChannelTypes, Channels
<1>3. CASE OnDataChannel
  <2>1. \A d \in Channels : TakenBefore(d) => TakenBefore(d)'
    BY <1>3, Announcing DEF TakenBefore
  <2>2. \A c \in Channels : heardBy'[c] # 0 => TakenBefore(c)'
    BY <1>3, <2>1, Announcing DEF Registrations
  <2>3. CASE UNCHANGED <<dc, signal>>
    <3>1. dc # 0 => dc \in Channels /\ TakenBefore(dc)
      BY DEF Registrations, ChannelTypes, Channels
    <3>2. dc # 0 => state'[dc] # "none" /\ \A i \in DOMAIN announced' : dc < announced'[i]
      BY <2>1, <3>1 DEF TakenBefore
    <3>3. (dc # 0 => TakenBefore(dc))'
      BY <2>3, <3>2 DEF TakenBefore
    <3>4. (signal # 0 /\ dc # 0 => signal = dc)'
      BY <2>3 DEF Registrations
    <3> QED
      BY <2>2, <3>3, <3>4 DEF Registrations
  <2>4. CASE dc' = Head(announced) /\ signal' = Head(announced)
    <3>1. state[dc'] # "none" /\ \A i \in DOMAIN announced' : dc' < announced'[i]
      BY <1>3, <2>4, Announcing DEF Announcements
    <3>2. TakenBefore(dc)'
      BY <1>3, <3>1, Announcing DEF TakenBefore
    <3> QED
      BY <2>2, <2>4, <3>2 DEF Registrations
  <2> QED
    BY <1>3, <2>3, <2>4, Announcing
<1>4. CASE RegisterDataChannelObserver
  <2>1. \A d \in Channels : TakenBefore(d)' <=> TakenBefore(d)
    BY <1>4 DEF RegisterDataChannelObserver, TakenBefore
  <2>2. ASSUME NEW c \in Channels, heardBy'[c] # 0
        PROVE  TakenBefore(c)
    <3>1. CASE heardBy'[c] = heardBy[c]
      BY <2>2, <3>1 DEF Registrations
    <3>2. CASE dc # 0 /\ heardBy' = [heardBy EXCEPT ![signal] = observer] /\ c = signal
      BY <1>4, <3>2 DEF RegisterDataChannelObserver, Registrations
    <3>3. \/ heardBy' = heardBy
          \/ dc # 0 /\ heardBy' = [heardBy EXCEPT ![signal] = observer]
      BY <1>4 DEF RegisterDataChannelObserver
    <3> QED
      BY <3>1, <3>2, <3>3 DEF ChannelTypes
  <2>3. dc' = dc /\ signal' = 0
    BY <1>4 DEF RegisterDataChannelObserver
  <2>4. (dc # 0 => TakenBefore(dc))'
    BY <1>4, <2>3 DEF RegisterDataChannelObserver, TakenBefore, Registrations
  <2> QED
    BY <2>1, <2>2, <2>3, <2>4 DEF Registrations
<1>5. CASE UNCHANGED channels
  BY <1>5 DEF channels, Registrations, TakenBefore
<1> QED
  BY <1>1, <1>2, <1>3, <1>4, <1>5, Steps, ChannelsAlone

LEMMA WaitingKept ==
  ASSUME ChannelTypes, MessageTypes, ThreadTypes, Waiting, [Next]_vars
  PROVE  Waiting'
<1>1. CASE PeerOpens
  BY <1>1 DEF PeerOpens, Waiting, ChannelTypes
<1>2. ASSUME NEW c \in Channels, NEW s \in {"closing", "closed"}, Changes(c, s)
      PROVE  Waiting'
  BY <1>2 DEF Changes, Waiting, ChannelTypes, MessageTypes
<1>3. CASE PeerSends
  <2>1. UNCHANGED state
    BY <1>3 DEF PeerSends, channels
  <2> QED
    BY <1>3, <2>1, Sending DEF Waiting, MessageTypes
<1>4. ASSUME NEW c \in Channels, OnMessage(c)
      PROVE  Waiting'
  <2>1. UNCHANGED state
    BY <1>4 DEF OnMessage, SendsBack, channels
  <2> QED
    BY <1>4, <2>1, Taking DEF Waiting, MessageTypes
<1>5. CASE UNCHANGED <<state, wire>>
  BY <1>5 DEF Waiting
<1>6. CASE OnDataChannel \/ RegisterDataChannelObserver \/ HandleData \/ AcquireGil
  BY <1>5, <1>6 DEF OnDataChannel, RegisterDataChannelObserver, HandleData, AcquireGil,
     channels
<1>7. CASE Take \/ Release \/ BlockingCall \/ CallReturns \/ UNCHANGED vars
  BY <1>5, <1>7, ChannelsAlone, MessagesAlone DEF channels
<1> QED
  BY <1>1, <1>2, <1>3, <1>4, <1>6, <1>7, Steps

\* An observer is freed when the next channel is taken: without reopening, all
\* channels before that one are closed then.
LEMMA ObserversKept ==
  ASSUME ChannelTypes, Announcements, Registrations, Observers, [Next]_vars
  PROVE  Observers'
<1>1. CASE PeerOpens
  <2>1. PICK c \in Channels :
           /\ state[c] = "none" /\ state' = [state EXCEPT ![c] = "open"]
           /\ \A d \in Channels : state[d] # "none" <=> d < c
           /\ ~reopened' => ~reopened /\ \A d \in Channels : d < c => state[d] = "closed"
           /\ UNCHANGED <<dc, observer, heardBy>>
    BY <1>1, Opening
  <2>2. \A d \in Channels : state'[d] = IF d = c THEN "open" ELSE state[d]
    BY <2>1 DEF ChannelTypes
  <2> QED
    BY <2>1, <2>2 DEF Observers, Channels
<1>2. ASSUME NEW c \in Channels, NEW s \in {"closing", "closed"}, Changes(c, s)
      PROVE  Observers'
  <2>1. \A d \in Channels : state'[d] = IF d = c THEN s ELSE state[d]
    BY <1>2 DEF Changes, ChannelTypes
  <2>2. state[c] # "none"
    BY <1>2 DEF Changes, Registrations, TakenBefore, Channels
  <2> QED
    BY <1>2, <2>1, <2>2 DEF Changes, Observers
<1>3. CASE OnDataChannel
  <2>1. CASE UNCHANGED <<dc, observer, made, signal>>
    BY <1>3, <2>1, Announcing DEF Observers
  <2>2. CASE dc' = Head(announced) /\ observer' = made + 1
    <3>1. \A c \in Channels : heardBy[c] # 0 =>
             state[c] # "none" /\ c < Head(announced) /\ heardBy[c] # made + 1
      BY <1>3, Announcing DEF Registrations, TakenBefore, ChannelTypes
    <3>2. state[Head(announced)] # "none" /\ Head(announced) \in Channels
      BY <1>3, Announcing DEF Announcements
    <3>3. ~reopened => \A c \in Channels : c < Head(announced) => state[c] = "closed"
      BY <3>2 DEF Observers
    <3>4. heardBy[Head(announced)] = 0
      BY <3>1, <3>2 DEF Channels
    <3> QED
      BY <1>3, <2>2, <3>1, <3>2, <3>3, <3>4, Announcing DEF Observers
  <2> QED
    BY <1>3, <2>1, <2>2, Announcing
<1>4. CASE RegisterDataChannelObserver
  BY <1>4 DEF RegisterDataChannelObserver, Registrations, Observers, ChannelTypes
<1>5. CASE UNCHANGED <<channels, reopened>>
  BY <1>5 DEF channels, Observers
<1>6. CASE PeerSends \/ HandleData \/ AcquireGil \/ \E c \in Channels : OnMessage(c)
  BY <1>5, <1>6 DEF PeerSends, HandleData, AcquireGil, OnMessage, SendsBack
<1>7. CASE Take \/ Release \/ BlockingCall \/ CallReturns \/ UNCHANGED vars
  BY <1>5, <1>7 DEF Take, Release, BlockingCall, CallReturns, vars
<1> QED
  BY <1>1, <1>2, <1>3, <1>4, <1>6, <1>7, Steps

LEMMA FreedOnlyByReopeningKept ==
  ASSUME ChannelTypes, Registrations, Waiting, Observers, FreedOnlyByReopening,
         [Next]_vars
  PROVE  FreedOnlyByReopening'
<1> USE DEF FreedOnlyByReopening
<1>1. ASSUME NEW c \in Channels, NEW s \in {"closing", "closed"}, Changes(c, s)
      PROVE  FreedOnlyByReopening'
  <2>1. ~reopened => fault' # "freed"
    BY <1>1 DEF Changes, Observers, Channels
  <2> QED
    BY <1>1, <2>1 DEF Changes
<1>2. ASSUME NEW c \in Channels, OnMessage(c)
      PROVE  FreedOnlyByReopening'
  BY <1>2 DEF OnMessage, SendsBack, Calls, Observers, Waiting
<1>3. CASE PeerOpens
  BY <1>3 DEF PeerOpens
<1>4. CASE PeerSends \/ OnDataChannel \/ RegisterDataChannelObserver \/ HandleData
  BY <1>4 DEF PeerSends, OnDataChannel, RegisterDataChannelObserver, HandleData
<1>5. CASE AcquireGil \/ Take \/ Release \/ BlockingCall \/ CallReturns \/ UNCHANGED vars
  BY <1>5 DEF AcquireGil, Take, Release, BlockingCall, CallReturns, vars
<1> QED
  BY <1>1, <1>2, <1>3, <1>4, <1>5, Steps

-----------------------------------------------------------------------------
(* The order of the messages. *)

LogInOrder ==
    \A i, j \in DOMAIN log :
      i < j /\ log[i].on = log[j].on => log[i].number < log[j].number

\* c lies behind all messages of its channel that were handled.
LEMMA RecordingInOrder ==
  ASSUME MessageTypes, NEW c \in Channels, NEW n \in Numbers, NEW o \in Outcomes,
         Record(c, n, o), LogInOrder,
         \A i \in DOMAIN log : log[i].on = c => log[i].number < n
  PROVE  /\ LogInOrder'
         /\ \A d \in Channels, k \in Numbers :
              /\ \A i \in DOMAIN log : log[i].on = d => log[i].number < k
              /\ d = c => n < k
              => \A i \in DOMAIN log' : log'[i].on = d => log'[i].number < k
         /\ HasHandled(c, n)'
         /\ \A d, k : HasHandled(d, k) => HasHandled(d, k)'
<1>1. /\ Len(log) \in Nat /\ DOMAIN log = 1..Len(log)
      /\ DOMAIN log' = 1..(Len(log) + 1)
      /\ \A i \in DOMAIN log : log'[i] = log[i]
      /\ log'[Len(log) + 1].on = c /\ log'[Len(log) + 1].number = n
  BY Recording
<1>2. LogInOrder'
  BY <1>1 DEF LogInOrder
<1>3. ASSUME NEW d \in Channels, NEW k \in Numbers,
             \A i \in DOMAIN log : log[i].on = d => log[i].number < k,
             d = c => n < k
      PROVE  \A i \in DOMAIN log' : log'[i].on = d => log'[i].number < k
  BY <1>1, <1>3
<1>4. HasHandled(c, n)' /\ \A d, k : HasHandled(d, k) => HasHandled(d, k)'
  BY <1>1 DEF HasHandled
<1> QED
  BY <1>2, <1>3, <1>4

\* A message that is sent is the last of its channel.
LEMMA SendingInOrder ==
  ASSUME MessageTypes, HandledInOrder, WaitInOrder, PeerSends
  PROVE  HandledInOrder' /\ WaitInOrder'
<1>1. PICK c \in Channels :
         /\ Len(content) \in Nat
         /\ wire[c] \in Seq(Numbers)
         /\ wire' = [wire EXCEPT ![c] = Append(@, Len(content) + 1)]
  BY Sending
<1>2. UNCHANGED <<log, current, net>>
  BY DEF PeerSends, ghosts
<1>3. HandledInOrder'
  BY <1>2 DEF HandledInOrder
<1>4. /\ \A i \in DOMAIN log : log[i].number < Len(content) + 1
      /\ current[1] \in Channels => current[2] < Len(content) + 1
      /\ \A i \in DOMAIN wire[c] : wire[c][i] < Len(content) + 1
  <2>1. \A i \in DOMAIN log : log[i].number \in Numbers
    BY LogEntries DEF Entries
  <2>2. \A i \in DOMAIN wire[c] : wire[c][i] \in Numbers
    BY <1>1
  <2>3. current[1] \in Channels => current[2] \in Numbers
    BY DEF MessageTypes, Nobody, Channels
  <2> QED
    BY <1>1, <2>1, <2>2, <2>3 DEF Numbers
<1> DEFINE w == Append(wire[c], Len(content) + 1)
<1>5. /\ Len(wire[c]) \in Nat /\ DOMAIN wire[c] = 1..Len(wire[c])
      /\ DOMAIN w = 1..(Len(wire[c]) + 1) /\ w[Len(wire[c]) + 1] = Len(content) + 1
      /\ \A i \in DOMAIN wire[c] : w[i] = wire[c][i]
  <2>1. wire[c] \in Seq(Nat)
    BY <1>1 DEF Numbers
  <2> QED
    BY <1>1, <2>1, AppendProperties
<1>6. \A d \in Channels : wire'[d] = IF d = c THEN w ELSE wire[d]
  BY <1>1 DEF MessageTypes
<1> HIDE DEF w
<1>7. ASSUME NEW d \in Channels, NEW j \in DOMAIN wire'[d]
      PROVE  /\ \A i \in DOMAIN log : log[i].on = d => log[i].number < wire'[d][j]
             /\ current[1] = d => current[2] < wire'[d][j]
             /\ \A i \in DOMAIN wire'[d] : i < j => wire'[d][i] < wire'[d][j]
  <2>1. CASE d # c
    BY <1>6, <1>7, <2>1 DEF WaitInOrder
  <2>2. CASE d = c /\ j \in DOMAIN wire[c]
    BY <1>5, <1>6, <1>7, <2>2 DEF WaitInOrder
  <2>3. CASE d = c /\ j = Len(wire[c]) + 1
    BY <1>4, <1>5, <1>6, <1>7, <2>3
  <2> QED
    BY <1>5, <1>6, <1>7, <2>1, <2>2, <2>3
<1> QED
  BY <1>2, <1>3, <1>7 DEF WaitInOrder

\* The message that is taken lies before those that wait behind it, and behind
\* the ones before it.
LEMMA TakingInOrder ==
  ASSUME MessageTypes, HandledInOrder, WaitInOrder,
         NEW c \in Channels, OnMessage(c)
  PROVE  HandledInOrder' /\ WaitInOrder'
<1> DEFINE n == Head(wire[c])
<1>1. /\ n \in Numbers /\ n = wire[c][1] /\ 1 \in DOMAIN wire[c]
      /\ \A i \in DOMAIN wire'[c] : i + 1 \in DOMAIN wire[c] /\ i \in Nat \ {0}
                                  /\ wire'[c][i] = wire[c][i + 1]
      /\ \A d \in Channels \ {c} : wire'[d] = wire[d]
  <2>1. wire' = [wire EXCEPT ![c] = Tail(@)] /\ wire \in [Channels -> Seq(Numbers)]
    BY Taking DEF MessageTypes
  <2>2. wire'[c] = Tail(wire[c]) /\ \A d \in Channels \ {c} : wire'[d] = wire[d]
    BY <2>1
  <2>3. /\ DOMAIN wire[c] = 1..Len(wire[c]) /\ Len(wire[c]) \in Nat \ {0}
        /\ DOMAIN Tail(wire[c]) = 1..(Len(wire[c]) - 1)
        /\ \A i \in DOMAIN Tail(wire[c]) : Tail(wire[c])[i] = wire[c][i + 1]
    BY Taking
  <2>4. \A i \in DOMAIN wire'[c] : i + 1 \in DOMAIN wire[c] /\ i \in Nat \ {0}
                               /\ wire'[c][i] = wire[c][i + 1]
    BY <2>2, <2>3
  <2> QED
    BY <2>2, <2>3, <2>4, Taking
<1>2. \A i \in DOMAIN log : log[i].on = c => log[i].number < n
  BY <1>1 DEF WaitInOrder
<1>3. \A d \in Channels : \A j \in DOMAIN wire'[d] :
        /\ wire'[d][j] \in Numbers
        /\ \A i \in DOMAIN log : log[i].on = d => log[i].number < wire'[d][j]
        /\ d = c => n < wire'[d][j]
        /\ \A i \in DOMAIN wire'[d] : i < j => wire'[d][i] < wire'[d][j]
  <2>1. ASSUME NEW j \in DOMAIN wire'[c]
        PROVE  /\ wire'[c][j] \in Numbers
               /\ \A i \in DOMAIN log : log[i].on = c => log[i].number < wire'[c][j]
               /\ n < wire'[c][j]
               /\ \A i \in DOMAIN wire'[c] : i < j => wire'[c][i] < wire'[c][j]
    <3>1. j + 1 \in DOMAIN wire[c] /\ wire'[c][j] = wire[c][j + 1] /\ 1 < j + 1
      BY <1>1, <2>1
    <3>2. wire[c][j + 1] \in Numbers
      BY <3>1 DEF MessageTypes
    <3>3. \A i \in DOMAIN wire'[c] : i < j => wire[c][i + 1] < wire[c][j + 1]
      BY <1>1, <2>1, <3>1 DEF WaitInOrder
    <3> QED
      BY <1>1, <3>1, <3>2, <3>3 DEF WaitInOrder
  <2>2. \A d \in Channels \ {c} : \A j \in DOMAIN wire[d] : wire[d][j] \in Numbers
    BY DEF MessageTypes
  <2> QED
    BY <1>1, <2>1, <2>2 DEF WaitInOrder
<1>4. LogInOrder
  BY DEF HandledInOrder, LogInOrder
<1> HIDE DEF n
<1>5. ASSUME NEW o \in Outcomes, Record(c, n, o), current' = Nobody
      PROVE  HandledInOrder' /\ WaitInOrder'
  <2>1. LogInOrder'
    BY <1>1, <1>2, <1>4, <1>5, RecordingInOrder
  <2>2. \A i \in DOMAIN log' : log'[i].on \in Channels
    <3>1. log' \in Seq(Entries)
      BY <1>1, <1>5, Recording
    <3>2. \A i \in DOMAIN log' : log'[i] \in Entries
      BY <3>1
    <3> QED
      BY <3>2 DEF Entries
  <2>3. Nobody[1] \notin Channels
    BY DEF Nobody, Channels
  <2>4. HandledInOrder'
    BY <1>5, <2>1, <2>2, <2>3 DEF HandledInOrder, LogInOrder
  <2>5. \A d \in Channels : \A j \in DOMAIN wire'[d] :
           \A i \in DOMAIN log' : log'[i].on = d => log'[i].number < wire'[d][j]
    BY <1>1, <1>2, <1>3, <1>4, <1>5, RecordingInOrder
  <2> QED
    BY <1>3, <1>5, <2>3, <2>4, <2>5 DEF WaitInOrder
<1>6. ASSUME current' = <<c, n>>, log' = log
      PROVE  HandledInOrder' /\ WaitInOrder'
  BY <1>2, <1>3, <1>4, <1>6 DEF HandledInOrder, LogInOrder, WaitInOrder
<1>7. \/ \E o \in Outcomes : Record(c, n, o) /\ current' = Nobody
      \/ current' = <<c, n>> /\ log' = log
  BY Delivering DEF n, Outcomes
<1> QED
  BY <1>5, <1>6, <1>7

\* The message that Python has handled joins the ones before it.
LEMMA HandlingInOrder ==
  ASSUME MessageTypes, ThreadTypes, HandledInOrder, WaitInOrder, HandleData
  PROVE  HandledInOrder' /\ WaitInOrder'
<1> DEFINE c == current[1]
           n == current[2]
<1>1. /\ c \in Channels /\ n \in Numbers /\ current' = Nobody /\ wire' = wire
      /\ \E o \in Outcomes : Record(c, n, o)
  BY Handling DEF Outcomes
<1>2. /\ \A i \in DOMAIN log : log[i].on = c => log[i].number < n
      /\ LogInOrder
  BY DEF HandledInOrder, LogInOrder
<1>3. \A d \in Channels : \A j \in DOMAIN wire[d] :
        /\ wire[d][j] \in Numbers
        /\ \A i \in DOMAIN log : log[i].on = d => log[i].number < wire[d][j]
        /\ d = c => n < wire[d][j]
        /\ \A i \in DOMAIN wire[d] : i < j => wire[d][i] < wire[d][j]
  BY DEF WaitInOrder, MessageTypes
<1> HIDE DEF c, n
<1>4. PICK o \in Outcomes : Record(c, n, o)
  BY <1>1
<1>5. LogInOrder'
  BY <1>1, <1>2, <1>4, RecordingInOrder
<1>6. \A d \in Channels : \A j \in DOMAIN wire[d] :
        \A i \in DOMAIN log' : log'[i].on = d => log'[i].number < wire[d][j]
  BY <1>1, <1>2, <1>3, <1>4, RecordingInOrder
<1>7. \A i \in DOMAIN log' : log'[i].on \in Channels
  <2>1. log' \in Seq(Entries)
    BY <1>1, <1>4, Recording
  <2>2. \A i \in DOMAIN log' : log'[i] \in Entries
    BY <2>1
  <2> QED
    BY <2>2 DEF Entries
<1>8. Nobody[1] \notin Channels
  BY DEF Nobody, Channels
<1> QED
  BY <1>1, <1>3, <1>5, <1>6, <1>7, <1>8 DEF HandledInOrder, LogInOrder, WaitInOrder

LEMMA OrderKept ==
  ASSUME ChannelTypes, MessageTypes, ThreadTypes, HandledInOrder, WaitInOrder,
         [Next]_vars
  PROVE  HandledInOrder' /\ WaitInOrder'
<1>1. CASE UNCHANGED <<wire, current, content, ghosts, type, net>>
  BY <1>1 DEF HandledInOrder, WaitInOrder, ghosts
<1>2. ASSUME NEW c \in Channels, NEW s \in {"closing", "closed"}, Changes(c, s)
      PROVE  HandledInOrder' /\ WaitInOrder'
  <2>1. UNCHANGED <<log, current>>
    BY <1>2 DEF Changes, ghosts
  <2>2. \A d \in Channels : wire'[d] = wire[d] \/ wire'[d] = <<>>
    BY <1>2 DEF Changes, MessageTypes
  <2>3. HandledInOrder'
    BY <2>1 DEF HandledInOrder
  <2> QED
    BY <2>1, <2>2, <2>3 DEF WaitInOrder
<1>3. CASE AcquireGil
  BY <1>3 DEF AcquireGil, HandledInOrder, WaitInOrder, ghosts
<1> QED
  BY <1>1, <1>2, <1>3, Steps, MessagesAlone, SendingInOrder, TakingInOrder,
     HandlingInOrder

-----------------------------------------------------------------------------
(* What becomes of the messages. *)

LEMMA NonePassedOverKept ==
  ASSUME ChannelTypes, MessageTypes, ThreadTypes, HandledInOrder, WaitInOrder,
         NonePassedOver, [Next]_vars
  PROVE  NonePassedOver'
<1>0. DOMAIN content = Numbers
  BY DEF MessageTypes, Numbers
<1> SUFFICES ASSUME \A c \in Channels : state'[c] # "closed",
                    NEW n \in DOMAIN content'
             PROVE  \E c \in Channels :
                      HasHandled(c, n)' \/ Handles(c, n)' \/ Waits(c, n)'
  BY DEF NonePassedOver
<1> DEFINE Known == \E c \in Channels : HasHandled(c, n) \/ Handles(c, n) \/ Waits(c, n)
           Still(c) == HasHandled(c, n)' \/ Handles(c, n)' \/ Waits(c, n)'
<1>1. ASSUME UNCHANGED <<wire, current, log>>, Known
      PROVE  \E c \in Channels : Still(c)
  BY <1>1 DEF HasHandled, Handles, Waits
<1>2. ASSUME \A c \in Channels : state[c] # "closed", content' = content
      PROVE  Known
  BY <1>2 DEF NonePassedOver
<1>3. CASE PeerOpens
  <2>1. \A c \in Channels : state[c] # "closed"
    BY <1>3 DEF PeerOpens, ChannelTypes
  <2> QED
    BY <1>1, <1>2, <1>3, <2>1, MessagesAlone DEF ghosts
<1>4. CASE UNCHANGED <<state, wire, current, content, log>>
  BY <1>1, <1>2, <1>4
<1>5. ASSUME NEW c \in Channels, NEW s \in {"closing", "closed"}, Changes(c, s)
      PROVE  \E d \in Channels : Still(d)
  <2>1. s # "closed" /\ \A d \in Channels : state[d] # "closed"
    BY <1>5 DEF Changes, ChannelTypes
  <2> QED
    BY <1>1, <1>2, <1>5, <2>1 DEF Changes, ghosts
<1>6. CASE PeerSends
  <2>1. PICK c \in Channels :
           /\ Len(content) \in Nat
           /\ Numbers' = Numbers \union {Len(content) + 1}
           /\ content' \in Seq(Messages[type])
           /\ wire[c] \in Seq(Numbers)
           /\ wire' = [wire EXCEPT ![c] = Append(@, Len(content) + 1)]
    BY <1>6, Sending
  <2>2. UNCHANGED <<state, current, log>>
    BY <1>6 DEF PeerSends, channels, ghosts
  <2> DEFINE w == Append(wire[c], Len(content) + 1)
  <2>3. /\ Len(wire[c]) \in Nat /\ DOMAIN wire[c] = 1..Len(wire[c])
        /\ DOMAIN w = 1..(Len(wire[c]) + 1) /\ w[Len(wire[c]) + 1] = Len(content) + 1
        /\ \A i \in DOMAIN wire[c] : w[i] = wire[c][i]
    <3>1. wire[c] \in Seq(Nat)
      BY <2>1 DEF Numbers
    <3> QED
      BY <2>1, <3>1, AppendProperties
  <2>4. \A d \in Channels : wire'[d] = IF d = c THEN w ELSE wire[d]
    BY <2>1 DEF MessageTypes
  <2> HIDE DEF w
  <2>5. \A d \in Channels : Waits(d, n) => Waits(d, n)'
    BY <2>3, <2>4 DEF Waits
  <2>6. DOMAIN content' = Numbers'
    BY <2>1 DEF Numbers
  <2>7. CASE n \in Numbers
    <3>1. Known
      BY <1>0, <2>2, <2>7 DEF NonePassedOver
    <3> QED
      BY <2>2, <2>5, <3>1 DEF HasHandled, Handles
  <2>8. CASE n = Len(content) + 1
    <3>1. Waits(c, n)'
      BY <2>3, <2>4, <2>8 DEF Waits
    <3> QED
      BY <3>1
  <2> QED
    BY <2>1, <2>6, <2>7, <2>8
<1>7. ASSUME NEW c \in Channels, OnMessage(c)
      PROVE  \E d \in Channels : Still(d)
  <2>0. PICK h : h = Head(wire[c])
    OBVIOUS
  <2>1. state' = state /\ content' = content /\ net = "idle" /\ current = Nobody
    BY <1>7, Delivering DEF channels
  <2>2. Known
    BY <1>2, <2>1
  <2>3. \A d \in Channels : ~Handles(d, n)
    BY <2>1 DEF Handles, Nobody, Channels
  <2>4. h \in Numbers /\ \A d \in Channels : Waits(d, n) =>
           Waits(d, n)' \/ (d = c /\ n = h)
    <3>1. /\ h \in Numbers /\ h = wire[c][1]
          /\ wire' = [wire EXCEPT ![c] = Tail(@)]
          /\ DOMAIN wire[c] = 1..Len(wire[c]) /\ Len(wire[c]) \in Nat \ {0}
          /\ DOMAIN Tail(wire[c]) = 1..(Len(wire[c]) - 1)
          /\ \A i \in DOMAIN Tail(wire[c]) : Tail(wire[c])[i] = wire[c][i + 1]
      BY <1>7, <2>0, Taking
    <3>2. \A d \in Channels : wire'[d] = IF d = c THEN Tail(wire[c]) ELSE wire[d]
      BY <3>1 DEF MessageTypes
    <3>3. ASSUME NEW i \in DOMAIN wire[c], i # 1
          PROVE  i - 1 \in DOMAIN Tail(wire[c]) /\ Tail(wire[c])[i - 1] = wire[c][i]
      BY <3>1, <3>3
    <3>4. ASSUME NEW d \in Channels, NEW i \in DOMAIN wire[d], wire[d][i] = n
          PROVE  (\E j \in DOMAIN wire'[d] : wire'[d][j] = n) \/ (d = c /\ n = h)
      <4>1. CASE d # c
        BY <3>2, <3>4, <4>1
      <4>2. CASE d = c /\ i = 1
        BY <3>1, <3>4, <4>2
      <4>3. CASE d = c /\ i # 1
        BY <3>2, <3>3, <3>4, <4>3
      <4> QED
        BY <4>1, <4>2, <4>3
    <3> QED
      BY <3>1, <3>4 DEF Waits
  <2>5. \A i \in DOMAIN log : log[i].on = c => log[i].number < h
    BY <1>7, <2>0, Taking DEF WaitInOrder
  <2>6. ASSUME NEW o \in Outcomes, Record(c, h, o)
        PROVE  HasHandled(c, h)' /\ \A d, k : HasHandled(d, k) => HasHandled(d, k)'
    <3>1. LogInOrder
      BY DEF HandledInOrder, LogInOrder
    <3> QED
      BY <2>4, <2>5, <2>6, <3>1, RecordingInOrder
  <2>7. CASE \E o \in Outcomes : Record(c, h, o)
    BY <2>2, <2>3, <2>4, <2>6, <2>7
  <2>8. CASE current' = <<c, h>> /\ log' = log
    BY <2>2, <2>3, <2>4, <2>8 DEF HasHandled, Handles
  <2> QED
    BY <1>7, <2>0, <2>7, <2>8, Delivering DEF Outcomes
<1>8. CASE HandleData
  <2>0. PICK c, h : c = current[1] /\ h = current[2]
    OBVIOUS
  <2>1. /\ c \in Channels /\ h \in Numbers /\ wire' = wire /\ current = <<c, h>>
        /\ \E o \in Outcomes : Record(c, h, o)
        /\ state' = state /\ content' = content
    BY <1>8, <2>0, Handling DEF Outcomes, channels
  <2>2. Known
    BY <1>2, <2>1
  <2>3. /\ \A i \in DOMAIN log : log[i].on = c => log[i].number < h
        /\ LogInOrder
    BY <2>0 DEF HandledInOrder, LogInOrder
  <2>4. HasHandled(c, h)' /\ \A d, k : HasHandled(d, k) => HasHandled(d, k)'
    BY <2>1, <2>3, RecordingInOrder
  <2> QED
    BY <2>1, <2>2, <2>4 DEF Handles, Waits
<1>9. CASE OnDataChannel \/ RegisterDataChannelObserver \/ AcquireGil
  BY <1>4, <1>9 DEF OnDataChannel, RegisterDataChannelObserver, AcquireGil, channels,
     ghosts
<1>10. CASE Take \/ Release \/ BlockingCall \/ CallReturns \/ UNCHANGED vars
  BY <1>4, <1>10, ChannelsAlone, MessagesAlone DEF channels, ghosts
<1> QED
  BY <1>3, <1>5, <1>6, <1>7, <1>8, <1>9, <1>10, Steps

LEMMA DroppedForAReasonKept ==
  ASSUME ChannelTypes, MessageTypes, ThreadTypes, DroppedForAReason, [Next]_vars
  PROVE  DroppedForAReason'
<1>1. CASE UNCHANGED <<type, content, log>>
  BY <1>1 DEF DroppedForAReason
<1>2. CASE PeerSends
  <2>1. UNCHANGED <<type, log>>
    BY <1>2 DEF PeerSends, ghosts
  <2>2. \A i \in DOMAIN log : content'[log[i].number] = content[log[i].number]
    BY <1>2, LogEntries, Sending DEF Entries
  <2> QED
    BY <2>1, <2>2 DEF DroppedForAReason
<1>3. ASSUME NEW c \in Channels, NEW n \in Numbers, NEW o \in Outcomes,
             Record(c, n, o), o = "dropped" => ~Converts(n),
             UNCHANGED <<type, content>>
      PROVE  DroppedForAReason'
  BY <1>3, Recording DEF DroppedForAReason, Converts
<1>4. ASSUME NEW c \in Channels, OnMessage(c)
      PROVE  DroppedForAReason'
  BY <1>1, <1>3, <1>4, Delivering DEF Outcomes
<1>5. CASE HandleData
  BY <1>3, <1>5, Handling DEF Outcomes
<1>6. ASSUME NEW c \in Channels, NEW s \in {"closing", "closed"}, Changes(c, s)
      PROVE  DroppedForAReason'
  BY <1>1, <1>6 DEF Changes, ghosts
<1>7. CASE AcquireGil
  BY <1>1, <1>7 DEF AcquireGil, ghosts
<1>8. CASE UNCHANGED <<wire, current, content, ghosts, type, net>>
  BY <1>1, <1>8 DEF ghosts
<1> QED
  BY <1>2, <1>4, <1>5, <1>6, <1>7, <1>8, Steps, MessagesAlone

\* A message that is sent back is recorded as handled, behind those before it.
LEMMA SentBackKept ==
  ASSUME ChannelTypes, MessageTypes, ThreadTypes, Echoes, SentBack, [Next]_vars
  PROVE  SentBack'
<1>1. CASE UNCHANGED <<type, content, log, back>>
  BY <1>1 DEF SentBack, Echoed, AsText
<1>2. CASE PeerSends
  <2>1. UNCHANGED <<type, log, back>>
    BY <1>2 DEF PeerSends, ghosts
  <2>2. \A k \in DOMAIN back : content'[back[k][1]] = content[back[k][1]]
    BY <1>2, Sending DEF MessageTypes
  <2> QED
    BY <2>1, <2>2 DEF SentBack, Echoed, AsText
<1>3. ASSUME NEW c \in Channels, OnMessage(c)
      PROVE  SentBack'
  <2> DEFINE n == Head(wire[c])
  <2>1. UNCHANGED <<type, content>> /\ n \in Numbers
    BY <1>3, Delivering
  <2> SUFFICES ASSUME type = "connection-check"
               PROVE  SentBack'
    BY <2>1 DEF SentBack
  <2>2. \/ Record(c, n, "handled") /\ back' = Append(back, <<n, AsText(content[n])>>)
        \/ Record(c, n, "unsent") /\ back' = back
    BY <1>3, Delivering DEF Converts
  <2>3. <<n, AsText(content[n])>> \in Replies
    BY <2>1 DEF Replies, Echo
  <2> DEFINE r == <<n, AsText(content[n])>>
  <2>4. r[1] = n /\ r[2] = AsText(content[n])
    OBVIOUS
  <2> HIDE DEF n, r
  <2>5. /\ Len(log) \in Nat /\ DOMAIN log = 1..Len(log)
        /\ DOMAIN log' = 1..(Len(log) + 1)
        /\ \A i \in DOMAIN log : log'[i] = log[i]
        /\ log'[Len(log) + 1].number = n
    BY <2>1, <2>2, Recording DEF Outcomes
  <2>6. /\ \A k \in DOMAIN back : back[k][2] = AsText(content[back[k][1]])
        /\ \A i \in DOMAIN log :
             /\ log[i].outcome \in {"handled", "unsent"}
             /\ log[i].outcome = "handled" => \E k \in DOMAIN back : Echoed(i, k)
        /\ \A k \in DOMAIN back : \E i \in DOMAIN log : Echoed(i, k)
        /\ \A j, k \in DOMAIN back : j < k =>
             \E h, i \in DOMAIN log : h < i /\ Echoed(h, j) /\ Echoed(i, k)
    BY DEF SentBack
  <2>7. CASE Record(c, n, "unsent") /\ back' = back
    <3>1. log'[Len(log) + 1].outcome = "unsent"
      BY <2>1, <2>7, Recording DEF Outcomes
    <3>2. \A i \in DOMAIN log, k \in DOMAIN back : Echoed(i, k)' <=> Echoed(i, k)
      BY <2>5, <2>7 DEF Echoed
    <3>3. \A i \in DOMAIN log : i \in DOMAIN log'
      BY <2>5
    <3>4. \A i \in DOMAIN log' :
            /\ log'[i].outcome \in {"handled", "unsent"}
            /\ log'[i].outcome = "handled" => i \in DOMAIN log /\ log[i].outcome = "handled"
      BY <2>5, <2>6, <3>1
    <3>5. (\A i \in DOMAIN log :
             /\ log[i].outcome \in {"handled", "unsent"}
             /\ log[i].outcome = "handled" => \E k \in DOMAIN back : Echoed(i, k))'
      BY <2>6, <2>7, <3>2, <3>4
    <3>6. (\A j, k \in DOMAIN back : j < k =>
             \E h, i \in DOMAIN log : h < i /\ Echoed(h, j) /\ Echoed(i, k))'
      BY <2>6, <2>7, <3>2, <3>3
    <3>7. (\A k \in DOMAIN back : /\ \E i \in DOMAIN log : Echoed(i, k)
                                 /\ back[k][2] = AsText(content[back[k][1]]))'
      BY <2>1, <2>6, <2>7, <3>2, <3>3
    <3> QED
      BY <3>5, <3>6, <3>7 DEF SentBack
  <2>8. CASE Record(c, n, "handled") /\ back' = Append(back, r)
    <3>1. log'[Len(log) + 1].outcome = "handled"
      BY <2>1, <2>8, Recording DEF Outcomes
    <3>2. /\ DOMAIN back = 1..Len(back) /\ DOMAIN back' = 1..(Len(back) + 1)
          /\ Len(back) \in Nat
          /\ \A i \in DOMAIN back : back'[i] = back[i]
          /\ back'[Len(back) + 1] = r
      BY <2>3, <2>8, Replying DEF r
    <3>3. \A i \in DOMAIN log, k \in DOMAIN back : Echoed(i, k)' <=> Echoed(i, k)
      BY <2>5, <3>2 DEF Echoed
    <3>4. \A i, k : i = Len(log) + 1 /\ k = Len(back) + 1 => Echoed(i, k)'
      BY <2>4, <2>5, <3>1, <3>2 DEF Echoed
    <3>5. /\ \A i \in DOMAIN log : i \in DOMAIN log' /\ i < Len(log) + 1
          /\ Len(log) + 1 \in DOMAIN log'
          /\ \A i \in DOMAIN log' : i \in DOMAIN log \/ i = Len(log) + 1
      BY <2>5
    <3>6. /\ \A k \in DOMAIN back : k \in DOMAIN back' /\ k < Len(back) + 1
          /\ Len(back) + 1 \in DOMAIN back'
          /\ \A k \in DOMAIN back' : k \in DOMAIN back \/ k = Len(back) + 1
      BY <3>2
    <3>7. ASSUME NEW i \in DOMAIN log'
          PROVE  /\ log'[i].outcome \in {"handled", "unsent"}
                 /\ log'[i].outcome = "handled" =>
                      \E k \in DOMAIN back' : Echoed(i, k)'
      <4>1. CASE i \in DOMAIN log
        BY <2>5, <2>6, <3>3, <3>6, <4>1
      <4>2. CASE i = Len(log) + 1
        BY <3>1, <3>4, <3>6, <4>2
      <4> QED
        BY <3>5, <4>1, <4>2
    <3>8. ASSUME NEW k \in DOMAIN back'
          PROVE  /\ \E i \in DOMAIN log' : Echoed(i, k)'
                 /\ back'[k][2] = AsText(content'[back'[k][1]])
      <4>1. CASE k \in DOMAIN back
        BY <2>1, <2>6, <3>2, <3>3, <3>5, <4>1
      <4>2. CASE k = Len(back) + 1
        BY <2>1, <2>4, <3>2, <3>4, <3>5, <4>2
      <4> QED
        BY <3>6, <4>1, <4>2
    <3>9. ASSUME NEW j \in DOMAIN back', NEW k \in DOMAIN back', j < k
          PROVE  \E h, i \in DOMAIN log' : h < i /\ Echoed(h, j)' /\ Echoed(i, k)'
      <4>1. CASE k \in DOMAIN back
        <5>1. j \in DOMAIN back
          BY <3>2, <3>9, <4>1
        <5> QED
          BY <2>6, <3>3, <3>5, <3>9, <4>1, <5>1
      <4>2. CASE k = Len(back) + 1
        <5>1. j \in DOMAIN back
          BY <3>2, <3>9, <4>2
        <5>2. PICK h \in DOMAIN log : Echoed(h, j)
          BY <2>6, <5>1
        <5>3. Echoed(h, j)' /\ h < Len(log) + 1 /\ h \in DOMAIN log'
          BY <3>3, <3>5, <5>1, <5>2
        <5>4. \A i : i = Len(log) + 1 => Echoed(i, k)'
          BY <3>4, <4>2
        <5> QED
          BY <3>5, <5>3, <5>4
      <4> QED
        BY <3>6, <4>1, <4>2
    <3> QED
      BY <3>7, <3>8, <3>9 DEF SentBack, Echoed
  <2> QED
    BY <2>2, <2>7, <2>8 DEF r
<1>4. CASE HandleData
  BY <1>4, Handling DEF Echoes, SentBack
<1>5. ASSUME NEW c \in Channels, NEW s \in {"closing", "closed"}, Changes(c, s)
      PROVE  SentBack'
  BY <1>1, <1>5 DEF Changes, ghosts
<1>6. CASE AcquireGil
  BY <1>1, <1>6 DEF AcquireGil, ghosts
<1>7. CASE UNCHANGED <<wire, current, content, ghosts, type, net>>
  BY <1>1, <1>7 DEF ghosts
<1> QED
  BY <1>2, <1>3, <1>4, <1>5, <1>6, <1>7, Steps, MessagesAlone

-----------------------------------------------------------------------------
(* The theorems. *)

Faults == {"none", "freed", "threw"}

LEMMA GhostTypes ==
  ASSUME IInv, [Next]_vars
  PROVE  reopened' \in BOOLEAN /\ fault' \in Faults
<1>1. reopened \in BOOLEAN
  BY DEF IInv, TypeOK
<1>2. fault \in Faults
  BY DEF IInv, TypeOK, Faults
<1>3. ChannelTypes
  BY DEF IInv, TypeOK
<1>4. reopened' = reopened \/ PeerOpens
  BY <1>3, Steps DEF PeerSends, OnMessage, SendsBack, HandleData, AcquireGil, Changes,
     OnDataChannel,
     RegisterDataChannelObserver, Take, Release, BlockingCall, CallReturns, vars
<1>5. reopened' \in BOOLEAN
  BY <1>1, <1>4 DEF PeerOpens
<1>6. ASSUME NEW c \in Channels, OnMessage(c)
      PROVE  fault' \in Faults
  BY <1>2, <1>6 DEF OnMessage, SendsBack, Calls, Faults
<1>7. ASSUME NEW c \in Channels, PeerCloses(c) \/ Closed(c)
      PROVE  fault' \in Faults
  BY <1>2, <1>7 DEF PeerCloses, Closed, Enter, Calls, Faults
<1>8. CASE CloseDataChannel \/ RegisterDataChannelObserver
  BY <1>2, <1>5, <1>8 DEF CloseDataChannel, RegisterDataChannelObserver, Enter, Calls, Faults
<1>9. CASE UNCHANGED fault
  BY <1>2, <1>5, <1>9
<1>10. UNCHANGED fault \/ CloseDataChannel \/ RegisterDataChannelObserver
       \/ \E c \in Channels : OnMessage(c) \/ PeerCloses(c) \/ Closed(c)
  BY DEF Next, Network, PeerOpens, PeerSends, OnDataChannel, AcquireGil, HandleData, Take, Release, BlockingCall, CallReturns, Rests, vars
<1> QED
  BY <1>5, <1>6, <1>7, <1>8, <1>9, <1>10

LEMMA Invariance == Spec => []IInv
<1>1. Init => IInv
  <2> SUFFICES ASSUME Init
               PROVE  IInv
    OBVIOUS
  <2> USE DEF Init
  <2>1. /\ <<>> \in Seq(Channels) /\ <<>> \in Seq(Numbers) /\ <<>> \in Seq(Entries)
        /\ <<>> \in Seq(Messages[type]) /\ <<>> \in Seq(Replies)
        /\ Len(<<>>) = 0 /\ DOMAIN <<>> = {}
    BY EmptySeq
  <2>2. ChannelTypes
    BY <2>1, ReceiverAssumption DEF ChannelTypes, Channels
  <2>3. MessageTypes
    BY <2>1 DEF MessageTypes, Entries
  <2>4. TypeOK
    BY <2>2, <2>3 DEF TypeOK, ThreadTypes
  <2>5. Announcements
    BY <2>1 DEF Announcements, Channels
  <2>6. Registrations /\ Waiting /\ Observers /\ FreedOnlyByReopening
    BY DEF Registrations, Waiting, Observers, FreedOnlyByReopening
  <2>7. HandledInOrder /\ WaitInOrder /\ NonePassedOver
    BY <2>1 DEF HandledInOrder, WaitInOrder, NonePassedOver
  <2>8. Echoes /\ DroppedForAReason /\ SentBack
    BY <2>1 DEF Echoes, DroppedForAReason, SentBack
  <2> QED
    BY <2>4, <2>5, <2>6, <2>7, <2>8 DEF IInv, InOrder
<1>2. IInv /\ [Next]_vars => IInv'
  <2> SUFFICES ASSUME IInv, [Next]_vars
               PROVE  IInv'
    OBVIOUS
  <2>1. /\ ChannelTypes /\ MessageTypes /\ ThreadTypes /\ Announcements /\ Registrations
        /\ Waiting /\ Observers /\ HandledInOrder /\ WaitInOrder /\ NonePassedOver
        /\ Echoes /\ DroppedForAReason /\ SentBack /\ FreedOnlyByReopening
    BY DEF IInv, TypeOK, InOrder
  <2>2. ChannelTypes' /\ ThreadTypes' /\ MessageTypes' /\ Echoes'
    BY <2>1, ChannelTypesKept, ThreadTypesKept, MessageTypesKept, EchoesKept
  <2>3. Announcements' /\ Registrations' /\ Waiting' /\ Observers'
    BY <2>1, AnnouncementsKept, RegistrationsKept, WaitingKept, ObserversKept
  <2>4. FreedOnlyByReopening'
    BY <2>1, FreedOnlyByReopeningKept
  <2>5. HandledInOrder' /\ WaitInOrder' /\ NonePassedOver'
    BY <2>1, OrderKept, NonePassedOverKept
  <2>6. DroppedForAReason' /\ SentBack'
    BY <2>1, DroppedForAReasonKept, SentBackKept
  <2>7. type' \in Types /\ reopened' \in BOOLEAN /\ fault' \in Faults
    <3>1. type' = type /\ type \in Types
      BY <2>1, Steps, MessagesAlone
      DEF PeerSends, OnMessage, SendsBack, HandleData, AcquireGil, Changes, IInv, TypeOK
    <3>2. reopened' \in BOOLEAN
      BY GhostTypes
    <3>3. fault' \in Faults
      BY GhostTypes
    <3> QED
      BY <3>1, <3>2, <3>3
  <2> QED
    BY <2>2, <2>3, <2>4, <2>5, <2>6, <2>7 DEF IInv, TypeOK, InOrder, Faults
<1> QED
  BY <1>1, <1>2, PTL DEF Spec

\* The variables of the receiver keep their types; the interpreter lock is held
\* by the thread that runs Python.
THEOREM TypeCorrect == Spec => []TypeOK
<1>1. IInv => TypeOK
  BY DEF IInv
<1> QED
  BY <1>1, Invariance, PTL

\* OnMessage and handle_data take the messages of a channel in the order the peer
\* sent them, each at most once, and pass none over, for any number of channels
\* and messages.
THEOREM TakenInOrder == Spec => []InOrder
<1>1. IInv => InOrder
  BY DEF IInv
<1> QED
  BY <1>1, Invariance, PTL

\* RegisterDataChannelObserver frees an observer that is still called only when
\* the peer opened a channel before the last one of its label was closed.
THEOREM NotFreedEarly == Spec => []FreedOnlyByReopening
<1>1. IInv => FreedOnlyByReopening
  BY DEF IInv
<1> QED
  BY <1>1, Invariance, PTL

\* Whatever the conversions do, OnMessage drops nothing but what is not JSON,
\* and the connection check sends back, as text and in order, every message that
\* it does not find its sender's channel closed for, and nothing else.
THEOREM NothingDropped == Spec => [](DroppedForAReason /\ SentBack)
<1>1. IInv => DroppedForAReason /\ SentBack
  BY DEF IInv
<1> QED
  BY <1>1, Invariance, PTL

\* The binding gives a JSON object back as it was, or raises.
RoundTrips ==
    \A m \in Messages["json"] :
      m.json[1] = "object" => ToJson(ToPython(m.json)) \in {m.json, Raises}

\* What a handler in Python sends back as it was given reaches the peer as the
\* peer sent it, if the two conversions of the JSON binding undo each other.
THEOREM ComeThrough ==
  ASSUME RoundTrips
  PROVE  Spec => []MessagesComeThrough
<1>1. IInv => MessagesComeThrough
  <2> SUFFICES ASSUME IInv, type = "json", NEW i \in DOMAIN back,
                      content[back[i][1]].json[1] = "object"
               PROVE  back[i][2] = content[back[i][1]].json
    BY DEF IInv, MessagesComeThrough, ObjectsReturn
  <2>1. back \in Seq(Replies) /\ back[i][2] # Raises
    BY DEF IInv, Echoes
  <2>2. PICK n \in Numbers : back[i] = <<n, Echo(n)>>
    BY <2>1 DEF Replies
  <2>3. content[n] \in Messages["json"]
    BY DEF IInv, TypeOK, MessageTypes, Numbers
  <2>4. back[i][2] = ToJson(ToPython(content[n].json))
    BY <2>2 DEF Echo, Reply, Argument
  <2> QED
    BY <2>1, <2>2, <2>3, <2>4 DEF RoundTrips
<1> QED
  BY <1>1, Invariance, PTL
=============================================================================
