----------------------- MODULE DataChannelSenderProofs -----------------------
(***************************************************************************)
(* For any senders and any bounds: the queue of a data channel handler      *)
(* has at most one message in flight, lets a message wait only behind one   *)
(* that is being sent, and hands messages over in the order of acceptance.  *)
(***************************************************************************)
EXTENDS DataChannelSender, TLAPS

\* A sender that passed the check has a message left to send.
CheckedMaySend == \A s \in checked : sends[s] < MaxSends

\* OneInFlight, without the part that says when a callback is outstanding.
AtMostOne == Len(pending) <= 1 /\ (pending # <<>> => sending)

\* While the queue sends and no callback was lost, one is outstanding.
CallbackOutstanding == sending /\ ~fault /\ ~dropped => pending # <<>>

IInv ==
    /\ TypeOK
    /\ CheckedMaySend
    /\ AtMostOne
    /\ WaitsOnlyWhileSending
    /\ CallbackOutstanding

\* A sequence that was appended to is one, and not empty.
LEMMA AppendInSeq ==
    ASSUME NEW S, NEW a \in Seq(S), NEW m \in S
    PROVE  Append(a, m) \in Seq(S) /\ Append(a, m) # <<>>
  OBVIOUS

\* What ProcessQueue does to a queue q of messages.
LEMMA ProcessQueueType ==
    ASSUME TypeOK, NEW q \in Seq(Messages), NEW busy \in BOOLEAN,
           ProcessQueue(q, busy)
    PROVE  /\ queue' \in Seq(Messages)
           /\ sending' \in BOOLEAN
           /\ handed' \in Seq(Messages)
           /\ fault' \in BOOLEAN
<1>1. CASE (busy \/ q = <<>>) /\ queue' = q /\ sending' = busy
           /\ UNCHANGED <<handed, fault>>
  BY <1>1 DEF TypeOK
<1>2. CASE ~busy /\ q # <<>> /\ dc # 0 /\ queue' = Tail(q) /\ sending' = TRUE
           /\ handed' = Append(handed, Head(q)) /\ UNCHANGED fault
  BY <1>2 DEF TypeOK
<1>3. CASE fault' = TRUE /\ UNCHANGED <<queue, sending, handed>>
  BY <1>3 DEF TypeOK
<1> QED
  BY <1>1, <1>2, <1>3 DEF ProcessQueue

\* The callback of a call that ProcessQueue made is one more pending callback.
LEMMA RegistersType ==
    ASSUME TypeOK, NEW q \in Seq(Messages), NEW busy \in BOOLEAN,
           ProcessQueue(q, busy), NEW before \in Seq(Channels)
    PROVE  /\ Registers(before) \in Seq(Channels)
           /\ \/ /\ busy \/ q = <<>>
                 /\ queue' = q /\ sending' = busy
                 /\ Registers(before) = before
                 /\ fault' = fault
              \/ /\ ~busy /\ sending' /\ fault' = fault
                 /\ Registers(before) = Append(before, dc)
              \/ fault' /\ Registers(before) = before
                 /\ UNCHANGED <<queue, sending>>
<1>0. dc # 0 => dc \in Channels
  BY SenderAssumption DEF SenderAssumption, TypeOK, Channels
<1>1. CASE (busy \/ q = <<>>) /\ queue' = q /\ sending' = busy
           /\ UNCHANGED <<handed, fault>>
  BY <1>1 DEF TypeOK, Registers
<1>2. CASE ~busy /\ q # <<>> /\ dc # 0 /\ queue' = Tail(q) /\ sending' = TRUE
           /\ handed' = Append(handed, Head(q)) /\ UNCHANGED fault
  <2>1. handed' # handed
    BY <1>2 DEF TypeOK
  <2>2. Registers(before) = Append(before, dc)
    BY <2>1 DEF Registers
  <2>3. Append(before, dc) \in Seq(Channels)
    BY <1>0, <1>2
  <2> QED
    BY <1>2, <2>2, <2>3 DEF TypeOK
<1>3. CASE fault' = TRUE /\ UNCHANGED <<queue, sending, handed>>
  BY <1>3 DEF Registers
<1> QED
  BY <1>1, <1>2, <1>3 DEF ProcessQueue

LEMMA InitIInv == Init => IInv
<1> SUFFICES ASSUME Init PROVE IInv
  OBVIOUS
<1> USE SenderAssumption DEF SenderAssumption, Init
<1>1. 0 \in 0..MaxSends /\ 0 \in 0..MaxChannels
  OBVIOUS
<1>2. <<>> \in Seq(Messages) /\ <<>> \in Seq(Channels) /\ Len(<<>>) = 0
  OBVIOUS
<1>3. TypeOK
  BY <1>1, <1>2 DEF TypeOK
<1>4. CheckedMaySend /\ WaitsOnlyWhileSending /\ CallbackOutstanding
  BY DEF CheckedMaySend, WaitsOnlyWhileSending, CallbackOutstanding
<1>5. AtMostOne
  BY <1>2 DEF AtMostOne
<1> QED
  BY <1>3, <1>4, <1>5 DEF IInv

LEMMA StepIInv == IInv /\ [Next]_vars => IInv'
<1> SUFFICES ASSUME IInv, [Next]_vars PROVE IInv'
  OBVIOUS
<1> USE SenderAssumption DEF SenderAssumption
<1>1. CASE UNCHANGED vars
  BY <1>1 DEF vars, IInv, TypeOK, CheckedMaySend, AtMostOne,
              WaitsOnlyWhileSending, CallbackOutstanding
<1>2. ASSUME NEW s \in Senders, CheckSendable(s) PROVE IInv'
  BY <1>2 DEF CheckSendable, IInv, TypeOK, CheckedMaySend, AtMostOne,
              WaitsOnlyWhileSending, CallbackOutstanding
<1>3. ASSUME NEW s \in Senders, SendAsync(s) PROVE IInv'
  <2> DEFINE q == Append(queue, <<s, sends[s] + 1>>)
  <2>1. sends[s] \in 0..MaxSends /\ sends[s] < MaxSends
    BY <1>3 DEF SendAsync, IInv, TypeOK, CheckedMaySend
  <2>2. <<s, sends[s] + 1>> \in Messages
    BY <2>1 DEF Messages
  <2>3. q \in Seq(Messages) /\ q # <<>>
    <3>1. queue \in Seq(Messages)
      BY DEF IInv, TypeOK
    <3> QED
      BY <2>2, <3>1, AppendInSeq
  <2>4. ProcessQueue(q, sending) /\ TypeOK /\ sending \in BOOLEAN
    BY <1>3 DEF SendAsync, IInv, TypeOK
  <2>5. pending \in Seq(Channels) /\ pending' = Registers(pending)
    BY <1>3 DEF SendAsync, IInv, TypeOK
  <2> HIDE DEF q
  <2>6. TypeOK'
    <3>1. /\ queue' \in Seq(Messages) /\ sending' \in BOOLEAN
          /\ handed' \in Seq(Messages) /\ fault' \in BOOLEAN
      BY <2>3, <2>4, ProcessQueueType
    <3>2. pending' \in Seq(Channels)
      BY <2>3, <2>4, <2>5, RegistersType
    <3>3. sends' \in [Senders -> 0..MaxSends] /\ checked' \subseteq Senders
      BY <1>3, <2>1 DEF SendAsync, IInv, TypeOK
    <3> QED
      BY <1>3, <3>1, <3>2, <3>3 DEF SendAsync, IInv, TypeOK
  <2>7. CheckedMaySend'
    BY <1>3 DEF SendAsync, IInv, TypeOK, CheckedMaySend
  <2>8. \/ /\ sending /\ queue' = q /\ sending' = sending
           /\ pending' = pending /\ fault' = fault
        \/ /\ ~sending /\ sending' /\ fault' = fault
           /\ pending' = Append(pending, dc)
        \/ fault' /\ pending' = pending /\ UNCHANGED <<queue, sending>>
    BY <2>3, <2>4, <2>5, RegistersType
  <2>9. AtMostOne' /\ WaitsOnlyWhileSending' /\ CallbackOutstanding'
    <3>1. dropped' = dropped
      BY <1>3 DEF SendAsync
    <3> QED
      BY <2>5, <2>8, <3>1
      DEF IInv, TypeOK, AtMostOne, WaitsOnlyWhileSending, CallbackOutstanding
  <2> QED
    BY <2>6, <2>7, <2>9 DEF IInv
<1>4. ASSUME NEW s \in Senders, Send(s) PROVE IInv'
  BY <1>4 DEF Send, IInv, TypeOK, CheckedMaySend, AtMostOne,
              WaitsOnlyWhileSending, CallbackOutstanding
<1>5. CASE SendCompleted
  <2> DEFINE rest == Tail(pending)
  <2>1. /\ pending \in Seq(Channels) /\ pending # <<>> /\ Len(pending) <= 1
        /\ queue \in Seq(Messages) /\ sending
    BY <1>5 DEF SendCompleted, IInv, TypeOK, AtMostOne
  <2>2. rest \in Seq(Channels) /\ rest = <<>>
    BY <2>1
  <2>3. ProcessQueue(queue, FALSE) /\ TypeOK /\ pending' = Registers(rest)
    BY <1>5 DEF SendCompleted, IInv
  <2> HIDE DEF rest
  <2>4. /\ queue' \in Seq(Messages) /\ sending' \in BOOLEAN
        /\ handed' \in Seq(Messages) /\ fault' \in BOOLEAN
    BY <2>1, <2>3, ProcessQueueType
  <2>5. pending' \in Seq(Channels)
    BY <2>1, <2>2, <2>3, RegistersType
  <2>6. \/ /\ queue = <<>> /\ queue' = queue /\ sending' = FALSE
           /\ pending' = rest /\ fault' = fault
        \/ /\ sending' /\ fault' = fault
           /\ pending' = Append(rest, dc)
        \/ fault' /\ pending' = rest /\ UNCHANGED <<queue, sending>>
    BY <2>1, <2>2, <2>3, RegistersType
  <2>7. AtMostOne' /\ WaitsOnlyWhileSending' /\ CallbackOutstanding'
    <3>1. CASE queue = <<>> /\ queue' = queue /\ sending' = FALSE
               /\ pending' = rest
      BY <2>2, <3>1 DEF AtMostOne, WaitsOnlyWhileSending, CallbackOutstanding
    <3>2. CASE sending' /\ pending' = Append(rest, dc)
      <4>1. pending' = <<dc>>
        BY <2>2, <3>2
      <4> QED
        BY <3>2, <4>1
        DEF AtMostOne, WaitsOnlyWhileSending, CallbackOutstanding
    <3>3. CASE fault' /\ pending' = rest /\ UNCHANGED <<queue, sending>>
      BY <2>1, <2>2, <3>3
      DEF AtMostOne, WaitsOnlyWhileSending, CallbackOutstanding
    <3> QED
      BY <2>6, <3>1, <3>2, <3>3
  <2> QED
    BY <1>5, <2>4, <2>5, <2>7 DEF SendCompleted, IInv, TypeOK, CheckedMaySend
<1>6. CASE DropCallback
  <2>1. Tail(pending) \in Seq(Channels) /\ Tail(pending) = <<>>
    BY <1>6 DEF DropCallback, IInv, TypeOK, AtMostOne
  <2> QED
    BY <1>6, <2>1 DEF DropCallback, IInv, TypeOK, CheckedMaySend, AtMostOne,
                      WaitsOnlyWhileSending, CallbackOutstanding
<1>7. CASE OnDataChannel
  BY <1>7 DEF OnDataChannel, Channels, IInv, TypeOK, CheckedMaySend, AtMostOne,
              WaitsOnlyWhileSending, CallbackOutstanding
<1>8. ASSUME NEW c \in Channels, ChannelCloses(c) PROVE IInv'
  BY <1>8 DEF ChannelCloses, IInv, TypeOK, CheckedMaySend, AtMostOne,
              WaitsOnlyWhileSending, CallbackOutstanding
<1>9. CASE CloseDataChannel
  BY <1>9 DEF CloseDataChannel, IInv, TypeOK, CheckedMaySend, AtMostOne,
              WaitsOnlyWhileSending, CallbackOutstanding
<1>10. CASE ClearInterface
  <2>1. dc' \in 0..MaxChannels
    BY <1>10 DEF ClearInterface
  <2> QED
    BY <1>10, <2>1
    DEF ClearInterface, IInv, TypeOK, CheckedMaySend, AtMostOne,
        WaitsOnlyWhileSending, CallbackOutstanding
<1> QED
  BY <1>1, <1>2, <1>3, <1>4, <1>5, <1>6, <1>7, <1>8, <1>9, <1>10 DEF Next

LEMMA Invariance == Spec => []IInv
  BY InitIInv, StepIInv, PTL DEF Spec

\* The variables of the sender keep their types.
THEOREM TypeCorrect == Spec => []TypeOK
<1>1. IInv => TypeOK
  BY DEF IInv
<1> QED
  BY <1>1, Invariance, PTL

\* One message in flight at a time, for any number of senders and sessions.
THEOREM SingleFlight == Spec => []OneInFlight
<1>1. IInv => OneInFlight
  BY DEF IInv, OneInFlight, AtMostOne, CallbackOutstanding,
         WaitsOnlyWhileSending
<1> QED
  BY <1>1, Invariance, PTL

-----------------------------------------------------------------------------
(* The queue implements the abstract outbox.                               *)

\* A call of ProcessQueue on queue q moves at most the head of q to the
\* messages handed over, and leaves their concatenation as it is.
LEMMA ProcessQueueOutbox ==
    ASSUME TypeOK, NEW q \in Seq(Messages), NEW busy \in BOOLEAN,
           ProcessQueue(q, busy)
    PROVE  \/ handed' \o queue' = handed \o q /\ Len(handed') = Len(handed)
           \/ /\ handed' \o queue' = handed \o q
              /\ Len(handed') = Len(handed) + 1 /\ q # <<>> /\ ~busy
           \/ UNCHANGED <<queue, handed>>
<1>1. CASE (busy \/ q = <<>>) /\ queue' = q /\ sending' = busy
           /\ UNCHANGED <<handed, fault>>
  BY <1>1
<1>2. CASE ~busy /\ q # <<>> /\ dc # 0 /\ queue' = Tail(q) /\ sending' = TRUE
           /\ handed' = Append(handed, Head(q)) /\ UNCHANGED fault
  <2>1. Len(handed') = Len(handed) + 1
    BY <1>2 DEF TypeOK
  <2>2. handed' \o queue' = handed \o q
    BY <1>2 DEF TypeOK
  <2> QED
    BY <1>2, <2>1, <2>2
<1>3. CASE fault' = TRUE /\ UNCHANGED <<queue, sending, handed>>
  BY <1>3
<1> QED
  BY <1>1, <1>2, <1>3 DEF ProcessQueue

\* Appending to the second of two sequences appends to both together.
LEMMA AppendConcat ==
    ASSUME NEW S, NEW a \in Seq(S), NEW b \in Seq(S), NEW m \in S
    PROVE  a \o Append(b, m) = Append(a \o b, m)
  OBVIOUS

LEMMA OutboxStep == IInv /\ [Next]_vars => [Fifo!Next]_(Fifo!vars)
<1> SUFFICES ASSUME IInv, [Next]_vars PROVE [Fifo!Next]_(Fifo!vars)
  OBVIOUS
<1> DEFINE accepted == handed \o queue
<1>0. /\ TypeOK /\ queue \in Seq(Messages) /\ handed \in Seq(Messages)
      /\ sending \in BOOLEAN /\ Len(accepted) = Len(handed) + Len(queue)
  BY DEF IInv, TypeOK
<1>1. ASSUME NEW s \in Senders, SendAsync(s) PROVE [Fifo!Next]_(Fifo!vars)
  <2> DEFINE m == <<s, sends[s] + 1>>
             q == Append(queue, m)
  <2>1. m \in Messages
    <3>1. sends[s] \in 0..MaxSends /\ sends[s] < MaxSends
      BY <1>1 DEF SendAsync, IInv, TypeOK, CheckedMaySend
    <3> QED
      BY <3>1, SenderAssumption DEF SenderAssumption, Messages
  <2> HIDE DEF m
  <2>2. q \in Seq(Messages) /\ handed \o q = Append(accepted, m)
    BY <1>0, <2>1, AppendConcat
  <2>3. ProcessQueue(q, sending)
    BY <1>1 DEF SendAsync, m
  <2> HIDE DEF q
  <2>4. CASE handed' \o queue' = handed \o q /\ Len(handed') = Len(handed)
    BY <2>1, <2>2, <2>4 DEF Fifo!Next, Fifo!Accept
  <2>5. CASE /\ handed' \o queue' = handed \o q
             /\ Len(handed') = Len(handed) + 1 /\ ~sending
    <3>1. Len(handed) = Len(accepted)
      BY <1>0, <2>5 DEF IInv, WaitsOnlyWhileSending
    <3> QED
      BY <2>1, <2>2, <2>5, <3>1 DEF Fifo!Next, Fifo!AcceptAndHand
  <2>6. CASE UNCHANGED <<queue, handed>>
    BY <2>6 DEF Fifo!vars
  <2> QED
    BY <1>0, <2>2, <2>3, <2>4, <2>5, <2>6, ProcessQueueOutbox
<1>2. CASE SendCompleted
  <2>1. ProcessQueue(queue, FALSE)
    BY <1>2 DEF SendCompleted
  <2>2. CASE handed' \o queue' = handed \o queue /\ Len(handed') = Len(handed)
    BY <2>2 DEF Fifo!vars
  <2>3. CASE /\ handed' \o queue' = handed \o queue
             /\ Len(handed') = Len(handed) + 1 /\ queue # <<>>
    <3>1. Len(handed) < Len(accepted)
      BY <1>0, <2>3
    <3> QED
      BY <2>3, <3>1 DEF Fifo!Next, Fifo!Hand
  <2>4. CASE UNCHANGED <<queue, handed>>
    BY <2>4 DEF Fifo!vars
  <2> QED
    BY <1>0, <2>1, <2>2, <2>3, <2>4, ProcessQueueOutbox
<1>3. CASE UNCHANGED <<queue, handed>>
  BY <1>3 DEF Fifo!vars
<1> QED
  BY <1>1, <1>2, <1>3
  DEF Next, vars, CheckSendable, Send, DropCallback, OnDataChannel,
      ChannelCloses, CloseDataChannel, ClearInterface

\* The queue implements the outbox: messages leave in the order in which they
\* were accepted, each once and none skipped, across all sessions.
THEOREM InOrder == Spec => HandsOverInOrder
<1>1. Init => Fifo!Init
  BY DEF Init, Fifo!Init
<1> QED
  BY <1>1, Invariance, OutboxStep, PTL
  DEF Spec, HandsOverInOrder, Fifo!SafeSpec

-----------------------------------------------------------------------------
(* Until a session is closed locally.                                      *)

\* The handler has a channel before it accepts anything, and keeps one.
ChannelAttached ==
    ~closed =>
        /\ ~fault
        /\ closing => dc # 0
        /\ dc = 0 => checked = {} /\ queue = <<>> /\ pending = <<>>

LEMMA AttachedStep == IInv /\ ChannelAttached /\ [Next]_vars => ChannelAttached'
<1> SUFFICES ASSUME IInv, ChannelAttached, [Next]_vars PROVE ChannelAttached'
  OBVIOUS
<1> USE SenderAssumption DEF SenderAssumption, ChannelAttached
<1>1. CASE UNCHANGED vars
  BY <1>1 DEF vars
<1>2. ASSUME NEW s \in Senders, CheckSendable(s) \/ SendAsync(s) \/ Send(s)
      PROVE  ChannelAttached'
  <2>1. ~closed => dc # 0
    BY <1>2 DEF CheckSendable, Sendable, SendAsync, Send
  <2> QED
    BY <1>2, <2>1 DEF CheckSendable, SendAsync, Send, ProcessQueue
<1>3. CASE SendCompleted \/ DropCallback
  <2>1. ~closed => dc # 0
    BY <1>3 DEF SendCompleted, DropCallback
  <2> QED
    BY <1>3, <2>1 DEF SendCompleted, DropCallback, ProcessQueue
<1>4. CASE OnDataChannel
  BY <1>4 DEF OnDataChannel, Sendable, IInv, TypeOK
<1>5. ASSUME NEW c \in Channels, ChannelCloses(c) PROVE ChannelAttached'
  BY <1>5 DEF ChannelCloses
<1>6. CASE CloseDataChannel \/ ClearInterface
  BY <1>6 DEF CloseDataChannel, ClearInterface
<1> QED
  BY <1>1, <1>2, <1>3, <1>4, <1>5, <1>6 DEF Next

\* Until CloseDataChannel has run beside the queue, no channel is dereferenced
\* when it is null.
THEOREM NeverNull == Spec => []NoNullChannel
<1>1. Init => ChannelAttached
  BY DEF Init, ChannelAttached
<1>2. IInv /\ ChannelAttached /\ [Next]_vars => ChannelAttached'
  BY AttachedStep
<1>3. ChannelAttached => NoNullChannel
  BY DEF ChannelAttached, NoNullChannel
<1> QED
  BY <1>1, <1>2, <1>3, Invariance, PTL DEF Spec

-----------------------------------------------------------------------------
(* The order of each sender's messages.                                    *)

\* Sequence a holds messages of each sender in the order it sent them, and
\* none that it has not sent.
Ordered(a) ==
    \A i, j \in 1..Len(a) : i < j /\ a[i][1] = a[j][1] => a[i][2] < a[j][2]

Sent(a) == \A i \in 1..Len(a) : a[i][2] <= sends[a[i][1]]

LEMMA AppendOrdered ==
    ASSUME TypeOK, NEW a \in Seq(Messages), Ordered(a), Sent(a),
           NEW s \in Senders
    PROVE  Ordered(Append(a, <<s, sends[s] + 1>>))
<1> DEFINE m == <<s, sends[s] + 1>>
           b == Append(a, m)
<1>1. Len(b) = Len(a) + 1 /\ b[Len(a) + 1] = m /\ Len(a) \in Nat
  OBVIOUS
<1>2. \A i \in 1..Len(a) : b[i] = a[i] /\ a[i] \in Messages
  OBVIOUS
<1>3. sends[s] \in Nat
  BY SenderAssumption DEF SenderAssumption, TypeOK
<1>4. \A i \in 1..Len(a) : a[i][1] = s => a[i][2] <= sends[s]
  BY DEF Sent
<1>5. \A i \in 1..Len(a) : a[i][2] \in Nat
  BY <1>2, SenderAssumption DEF SenderAssumption, Messages
<1>6. m[1] = s /\ m[2] = sends[s] + 1
  OBVIOUS
<1> HIDE DEF m, b
<1>7. ASSUME NEW i \in 1..Len(b), NEW j \in 1..Len(b), i < j,
             b[i][1] = b[j][1]
      PROVE  b[i][2] < b[j][2]
  <2>1. i \in 1..Len(a)
    BY <1>1, <1>7
  <2>2. CASE j = Len(a) + 1
    BY <1>1, <1>2, <1>3, <1>4, <1>5, <1>6, <1>7, <2>1, <2>2
  <2>3. CASE j \in 1..Len(a)
    BY <1>2, <1>7, <2>1, <2>3 DEF Ordered
  <2> QED
    BY <1>1, <2>2, <2>3
<1> QED
  BY <1>7 DEF Ordered, b, m

LEMMA AppendSent ==
    ASSUME TypeOK, NEW a \in Seq(Messages), Sent(a), NEW s \in Senders,
           NEW b \in {a, Append(a, <<s, sends[s] + 1>>)},
           sends' = [sends EXCEPT ![s] = @ + 1]
    PROVE  Sent(b)'
<1> DEFINE m == <<s, sends[s] + 1>>
<1>1. ASSUME NEW i \in 1..Len(a) PROVE a[i][2] <= sends'[a[i][1]]
  <2>1. a[i] \in Messages /\ a[i][1] \in Senders /\ a[i][2] \in Nat
    BY SenderAssumption DEF SenderAssumption, Messages
  <2>2. a[i][2] <= sends[a[i][1]]
    BY DEF Sent
  <2>3. sends[a[i][1]] \in Nat /\ sends[a[i][1]] <= sends'[a[i][1]]
    BY <2>1, SenderAssumption DEF SenderAssumption, TypeOK
  <2>4. sends'[a[i][1]] \in Nat
    BY <2>1, SenderAssumption DEF SenderAssumption, TypeOK
  <2> QED
    BY <2>1, <2>2, <2>3, <2>4
<1>2. /\ Len(Append(a, m)) = Len(a) + 1 /\ Append(a, m)[Len(a) + 1] = m
      /\ \A i \in 1..Len(a) : Append(a, m)[i] = a[i]
  OBVIOUS
<1>3. m[2] <= sends'[m[1]]
  <2>1. sends[s] \in Nat /\ sends'[s] = sends[s] + 1
    BY SenderAssumption DEF SenderAssumption, TypeOK
  <2> QED
    BY <2>1
<1> HIDE DEF m
<1>4. ASSUME NEW i \in 1..Len(Append(a, m))
      PROVE  Append(a, m)[i][2] <= sends'[Append(a, m)[i][1]]
  <2>1. CASE i = Len(a) + 1
    BY <1>2, <1>3, <2>1
  <2>2. CASE i \in 1..Len(a)
    BY <1>1, <1>2, <2>2
  <2> QED
    BY <1>2, <2>1, <2>2
<1> QED
  BY <1>1, <1>4 DEF Sent, m

AcceptedInOrder == Ordered(handed \o queue) /\ Sent(handed \o queue)

LEMMA AcceptedInOrderStep ==
    IInv /\ AcceptedInOrder /\ [Next]_vars => AcceptedInOrder'
<1> SUFFICES ASSUME IInv, AcceptedInOrder, [Next]_vars PROVE AcceptedInOrder'
  OBVIOUS
<1> DEFINE a == handed \o queue
<1>0. /\ TypeOK /\ queue \in Seq(Messages) /\ handed \in Seq(Messages)
      /\ a \in Seq(Messages) /\ sending \in BOOLEAN
  BY DEF IInv, TypeOK
<1>1. ASSUME NEW s \in Senders, SendAsync(s) PROVE AcceptedInOrder'
  <2> DEFINE m == <<s, sends[s] + 1>>
             q == Append(queue, m)
  <2>1. m \in Messages
    <3>1. sends[s] \in 0..MaxSends /\ sends[s] < MaxSends
      BY <1>1 DEF SendAsync, IInv, TypeOK, CheckedMaySend
    <3> QED
      BY <3>1, SenderAssumption DEF SenderAssumption, Messages
  <2>2. q \in Seq(Messages) /\ handed \o q = Append(a, m)
    BY <1>0, <2>1, AppendConcat
  <2>3. ProcessQueue(q, sending)
    BY <1>1 DEF SendAsync
  <2>4. handed' \o queue' \in {a, Append(a, m)}
    <3> HIDE DEF q
    <3> QED
      BY <1>0, <2>2, <2>3, ProcessQueueOutbox
  <2>5. Ordered(a) /\ Sent(a)
    BY DEF AcceptedInOrder
  <2>6. Ordered(handed' \o queue')
    BY <1>0, <2>4, <2>5, AppendOrdered
  <2>7. sends' = [sends EXCEPT ![s] = @ + 1]
    BY <1>1 DEF SendAsync
  <2>8. Sent(handed \o queue)'
    <3> DEFINE b == handed' \o queue'
    <3>1. \A i \in 1..Len(b) : b[i][2] <= sends'[b[i][1]]
      BY <1>0, <2>4, <2>5, <2>7, AppendSent DEF Sent
    <3> QED
      BY <3>1 DEF Sent
  <2> QED
    BY <2>6, <2>8 DEF AcceptedInOrder, Ordered
<1>2. CASE SendCompleted
  <2>1. ProcessQueue(queue, FALSE) /\ sends' = sends
    BY <1>2 DEF SendCompleted
  <2>2. handed' \o queue' = handed \o queue
    BY <1>0, <2>1, ProcessQueueOutbox
  <2> QED
    BY <2>1, <2>2 DEF AcceptedInOrder, Ordered, Sent
<1>3. CASE UNCHANGED <<handed, queue, sends>>
  BY <1>3 DEF AcceptedInOrder, Ordered, Sent
<1> QED
  BY <1>1, <1>2, <1>3
  DEF Next, vars, CheckSendable, Send, DropCallback, OnDataChannel,
      ChannelCloses, CloseDataChannel, ClearInterface

\* The messages of one sender leave in the order it sent them, for any number
\* of senders and whatever the sessions do.
THEOREM KeepsSenderOrder == Spec => []SenderOrder
<1>1. Init => AcceptedInOrder
  BY DEF Init, AcceptedInOrder, Ordered, Sent
<1>2. IInv /\ AcceptedInOrder => SenderOrder
  <2> SUFFICES ASSUME IInv, AcceptedInOrder PROVE SenderOrder
    OBVIOUS
  <2>1. handed \in Seq(Messages) /\ queue \in Seq(Messages)
    BY DEF IInv, TypeOK
  <2>2. /\ Len(handed \o queue) >= Len(handed)
        /\ \A i \in 1..Len(handed) :
             i \in 1..Len(handed \o queue) /\ (handed \o queue)[i] = handed[i]
    BY <2>1
  <2> QED
    BY <2>2 DEF AcceptedInOrder, Ordered, SenderOrder
<1> QED
  BY <1>1, <1>2, Invariance, AcceptedInOrderStep, PTL DEF Spec
=============================================================================
