-------------------------- MODULE DataChannelSender --------------------------
(***************************************************************************)
(* The sending half of one data channel handler: DataChannelSendable::Send *)
(* and the queue of ADataChannelHandler (SendAsync, ProcessQueue).         *)
(*                                                                         *)
(* Senders are application threads.  Completion callbacks run on WebRTC's  *)
(* network thread, OnDataChannel on its signaling thread, CloseDataChannel *)
(* on whatever thread closes the session.  queue_mutex_ makes SendAsync    *)
(* and the completion callback atomic with respect to each other;          *)
(* dc_interface_ is read and written without it.                           *)
(***************************************************************************)
EXTENDS Naturals, Sequences

CONSTANTS
    Senders,        \* threads that send
    MaxSends,       \* bound: messages of one sender
    MaxChannels     \* bound: data channels in one behaviour

ASSUME SenderAssumption ==
    MaxSends \in Nat /\ MaxChannels \in Nat

VARIABLES
    dc,         \* dc_interface_: the number of a channel, 0 for nullptr
    open,       \* channels whose state is kOpen
    created,    \* channels created so far
    queue,      \* send_queue_
    sending,    \* is_sending_
    pending,    \* completion callbacks WebRTC has not run: their channels
    handed,     \* messages handed to WebRTC, in order
    checked,    \* senders between Sendable() and the use of the channel
    sends,      \* per sender: messages given to SendAsync
    closing,    \* CloseDataChannel is between Close() and the assignment
    closed,     \* CloseDataChannel has reset dc_interface_ before
    dropped,    \* a completion callback was lost with its channel
    fault       \* a null dc_interface_ was dereferenced

vars == <<dc, open, created, queue, sending, pending, handed, checked, sends,
          closing, closed, dropped, fault>>

Channels == 1..MaxChannels
Messages == Senders \X (1..MaxSends)

TypeOK ==
    /\ dc \in 0..MaxChannels
    /\ open \subseteq Channels
    /\ created \in 0..MaxChannels
    /\ queue \in Seq(Messages)
    /\ sending \in BOOLEAN
    /\ pending \in Seq(Channels)
    /\ handed \in Seq(Messages)
    /\ checked \subseteq Senders
    /\ sends \in [Senders -> 0..MaxSends]
    /\ closing \in BOOLEAN /\ closed \in BOOLEAN /\ dropped \in BOOLEAN
    /\ fault \in BOOLEAN

Init ==
    /\ dc = 0 /\ open = {} /\ created = 0
    /\ queue = <<>> /\ sending = FALSE /\ pending = <<>> /\ handed = <<>>
    /\ checked = {} /\ sends = [s \in Senders |-> 0]
    /\ closing = FALSE /\ closed = FALSE /\ dropped = FALSE /\ fault = FALSE

\* Mutant: is_sending_ is not tested.
ProcessQueue_eager(q, busy) ==
    \/ /\ q = <<>>
       /\ queue' = q /\ sending' = busy
       /\ UNCHANGED <<handed, fault>>
    \/ /\ q # <<>> /\ dc # 0
       /\ queue' = Tail(q) /\ sending' = TRUE
       /\ handed' = Append(handed, Head(q))
       /\ UNCHANGED fault

\* Mutant: the newest message is taken first.
ProcessQueue_newest(q, busy) ==
    \/ /\ busy \/ q = <<>>
       /\ queue' = q /\ sending' = busy
       /\ UNCHANGED <<handed, fault>>
    \/ /\ ~busy /\ q # <<>> /\ dc # 0
       /\ queue' = SubSeq(q, 1, Len(q) - 1) /\ sending' = TRUE
       /\ handed' = Append(handed, q[Len(q)])
       /\ UNCHANGED fault

\* ProcessQueue with send_queue_ holding q and is_sending_ being busy.  With a
\* null dc_interface_ the process ends; its memory is left as it was before.
ProcessQueue(q, busy) ==
    \/ /\ busy \/ q = <<>>
       /\ queue' = q /\ sending' = busy
       /\ UNCHANGED <<handed, fault>>
    \/ /\ ~busy /\ q # <<>> /\ dc # 0
       /\ queue' = Tail(q) /\ sending' = TRUE
       /\ handed' = Append(handed, Head(q))
       /\ UNCHANGED fault
    \/ /\ ~busy /\ q # <<>> /\ dc = 0
       /\ fault' = TRUE
       /\ UNCHANGED <<queue, sending, handed>>

\* The callback that the call of dc_interface_->SendAsync just made registers.
Registers(before) ==
    IF handed' = handed THEN before ELSE Append(before, dc)

\* Sendable(): the state of the channel the handler holds.
Sendable == dc # 0 /\ dc \in open

\* A sender that finds the channel not open gives up; nothing changes then.
CheckSendable(s) ==
    /\ ~fault /\ s \notin checked /\ sends[s] < MaxSends
    /\ Sendable
    /\ checked' = checked \union {s}
    /\ UNCHANGED <<dc, open, created, queue, sending, pending, handed, sends,
                   closing, closed, dropped, fault>>

SendAsync(s) ==
    /\ ~fault /\ s \in checked
    /\ checked' = checked \ {s}
    /\ sends' = [sends EXCEPT ![s] = @ + 1]
    /\ ProcessQueue(Append(queue, <<s, sends[s] + 1>>), sending)
    /\ pending' = Registers(pending)
    /\ UNCHANGED <<dc, open, created, closing, closed, dropped>>

\* Send with isAsync false goes past the queue, straight to the channel.
Send(s) ==
    /\ ~fault /\ s \in checked
    /\ checked' = checked \ {s}
    /\ fault' = (dc = 0)
    /\ UNCHANGED <<dc, open, created, queue, sending, pending, handed, sends,
                   closing, closed, dropped>>

\* Mutant: the callback only resets is_sending_.
SendCompleted_stops ==
    /\ ~fault /\ pending # <<>>
    /\ sending' = FALSE /\ pending' = Tail(pending)
    /\ UNCHANGED <<dc, open, created, queue, handed, checked, sends, closing,
                   closed, dropped, fault>>

\* The completion callback, the same for success and error.
SendCompleted ==
    /\ ~fault /\ pending # <<>>
    /\ ProcessQueue(queue, FALSE)
    /\ pending' = Registers(Tail(pending))
    /\ UNCHANGED <<dc, open, created, checked, sends, closing, closed, dropped>>

DropCallback ==
    /\ ~fault /\ pending # <<>> /\ Head(pending) \notin open
    /\ pending' = Tail(pending) /\ dropped' = TRUE
    /\ UNCHANGED <<dc, open, created, queue, sending, handed, checked, sends,
                   closing, closed, fault>>

\* MosaicConnector::OnDataChannel: a channel that is not open is replaced.
OnDataChannel ==
    /\ ~fault /\ created < MaxChannels
    /\ created' = created + 1
    /\ open' = open \union {created + 1}
    /\ dc' = IF Sendable THEN dc ELSE created + 1
    /\ UNCHANGED <<queue, sending, pending, handed, checked, sends, closing,
                   closed, dropped, fault>>

\* Mutant: a remote close resets dc_interface_.
ChannelCloses_resets(c) ==
    /\ ~fault /\ c \in open
    /\ open' = open \ {c} /\ dc' = 0
    /\ UNCHANGED <<created, queue, sending, pending, handed, checked, sends,
                   closing, closed, dropped, fault>>

\* The remote side closes a channel, or its connection goes away.
ChannelCloses(c) ==
    /\ ~fault /\ c \in open
    /\ open' = open \ {c}
    /\ UNCHANGED <<dc, created, queue, sending, pending, handed, checked, sends,
                   closing, closed, dropped, fault>>

CloseDataChannel ==
    /\ ~fault /\ ~closing /\ dc # 0
    /\ open' = open \ {dc}
    /\ closing' = TRUE
    /\ UNCHANGED <<dc, created, queue, sending, pending, handed, checked, sends,
                   closed, dropped, fault>>

ClearInterface ==
    /\ ~fault /\ closing
    /\ dc' = 0 /\ closing' = FALSE /\ closed' = TRUE
    /\ UNCHANGED <<open, created, queue, sending, pending, handed, checked, sends,
                   dropped, fault>>

Next ==
    \/ \E s \in Senders : CheckSendable(s) \/ SendAsync(s) \/ Send(s)
    \/ SendCompleted \/ DropCallback
    \/ OnDataChannel \/ \E c \in Channels : ChannelCloses(c)
    \/ CloseDataChannel \/ ClearInterface

Spec == Init /\ [][Next]_vars

\* WebRTC runs a completion callback it has queued; a sender that passed the
\* check goes on; CloseDataChannel does not stop half way.
Fairness ==
    /\ WF_vars(SendCompleted)
    /\ \A s \in Senders : WF_vars(SendAsync(s) \/ Send(s))
    /\ WF_vars(ClearInterface)

FairSpec == Spec /\ Fairness

-----------------------------------------------------------------------------
(* Properties.                                                             *)

\* A message waits in the queue only while another one is being sent.
WaitsOnlyWhileSending == queue # <<>> => sending

\* A handler gives WebRTC one message at a time: is_sending_ is set exactly
\* while the one completion callback is outstanding, unless it was dropped, and
\* no message waits without a callback, or a drop of one, ahead of it.
OneInFlight ==
    /\ Len(pending) <= 1
    /\ pending # <<>> => sending
    /\ sending /\ ~fault /\ ~dropped => pending # <<>>
    /\ WaitsOnlyWhileSending

\* dc_interface_ is dereferenced as nullptr only after a session was closed
\* locally under the queue, never because the remote side closed.
NoNullChannel == fault => closed

\* As long as no callback is lost, every message that was accepted is handed
\* to WebRTC, over whatever sessions, unless the process dies.
QueueDrains == queue # <<>> ~> queue = <<>> \/ dropped \/ fault

\* The queue hands over in the order of acceptance, whatever sessions come and
\* go in between.
Fifo == INSTANCE Outbox
    WITH accepted <- handed \o queue, handed <- Len(handed)

HandsOverInOrder == Fifo!SafeSpec

\* The messages of one sender leave in the order it sent them, whatever the
\* other senders do.
SenderOrder ==
    \A i, j \in 1..Len(handed) :
        i < j /\ handed[i][1] = handed[j][1] => handed[i][2] < handed[j][2]
=============================================================================
