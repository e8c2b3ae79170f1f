--------------------------- MODULE StatusBroadcast ---------------------------
(***************************************************************************)
(* How the state of a connector reaches the signaling server:              *)
(* ConnectorStateManager (SetState and the broadcast thread),              *)
(* SignalingClient::SendState and the callbacks of the WebSocket link.     *)
(*                                                                         *)
(* SetState and the broadcast send while they hold the state manager's     *)
(* mutex; the onConnected callback resends the latest status without it.   *)
(* A status is numbered by the SetState that announced it, so that an      *)
(* older status is a smaller number; 0 is the initial state.               *)
(***************************************************************************)
EXTENDS Integers

CONSTANTS
    MaxChanges,      \* bound: SetState calls
    MaxDials,        \* bound: attempts to connect
    MayMisread,      \* a message handler may throw: m_onError on a live link
    SendMayFail      \* a send on the link may throw

ASSUME BroadcastAssumption ==
    /\ MaxChanges \in Nat /\ MaxDials \in Nat \ {0}
    /\ {MayMisread, SendMayFail} \subseteq BOOLEAN

VARIABLES
    state,        \* state_
    lock,         \* mutex_: the thread that holds it, or "free"
    latest,       \* latest_state_, Unset before the first SendState
    isConnected,  \* SignalingClient::is_connected_
    link,         \* the WebSocket: "dialing", "up" (m_connected), "down"
    dials,        \* attempts to connect so far
    at,           \* per thread: its place in SendState
    arg,          \* per thread: SendState's argument, then the status to send
    server,       \* the last status the signaling server received
    raced,        \* onConnected's SendState ran beside another thread's
    terminated    \* an exception left the broadcast thread

vars == <<state, lock, latest, isConnected, link, dials, at, arg, server, raced,
          terminated>>

Threads == {"setter", "broadcast", "connect"}
Unset == -1
Statuses == 0..MaxChanges

TypeOK ==
    /\ state \in Statuses
    /\ lock \in {"free", "setter", "broadcast"}
    /\ latest \in Statuses \union {Unset}
    /\ isConnected \in BOOLEAN
    /\ link \in {"dialing", "up", "down"}
    /\ dials \in 0..MaxDials
    /\ at \in [Threads -> {"idle", "assign", "test", "build", "send"}]
    /\ arg \in [Threads -> Statuses \union {Unset}]
    /\ server \in Statuses \union {Unset}
    /\ {raced, terminated} \subseteq BOOLEAN

\* The factory dials once before it creates the state manager.
Init ==
    /\ state = 0 /\ lock = "free" /\ latest = Unset
    /\ link \in {"up", "down"} /\ isConnected = (link = "up") /\ dials = 1
    /\ at = [t \in Threads |-> "idle"] /\ arg = [t \in Threads |-> Unset]
    /\ server = Unset /\ raced = FALSE /\ terminated = FALSE

\* A SendState begins while one of those threads is in SendState.
Races(others) == raced' = (raced \/ \E t \in others : at[t] # "idle")

Idle(t) == ~terminated /\ at[t] = "idle"
Sending(t, l) == ~terminated /\ at[t] = l

BeginSend(t, s) ==
    /\ at' = [at EXCEPT ![t] = "assign"]
    /\ arg' = [arg EXCEPT ![t] = s]

\* The lock guard of SetState and of the broadcast goes out of scope.
EndSend(t) ==
    /\ at' = [at EXCEPT ![t] = "idle"]
    /\ arg' = [arg EXCEPT ![t] = Unset]
    /\ lock' = IF lock = t THEN "free" ELSE lock

-----------------------------------------------------------------------------
(* SignalingClient::SendState on thread t.                                 *)

AssignLatest(t) ==
    /\ Sending(t, "assign")
    /\ latest' = arg[t]
    /\ at' = [at EXCEPT ![t] = "test"]
    /\ UNCHANGED <<state, lock, isConnected, link, dials, arg, server, terminated, raced>>

TestConnected(t) ==
    /\ Sending(t, "test")
    /\ IF isConnected
         THEN at' = [at EXCEPT ![t] = "build"] /\ UNCHANGED <<arg, lock>>
         ELSE EndSend(t)
    /\ UNCHANGED <<state, latest, isConnected, link, dials, server, terminated, raced>>

\* The message carries latest_state_, which is read again here.
BuildMessage(t) ==
    /\ Sending(t, "build")
    /\ arg' = [arg EXCEPT ![t] = latest]
    /\ at' = [at EXCEPT ![t] = "send"]
    /\ UNCHANGED <<state, lock, latest, isConnected, link, dials, server, terminated, raced>>

SendWsMessage(t) ==
    /\ Sending(t, "send")
    /\ server' = IF link = "up" THEN arg[t] ELSE server
    /\ EndSend(t)
    /\ UNCHANGED <<state, latest, isConnected, link, dials, terminated, raced>>

\* An exception ends SetState's caller, or the task that connects; nothing
\* catches it on the broadcast thread.
SendThrows(t) ==
    /\ SendMayFail
    /\ Sending(t, "send") /\ link = "up"
    /\ EndSend(t)
    /\ terminated' = (t = "broadcast")
    /\ UNCHANGED <<state, latest, isConnected, link, dials, server, raced>>

SendState(t) ==
    AssignLatest(t) \/ TestConnected(t) \/ BuildMessage(t)
      \/ SendWsMessage(t) \/ SendThrows(t)

-----------------------------------------------------------------------------
(* ConnectorStateManager.                                                  *)

\* Mutant: the state is sent without the mutex.
SetState_unlocked ==
    /\ Idle("setter") /\ state < MaxChanges
    /\ Races({"connect"})
    /\ state' = state + 1
    /\ BeginSend("setter", state + 1)
    /\ UNCHANGED <<lock, latest, isConnected, link, dials, server, terminated>>

SetState ==
    /\ Idle("setter") /\ lock = "free" /\ state < MaxChanges
    /\ Races({"connect"})
    /\ lock' = "setter"
    /\ state' = state + 1
    /\ BeginSend("setter", state + 1)
    /\ UNCHANGED <<latest, isConnected, link, dials, server, terminated>>

\* Mutant: the broadcast repeats the latest status instead of the state.
StateBroadcastWorker_latest ==
    /\ Idle("broadcast") /\ lock = "free" /\ latest # Unset
    /\ Races({"connect"})
    /\ lock' = "broadcast"
    /\ BeginSend("broadcast", latest)
    /\ UNCHANGED <<state, latest, isConnected, link, dials, server, terminated>>

\* The broadcast thread wakes up once a second.
StateBroadcastWorker ==
    /\ Idle("broadcast") /\ lock = "free"
    /\ Races({"connect"})
    /\ lock' = "broadcast"
    /\ BeginSend("broadcast", state)
    /\ UNCHANGED <<state, latest, isConnected, link, dials, server, terminated>>

-----------------------------------------------------------------------------
(* The WebSocket link and the callbacks SignalingClient gave it.           *)

\* connectInternal, five seconds after a close.
Dial ==
    /\ ~terminated /\ link = "down" /\ dials < MaxDials /\ Idle("connect")
    /\ link' = "dialing" /\ dials' = dials + 1
    /\ UNCHANGED <<state, lock, latest, isConnected, at, arg, server, terminated, raced>>

ConnectFails ==
    /\ ~terminated /\ link = "dialing"
    /\ link' = "down"
    /\ UNCHANGED <<state, lock, latest, isConnected, dials, at, arg, server, terminated, raced>>

OnConnected ==
    /\ Idle("connect") /\ link = "dialing"
    /\ link' = "up" /\ isConnected' = TRUE
    /\ IF latest # Unset
         THEN /\ BeginSend("connect", latest)
              /\ Races({"setter", "broadcast"})
         ELSE UNCHANGED <<at, arg, raced>>
    /\ UNCHANGED <<state, lock, latest, dials, server, terminated>>

\* handleClose, then onDisconnected.
OnDisconnected ==
    /\ ~terminated /\ link = "up"
    /\ link' = "down" /\ isConnected' = FALSE
    /\ UNCHANGED <<state, lock, latest, dials, at, arg, server, terminated, raced>>

\* An exception in handleMessage: the link stays up.
OnError ==
    /\ MayMisread
    /\ ~terminated /\ link = "up" /\ isConnected
    /\ isConnected' = FALSE
    /\ UNCHANGED <<state, lock, latest, link, dials, at, arg, server, terminated, raced>>

Terminated == terminated /\ UNCHANGED vars

Next ==
    \/ \E t \in Threads : SendState(t)
    \/ SetState \/ StateBroadcastWorker
    \/ Dial \/ ConnectFails \/ OnConnected \/ OnDisconnected \/ OnError
    \/ Terminated

Spec == Init /\ [][Next]_vars

\* Threads inside SendState go on; the broadcast thread's timer fires and it
\* gets the mutex again and again.  The link owes nothing.
Fairness ==
    /\ \A t \in Threads : WF_vars(SendState(t))
    /\ SF_vars(StateBroadcastWorker)

FairSpec == Spec /\ Fairness

-----------------------------------------------------------------------------
(* Properties.                                                             *)

\* The mutex is held exactly by the thread that announces a state, and what
\* that thread has assigned to latest_state_ is the state it announces, as
\* long as no onConnected callback has written latest_state_ beside it.
AnnouncesCurrentState ==
    \A t \in {"setter", "broadcast"} :
        /\ at[t] # "idle" <=> lock = t
        /\ ~raced /\ at[t] # "idle" => arg[t] = state
        /\ ~raced /\ at[t] \in {"test", "build", "send"} => latest = state

\* As long as no resend has raced with a SendState, the statuses the server
\* receives never go back to an older one.
StatusNeverGoesBack == [][~raced => server' >= server]_server

\* Once the link is up and stays so, and the client believes it is connected,
\* the server ends up knowing the connector's state, whatever was lost or
\* resent on the way; the broadcast repairs a stale resend.
ServerLearnsState ==
    <>[](link = "up" /\ isConnected /\ ~terminated) => <>[](server = state)

\* "state manager will automatically notify signaling server about connected
\* state": over a link that is up, the server ends up knowing the state.
AutomaticallyNotified == <>[](link = "up" /\ ~terminated) => <>[](server = state)
=============================================================================
