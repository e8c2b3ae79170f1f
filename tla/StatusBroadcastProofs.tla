------------------------ MODULE StatusBroadcastProofs ------------------------
(***************************************************************************)
(* For any number of state changes and reconnects: the variables keep      *)
(* their types, and as long as no onConnected callback has run beside a     *)
(* SendState of the state manager, statuses reach the server in order.     *)
(***************************************************************************)
EXTENDS StatusBroadcast, TLAPS

LEMMA InitType == Init => TypeOK
<1> SUFFICES ASSUME Init PROVE TypeOK
  OBVIOUS
<1>1. 0 \in Statuses /\ 1 \in 0..MaxDials
  BY BroadcastAssumption DEF BroadcastAssumption, Statuses
<1> QED
  BY <1>1 DEF Init, TypeOK

LEMMA TypeStep == TypeOK /\ [Next]_vars => TypeOK'
<1> SUFFICES ASSUME TypeOK, [Next]_vars PROVE TypeOK'
  OBVIOUS
<1> USE BroadcastAssumption
    DEF BroadcastAssumption, TypeOK, Threads, Idle, Sending, BeginSend, EndSend,
        Races
<1>1. CASE UNCHANGED vars
  BY <1>1 DEF vars
<1>2. ASSUME NEW t \in Threads, SendState(t) PROVE TypeOK'
  <2>1. CASE AssignLatest(t)
    <3>1. at[t] # "idle"
      BY <2>1 DEF AssignLatest
    <3> QED
      BY <2>1, <3>1 DEF AssignLatest
  <2>2. CASE TestConnected(t)
    BY <2>2 DEF TestConnected
  <2>3. CASE BuildMessage(t)
    BY <2>3 DEF BuildMessage
  <2>4. CASE SendWsMessage(t)
    BY <2>4 DEF SendWsMessage
  <2>5. CASE SendThrows(t)
    BY <2>5 DEF SendThrows
  <2> QED
    BY <1>2, <2>1, <2>2, <2>3, <2>4, <2>5 DEF SendState
<1>3. CASE SetState
  <2>1. state + 1 \in Statuses
    BY <1>3 DEF SetState, Statuses
  <2> QED
    BY <1>3, <2>1 DEF SetState
<1>4. CASE StateBroadcastWorker
  BY <1>4 DEF StateBroadcastWorker
<1>5. CASE Dial
  BY <1>5 DEF Dial
<1>6. CASE ConnectFails
  BY <1>6 DEF ConnectFails
<1>7. CASE OnConnected
  BY <1>7 DEF OnConnected
<1>8. CASE OnDisconnected
  BY <1>8 DEF OnDisconnected
<1>9. CASE OnError
  BY <1>9 DEF OnError
<1>10. CASE Terminated
  BY <1>10 DEF Terminated, vars
<1> QED
  BY <1>1, <1>2, <1>3, <1>4, <1>5, <1>6, <1>7, <1>8, <1>9, <1>10 DEF Next

\* The variables keep their types, whatever the link does.
THEOREM TypeCorrect == Spec => []TypeOK
  BY InitType, TypeStep, PTL DEF Spec

-----------------------------------------------------------------------------
(* Order, when onConnected does not race.                                  *)

\* The resend of onConnected has SendState to itself.
ConnectAlone ==
    at["connect"] # "idle" =>
        /\ at["setter"] = "idle" /\ at["broadcast"] = "idle"
        /\ arg["connect"] = latest

\* What was sent is not newer than what is to be sent.
InOrder ==
    /\ server <= latest /\ latest <= state
    /\ \A t \in {"setter", "broadcast"} : at[t] # "idle" => arg[t] = state

BInv == TypeOK /\ AnnouncesCurrentState /\ (~raced => ConnectAlone /\ InOrder)

LEMMA InitBInv == Init => BInv
<1> SUFFICES ASSUME Init PROVE BInv
  OBVIOUS
<1>1. TypeOK
  BY InitType
<1>2. AnnouncesCurrentState /\ ConnectAlone /\ InOrder
  BY BroadcastAssumption DEF BroadcastAssumption, Init, AnnouncesCurrentState, ConnectAlone, InOrder, Threads, Unset
<1> QED
  BY <1>1, <1>2 DEF BInv

LEMMA StepBInv == BInv /\ [Next]_vars => BInv'
<1> SUFFICES ASSUME BInv, [Next]_vars PROVE BInv'
  OBVIOUS
<1>0. TypeOK'
  BY TypeStep DEF BInv
<1> USE BroadcastAssumption, <1>0
    DEF BroadcastAssumption, TypeOK, Threads, Statuses, Unset, Idle, Sending,
        BeginSend, EndSend, Races, AnnouncesCurrentState, ConnectAlone, InOrder, BInv
<1>1. CASE UNCHANGED vars
  BY <1>1 DEF vars
<1>2. ASSUME NEW t \in Threads, SendState(t) PROVE BInv'
  <2>1. CASE AssignLatest(t)
    BY <2>1 DEF AssignLatest
  <2>2. CASE TestConnected(t)
    BY <2>2 DEF TestConnected
  <2>3. CASE BuildMessage(t)
    BY <2>3 DEF BuildMessage
  <2>4. CASE SendWsMessage(t)
    BY <2>4 DEF SendWsMessage
  <2>5. CASE SendThrows(t)
    BY <2>5 DEF SendThrows
  <2> QED
    BY <1>2, <2>1, <2>2, <2>3, <2>4, <2>5 DEF SendState
<1>3. CASE SetState
  <2>1. AnnouncesCurrentState'
    BY <1>3 DEF SetState
  <2>2. ~raced' => ~raced /\ at["connect"] = "idle"
    BY <1>3 DEF SetState
  <2>3. ~raced' => ConnectAlone' /\ InOrder'
    BY <1>3, <2>2 DEF SetState
  <2> QED
    BY <2>1, <2>3
<1>4. CASE StateBroadcastWorker
  <2>1. AnnouncesCurrentState'
    BY <1>4 DEF StateBroadcastWorker
  <2>2. ~raced' => ~raced /\ at["connect"] = "idle"
    BY <1>4 DEF StateBroadcastWorker
  <2>3. ~raced' => ConnectAlone' /\ InOrder'
    BY <1>4, <2>2 DEF StateBroadcastWorker
  <2> QED
    BY <2>1, <2>3
<1>5. CASE Dial
  BY <1>5 DEF Dial
<1>6. CASE ConnectFails
  BY <1>6 DEF ConnectFails
<1>7. CASE OnConnected
  BY <1>7 DEF OnConnected
<1>8. CASE OnDisconnected
  BY <1>8 DEF OnDisconnected
<1>9. CASE OnError
  BY <1>9 DEF OnError
<1>10. CASE Terminated
  BY <1>10 DEF Terminated, vars
<1> QED
  BY <1>1, <1>2, <1>3, <1>4, <1>5, <1>6, <1>7, <1>8, <1>9, <1>10 DEF Next

LEMMA Invariance == Spec => []BInv
  BY InitBInv, StepBInv, PTL DEF Spec

\* The mutex makes SetState and the broadcast announce the state that holds
\* while they send it.
THEOREM Announces == Spec => []AnnouncesCurrentState
<1>1. BInv => AnnouncesCurrentState
  BY DEF BInv
<1> QED
  BY <1>1, Invariance, PTL

LEMMA ServerStep == BInv /\ [Next]_vars => [~raced => server' >= server]_server
<1> SUFFICES ASSUME BInv, Next, server' # server, ~raced PROVE server' >= server
  BY DEF vars
<1>1. PICK t \in Threads : SendWsMessage(t)
  BY DEF Next, SendState, AssignLatest, TestConnected, BuildMessage, SendThrows,
         SetState, StateBroadcastWorker, Dial, ConnectFails, OnConnected,
         OnDisconnected, OnError, Terminated, vars
<1>2. server' = arg[t]
  BY <1>1 DEF SendWsMessage
<1>3. arg[t] = state \/ arg[t] = latest
  BY <1>1 DEF SendWsMessage, Sending, Threads, BInv, InOrder, ConnectAlone
<1> QED
  BY <1>2, <1>3, BroadcastAssumption
  DEF BroadcastAssumption, BInv, TypeOK, InOrder, Statuses, Unset

\* The server never receives an older status after a newer one.
THEOREM NeverGoesBack == Spec => StatusNeverGoesBack
  BY ServerStep, Invariance, PTL DEF Spec, StatusNeverGoesBack
=============================================================================
