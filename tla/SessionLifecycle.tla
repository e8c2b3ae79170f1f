--------------------------- MODULE SessionLifecycle ---------------------------
(***************************************************************************)
(* What a connector promises the signaling server about its sessions and   *)
(* the status it announces (ConnectorStateManager::State):                 *)
(*   - one session at a time, each a new one, opened only after            *)
(*     RTC_CONNECTING was announced in answer to an offer;                 *)
(*   - an offer is accepted only from READY_TO_CONNECT;                    *)
(*   - READY_TO_CONNECT is announced again only when no session is left,   *)
(*     and a close that was announced comes to that end;                   *)
(*   - after the shutdown was announced nothing is opened or announced.    *)
(* A connected report that reaches the connector while it closes may still *)
(* be announced before READY_TO_CONNECT (ReportLate).                      *)
(***************************************************************************)
EXTENDS Naturals

CONSTANT MaxSessions    \* bound: sessions opened in one behaviour

VARIABLES status, session, opened

vars == <<status, session, opened>>

Init == status = "INITIALIZING" /\ session = 0 /\ opened = 0

Start ==
    /\ status = "INITIALIZING"
    /\ status' = "READY_TO_CONNECT"
    /\ UNCHANGED <<session, opened>>

Accept ==
    /\ status = "READY_TO_CONNECT" /\ session = 0
    /\ status' = "RTC_CONNECTING"
    /\ UNCHANGED <<session, opened>>

Open ==
    /\ status = "RTC_CONNECTING" /\ session = 0 /\ opened < MaxSessions
    /\ session' = opened + 1 /\ opened' = opened + 1
    /\ UNCHANGED status

Connect ==
    /\ session # 0 /\ status = "RTC_CONNECTING"
    /\ status' = "RTC_CONNECTED"
    /\ UNCHANGED <<session, opened>>

ReportLate ==
    /\ session # 0 /\ status = "RTC_DISCONNECTING"
    /\ status' = "RTC_CONNECTED"
    /\ UNCHANGED <<session, opened>>

BeginClose ==
    /\ session # 0 /\ status \in {"RTC_CONNECTING", "RTC_CONNECTED"}
    /\ status' = "RTC_DISCONNECTING"
    /\ UNCHANGED <<session, opened>>

End ==
    /\ session # 0 /\ status \in {"RTC_DISCONNECTING", "RTC_CONNECTED"}
    /\ session' = 0
    /\ UNCHANGED <<status, opened>>

EndAnnounced == status = "RTC_DISCONNECTING" /\ End

Closed ==
    /\ session = 0 /\ status \in {"RTC_DISCONNECTING", "RTC_CONNECTED"}
    /\ status' = "READY_TO_CONNECT"
    /\ UNCHANGED <<session, opened>>

ShutDown ==
    /\ status # "DISCONNECTED" /\ status' = "DISCONNECTED"
    /\ UNCHANGED <<session, opened>>

Drop ==
    /\ status = "DISCONNECTED" /\ session # 0 /\ session' = 0
    /\ UNCHANGED <<status, opened>>

Next ==
    \/ Start \/ Accept \/ Open \/ Connect \/ ReportLate \/ BeginClose
    \/ End \/ Closed \/ ShutDown \/ Drop

SafeSpec == Init /\ [][Next]_vars

Spec == SafeSpec /\ WF_vars(Open) /\ WF_vars(EndAnnounced) /\ WF_vars(Closed)
                 /\ WF_vars(Drop)
=============================================================================
