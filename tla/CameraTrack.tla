----------------------------- MODULE CameraTrack -----------------------------
(***************************************************************************)
(* A camera's media track: AMediaTrackHandler and its track source, and    *)
(* OpenCVCameraMediaTrack with its frame loop thread.                      *)
(*                                                                         *)
(* CreateVideoTrackSource runs on WebRTC's thread ("open"), Close on the   *)
(* thread that closes the session ("close"); nothing locks them against    *)
(* each other, and PeerConnectionManager shows when they interleave:       *)
(* overlapped records it.  The frame loop is a thread of its own in any    *)
(* case.  Two threads that close at the same time are left out.  Each step *)
(* is one access to what they share.                                       *)
(***************************************************************************)
EXTENDS Naturals, FiniteSets

CONSTANTS
    MaxLoops,       \* bound: frame loop threads in one behaviour
    OpenMayFail     \* the camera may not open

ASSUME CameraAssumption ==
    /\ MaxLoops \in Nat \ {0}
    /\ OpenMayFail \in BOOLEAN

VARIABLES
    source,     \* actual_video_track_source_ is not nullptr
    running,    \* its is_running_
    stopFlag,   \* its stop_flag_
    loop,       \* per frame loop thread: "new", "test", "frame", "ended"
    handle,     \* frame_loop_thread_: a frame loop that was not joined, or 0
    started,    \* frame loops created so far
    at,         \* next access of "open" and "close"
    overlapped, \* they were in a call at the same time
    fault       \* how the process died, "none" while it runs

vars == <<source, running, stopFlag, loop, handle, started, at, overlapped, fault>>
flags == <<source, running, stopFlag>>
threads == <<loop, handle, started>>
calls == <<at, overlapped>>

Callers == {"open", "close"}
Loops == 1..MaxLoops
Locations == {"idle", "create", "running?", "capture", "setRunning", "clearStop",
              "startLoop", "setStop", "joinable?", "join", "reset", "clearRunning",
              "clear"}

TypeOK ==
    /\ {source, running, stopFlag} \subseteq BOOLEAN
    /\ loop \in [Loops -> {"new", "test", "frame", "ended"}]
    /\ handle \in 0..MaxLoops
    /\ started \in 0..MaxLoops
    /\ at \in [Callers -> Locations]
    /\ overlapped \in BOOLEAN
    /\ fault \in {"none", "null", "joinable"}

Init ==
    /\ source = FALSE /\ running = FALSE /\ stopFlag = FALSE
    /\ loop = [i \in Loops |-> "new"] /\ handle = 0 /\ started = 0
    /\ at = [c \in Callers |-> "idle"] /\ overlapped = FALSE
    /\ fault = "none"

At(c, l) == fault = "none" /\ at[c] = l
Goto(c, l) == at' = [at EXCEPT ![c] = l] /\ overlapped' = overlapped

\* Caller c begins its call.
Begin(c, l) ==
    /\ At(c, "idle")
    /\ at' = [at EXCEPT ![c] = l]
    /\ overlapped' = (overlapped \/ \E d \in Callers : at[d] # "idle")

\* Every access tests the source pointer and then follows it.  Beside the
\* assignment of nullptr in Close, the second read may find nullptr.
Follows ==
    \/ fault' = fault
    \/ source /\ at["close"] = "clear" /\ fault' = "null"

\* IsRunning() is false without a source.
IsRunning == source /\ running

-----------------------------------------------------------------------------
(* CreateVideoTrackSource, then Start.                                     *)

CreateVideoTrackSource ==
    /\ started < MaxLoops
    /\ Begin("open", "create")
    /\ UNCHANGED <<flags, threads, fault>>

\* A source is kept until Close; a new one neither runs nor stops.
CreateSource ==
    /\ At("open", "create")
    /\ source' = TRUE
    /\ running' = IsRunning /\ stopFlag' = (source /\ stopFlag)
    /\ Goto("open", "running?")
    /\ UNCHANGED <<threads, fault>>

TestStarted ==
    /\ At("open", "running?")
    /\ Follows
    /\ Goto("open", IF IsRunning THEN "idle" ELSE "capture")
    /\ UNCHANGED <<flags, threads>>

OpenCapture ==
    /\ At("open", "capture")
    /\ \/ Goto("open", "setRunning")
       \/ OpenMayFail /\ Goto("open", "idle")
    /\ UNCHANGED <<flags, threads, fault>>

SetRunning ==
    /\ At("open", "setRunning")
    /\ Follows
    /\ running' = source
    /\ Goto("open", "clearStop")
    /\ UNCHANGED <<source, stopFlag, threads>>

ClearStop ==
    /\ At("open", "clearStop")
    /\ Follows
    /\ stopFlag' = FALSE
    /\ Goto("open", "startLoop")
    /\ UNCHANGED <<source, running, threads>>

\* A std::thread that is replaced while it is joinable ends the process.
StartLoop ==
    /\ At("open", "startLoop")
    /\ fault' = IF handle = 0 THEN fault ELSE "joinable"
    /\ started' = started + 1 /\ handle' = started + 1
    /\ loop' = [loop EXCEPT ![started + 1] = "test"]
    /\ Goto("open", "idle")
    /\ UNCHANGED flags

OpenNext ==
    \/ CreateVideoTrackSource \/ CreateSource \/ TestStarted \/ OpenCapture
    \/ SetRunning \/ ClearStop \/ StartLoop

-----------------------------------------------------------------------------
(* Close: Stop, then the source is released.  StopRecording is not done:    *)
(* the camera's track is not recordable.                                   *)

Close ==
    /\ Begin("close", "running?")
    /\ UNCHANGED <<flags, threads, fault>>

\* Mutant: Close releases the source without stopping the track.
TestRunning_never ==
    /\ At("close", "running?")
    /\ Goto("close", "clear")
    /\ UNCHANGED <<flags, threads, fault>>

TestRunning ==
    /\ At("close", "running?")
    /\ Goto("close", IF IsRunning THEN "setStop" ELSE "clear")
    /\ UNCHANGED <<flags, threads, fault>>

\* Mutant: the loop is not told to stop.
SetStop_forgotten ==
    /\ At("close", "setStop")
    /\ Goto("close", "joinable?")
    /\ UNCHANGED <<flags, threads, fault>>

SetStop ==
    /\ At("close", "setStop")
    /\ stopFlag' = TRUE
    /\ Goto("close", "joinable?")
    /\ UNCHANGED <<source, running, threads, fault>>

\* Mutant: the loop is stopped but not waited for.
TestJoinable_detaches ==
    /\ At("close", "joinable?")
    /\ Goto("close", "reset")
    /\ handle' = 0
    /\ UNCHANGED <<flags, loop, started, fault>>

TestJoinable ==
    /\ At("close", "joinable?")
    /\ Goto("close", IF handle # 0 THEN "join" ELSE "reset")
    /\ UNCHANGED <<flags, threads, fault>>

Join ==
    /\ At("close", "join") /\ handle # 0 /\ loop[handle] = "ended"
    /\ handle' = 0
    /\ Goto("close", "reset")
    /\ UNCHANGED <<flags, loop, started, fault>>

\* frame_loop_thread_.reset()
Reset ==
    /\ At("close", "reset")
    /\ fault' = IF handle = 0 THEN fault ELSE "joinable"
    /\ handle' = 0
    /\ Goto("close", "clearRunning")
    /\ UNCHANGED <<flags, loop, started>>

ClearRunning ==
    /\ At("close", "clearRunning")
    /\ running' = FALSE
    /\ Goto("close", "clear")
    /\ UNCHANGED <<source, stopFlag, threads, fault>>

ClearSource ==
    /\ At("close", "clear")
    /\ source' = FALSE /\ running' = FALSE /\ stopFlag' = FALSE
    /\ Goto("close", "idle")
    /\ UNCHANGED <<threads, fault>>

CloseNext ==
    \/ Close \/ TestRunning \/ SetStop \/ TestJoinable \/ Join \/ Reset
    \/ ClearRunning \/ ClearSource

-----------------------------------------------------------------------------
(* The frame loop.  GetStopFlag() is false without a source.               *)

TestStop(i) ==
    /\ fault = "none" /\ loop[i] = "test"
    /\ Follows
    /\ loop' = [loop EXCEPT ![i] = IF source /\ stopFlag THEN "ended" ELSE "frame"]
    /\ UNCHANGED <<flags, handle, started, calls>>

FrameLoop(i) ==
    /\ fault = "none" /\ loop[i] = "frame"
    /\ Follows
    /\ loop' = [loop EXCEPT ![i] = "test"]
    /\ UNCHANGED <<flags, handle, started, calls>>

Iterates(i) == TestStop(i) \/ FrameLoop(i)

Died == fault # "none" /\ UNCHANGED vars

Next == OpenNext \/ CloseNext \/ (\E i \in Loops : Iterates(i)) \/ Died

Spec == Init /\ [][Next]_vars

\* Threads in a call go on, and so does the frame loop; no call has to come.
Fairness ==
    /\ WF_vars(at["open"] # "idle" /\ OpenNext)
    /\ WF_vars(at["close"] # "idle" /\ CloseNext)
    /\ \A i \in Loops : WF_vars(Iterates(i))

FairSpec == Spec /\ Fairness

-----------------------------------------------------------------------------
(* Properties.                                                             *)

Live == {i \in Loops : loop[i] \in {"test", "frame"}}

\* The process does not die of a frame loop: as long as starts and closes come
\* one after the other, no loop is replaced or dropped while it can be joined,
\* and none follows a source that Close takes away.
NeverDies == fault # "none" => overlapped

\* One frame loop reads the camera at a time, and the handler can join it.
\* Between calls the source says that it runs exactly while that loop does:
\* when Close has returned, the camera is not read any more.
OneLoop ==
    ~overlapped =>
        /\ \A i, j \in Live : i = j /\ i = handle
        /\ (\A c \in Callers : at[c] = "idle") => (IsRunning <=> Live # {})

\* Close returns: the loop it waits for sees the stop flag.  Even when a start
\* interleaves with it, it waits for ever only for a loop that was told to go on
\* behind its back.
CloseReturns ==
    /\ at["close"] # "idle" ~> at["close"] = "idle" \/ overlapped
    /\ at["close"] = "join" /\ stopFlag
         ~> at["close"] # "join" \/ ~stopFlag \/ fault # "none"
=============================================================================
