-------------------------- MODULE CameraTrackProofs --------------------------
(***************************************************************************)
(* The camera's track, proved for any number of starts and closes: as long *)
(* as they come one after the other, the frame loop, the handle and the    *)
(* flags of the source agree at every access.                              *)
(***************************************************************************)
EXTENDS CameraTrack, TLAPS

\* There is a number left for the loop that a call is about to start, and the
\* loops are numbered in order.
Numbering ==
    /\ at["open"] # "idle" => started < MaxLoops
    /\ handle <= started
    /\ \A i \in Loops : i > started => loop[i] = "new"

\* Every loop but the one that can be joined has ended.
Joined == \A i \in Loops : i <= started /\ i # handle => loop[i] = "ended"

Runs ==
    /\ source /\ running /\ ~stopFlag
    /\ handle # 0 /\ loop[handle] \in {"test", "frame"}
Rests == ~running /\ ~stopFlag /\ handle = 0

\* What the source and the thread are, by where the caller is.
OpenAt ==
    /\ at["open"] = "idle" \/ at["close"] = "idle"
    /\ at["open"] \in {"idle", "create", "running?", "capture", "setRunning",
                       "clearStop", "startLoop"}
    /\ at["open"] \in {"create", "running?"} => Runs \/ Rests
    /\ at["open"] = "running?" => source
    /\ at["open"] \in {"capture", "setRunning"} => Rests /\ source
    /\ at["open"] \in {"clearStop", "startLoop"} =>
         source /\ running /\ ~stopFlag /\ handle = 0

CloseAt ==
    /\ at["close"] \in {"idle", "running?", "setStop", "joinable?", "join",
                        "reset", "clearRunning", "clear"}
    /\ at["open"] = "idle" /\ at["close"] \in {"idle", "running?"} => Runs \/ Rests
    /\ at["close"] = "setStop" => Runs
    /\ at["close"] \in {"joinable?", "join"} =>
         source /\ running /\ stopFlag /\ handle # 0
    /\ at["close"] \in {"reset", "clearRunning"} => source /\ handle = 0
    /\ at["close"] = "clear" => ~running /\ handle = 0

\* The second half is what the calls owe to coming one after the other.
IInv ==
    /\ TypeOK /\ Numbering
    /\ ~overlapped => fault = "none" /\ Joined /\ OpenAt /\ CloseAt

------------------------------------------------------------------------------
(* CreateVideoTrackSource and Start. *)

LEMMA CreateVideoTrackSourceKeeps ==
  ASSUME IInv, CreateVideoTrackSource
  PROVE  IInv'
<1>1. TypeOK'
  BY CameraAssumption DEF IInv, TypeOK, Numbering, Locations,
     CreateVideoTrackSource, At, Begin, flags, threads, calls, Callers, Loops
<1>2. Numbering'
  BY CameraAssumption DEF IInv, TypeOK, Numbering, CreateVideoTrackSource, At,
     Begin, flags, threads, calls, Callers, Loops
<1>3. ~overlapped' => fault' = "none" /\ Joined'
  BY CameraAssumption DEF IInv, TypeOK, Numbering, Joined, OpenAt, CloseAt,
     Runs, Rests, CreateVideoTrackSource, At, Begin, flags, threads, calls,
     Callers, Loops
<1>4. ~overlapped' => OpenAt' /\ CloseAt'
  BY CameraAssumption DEF IInv, TypeOK, Numbering, Joined, OpenAt, CloseAt,
     Runs, Rests, CreateVideoTrackSource, At, Begin, flags, threads, calls,
     Callers, Loops
<1> QED
  BY <1>1, <1>2, <1>3, <1>4 DEF IInv

LEMMA CreateSourceKeeps ==
  ASSUME IInv, CreateSource
  PROVE  IInv'
<1>1. TypeOK'
  BY CameraAssumption DEF IInv, TypeOK, Numbering, Locations, CreateSource, At,
     Goto, IsRunning, flags, threads, calls, Callers, Loops
<1>2. Numbering'
  BY CameraAssumption DEF IInv, TypeOK, Numbering, CreateSource, At, Goto,
     IsRunning, flags, threads, calls, Callers, Loops
<1>3. ~overlapped' => fault' = "none" /\ Joined'
  BY CameraAssumption DEF IInv, TypeOK, Numbering, Joined, OpenAt, CloseAt,
     Runs, Rests, CreateSource, At, Goto, IsRunning, flags, threads, calls,
     Callers, Loops
<1>4. ~overlapped' => OpenAt' /\ CloseAt'
  BY CameraAssumption DEF IInv, TypeOK, Numbering, Joined, OpenAt, CloseAt,
     Runs, Rests, CreateSource, At, Goto, IsRunning, flags, threads, calls,
     Callers, Loops
<1> QED
  BY <1>1, <1>2, <1>3, <1>4 DEF IInv

LEMMA TestStartedKeeps ==
  ASSUME IInv, TestStarted
  PROVE  IInv'
<1>1. TypeOK'
  BY CameraAssumption DEF IInv, TypeOK, Numbering, Locations, TestStarted, At,
     Goto, Follows, IsRunning, flags, threads, calls, Callers, Loops
<1>2. Numbering'
  BY CameraAssumption DEF IInv, TypeOK, Numbering, TestStarted, At, Goto,
     Follows, IsRunning, flags, threads, calls, Callers, Loops
<1>3. ~overlapped' => fault' = "none" /\ Joined'
  BY CameraAssumption DEF IInv, TypeOK, Numbering, Joined, OpenAt, CloseAt,
     Runs, Rests, TestStarted, At, Goto, Follows, IsRunning, flags, threads,
     calls, Callers, Loops
<1>4. ~overlapped' => OpenAt' /\ CloseAt'
  BY CameraAssumption DEF IInv, TypeOK, Numbering, Joined, OpenAt, CloseAt,
     Runs, Rests, TestStarted, At, Goto, Follows, IsRunning, flags, threads,
     calls, Callers, Loops
<1> QED
  BY <1>1, <1>2, <1>3, <1>4 DEF IInv

LEMMA OpenCaptureKeeps ==
  ASSUME IInv, OpenCapture
  PROVE  IInv'
<1>1. TypeOK'
  BY CameraAssumption DEF IInv, TypeOK, Numbering, Locations, OpenCapture, At,
     Goto, flags, threads, calls, Callers, Loops
<1>2. Numbering'
  BY CameraAssumption DEF IInv, TypeOK, Numbering, OpenCapture, At, Goto,
     flags, threads, calls, Callers, Loops
<1>3. ~overlapped' => fault' = "none" /\ Joined'
  BY CameraAssumption DEF IInv, TypeOK, Numbering, Joined, OpenAt, CloseAt,
     Runs, Rests, OpenCapture, At, Goto, flags, threads, calls, Callers, Loops
<1>4. ~overlapped' => OpenAt' /\ CloseAt'
  BY CameraAssumption DEF IInv, TypeOK, Numbering, Joined, OpenAt, CloseAt,
     Runs, Rests, OpenCapture, At, Goto, flags, threads, calls, Callers, Loops
<1> QED
  BY <1>1, <1>2, <1>3, <1>4 DEF IInv

LEMMA SetRunningKeeps ==
  ASSUME IInv, SetRunning
  PROVE  IInv'
<1>1. TypeOK'
  BY CameraAssumption DEF IInv, TypeOK, Numbering, Locations, SetRunning, At,
     Goto, Follows, flags, threads, calls, Callers, Loops
<1>2. Numbering'
  BY CameraAssumption DEF IInv, TypeOK, Numbering, SetRunning, At, Goto,
     Follows, flags, threads, calls, Callers, Loops
<1>3. ~overlapped' => fault' = "none" /\ Joined'
  BY CameraAssumption DEF IInv, TypeOK, Numbering, Joined, OpenAt, CloseAt,
     Runs, Rests, SetRunning, At, Goto, Follows, flags, threads, calls,
     Callers, Loops
<1>4. ~overlapped' => OpenAt' /\ CloseAt'
  BY CameraAssumption DEF IInv, TypeOK, Numbering, Joined, OpenAt, CloseAt,
     Runs, Rests, SetRunning, At, Goto, Follows, flags, threads, calls,
     Callers, Loops
<1> QED
  BY <1>1, <1>2, <1>3, <1>4 DEF IInv

LEMMA ClearStopKeeps ==
  ASSUME IInv, ClearStop
  PROVE  IInv'
<1>1. TypeOK'
  BY CameraAssumption DEF IInv, TypeOK, Numbering, Locations, ClearStop, At,
     Goto, Follows, flags, threads, calls, Callers, Loops
<1>2. Numbering'
  BY CameraAssumption DEF IInv, TypeOK, Numbering, ClearStop, At, Goto,
     Follows, flags, threads, calls, Callers, Loops
<1>3. ~overlapped' => fault' = "none" /\ Joined'
  BY CameraAssumption DEF IInv, TypeOK, Numbering, Joined, OpenAt, CloseAt,
     Runs, Rests, ClearStop, At, Goto, Follows, flags, threads, calls, Callers,
     Loops
<1>4. ~overlapped' => OpenAt' /\ CloseAt'
  BY CameraAssumption DEF IInv, TypeOK, Numbering, Joined, OpenAt, CloseAt,
     Runs, Rests, ClearStop, At, Goto, Follows, flags, threads, calls, Callers,
     Loops
<1> QED
  BY <1>1, <1>2, <1>3, <1>4 DEF IInv

LEMMA StartLoopKeeps ==
  ASSUME IInv, StartLoop
  PROVE  IInv'
<1>1. TypeOK'
  BY CameraAssumption DEF IInv, TypeOK, Numbering, Locations, StartLoop, At,
     Goto, flags, threads, calls, Callers, Loops
<1>2. Numbering'
  BY CameraAssumption DEF IInv, TypeOK, Numbering, StartLoop, At, Goto, flags,
     threads, calls, Callers, Loops
<1>3. ~overlapped' => fault' = "none" /\ Joined'
  BY CameraAssumption DEF IInv, TypeOK, Numbering, Joined, OpenAt, CloseAt,
     Runs, Rests, StartLoop, At, Goto, flags, threads, calls, Callers, Loops
<1>4. ~overlapped' => OpenAt' /\ CloseAt'
  BY CameraAssumption DEF IInv, TypeOK, Numbering, Joined, OpenAt, CloseAt,
     Runs, Rests, StartLoop, At, Goto, flags, threads, calls, Callers, Loops
<1> QED
  BY <1>1, <1>2, <1>3, <1>4 DEF IInv

(* Close. *)

LEMMA CloseKeeps ==
  ASSUME IInv, Close
  PROVE  IInv'
<1>1. TypeOK'
  BY CameraAssumption DEF IInv, TypeOK, Numbering, Locations, Close, At, Begin,
     flags, threads, calls, Callers, Loops
<1>2. Numbering'
  BY CameraAssumption DEF IInv, TypeOK, Numbering, Close, At, Begin, flags,
     threads, calls, Callers, Loops
<1>3. ~overlapped' => fault' = "none" /\ Joined'
  BY CameraAssumption DEF IInv, TypeOK, Numbering, Joined, OpenAt, CloseAt,
     Runs, Rests, Close, At, Begin, flags, threads, calls, Callers, Loops
<1>4. ~overlapped' => OpenAt' /\ CloseAt'
  BY CameraAssumption DEF IInv, TypeOK, Numbering, Joined, OpenAt, CloseAt,
     Runs, Rests, Close, At, Begin, flags, threads, calls, Callers, Loops
<1> QED
  BY <1>1, <1>2, <1>3, <1>4 DEF IInv

LEMMA TestRunningKeeps ==
  ASSUME IInv, TestRunning
  PROVE  IInv'
<1>1. TypeOK'
  BY CameraAssumption DEF IInv, TypeOK, Numbering, Locations, TestRunning, At,
     Goto, IsRunning, flags, threads, calls, Callers, Loops
<1>2. Numbering'
  BY CameraAssumption DEF IInv, TypeOK, Numbering, TestRunning, At, Goto,
     IsRunning, flags, threads, calls, Callers, Loops
<1>3. ~overlapped' => fault' = "none" /\ Joined'
  BY CameraAssumption DEF IInv, TypeOK, Numbering, Joined, OpenAt, CloseAt,
     Runs, Rests, TestRunning, At, Goto, IsRunning, flags, threads, calls,
     Callers, Loops
<1>4. ~overlapped' => OpenAt' /\ CloseAt'
  BY CameraAssumption DEF IInv, TypeOK, Numbering, Joined, OpenAt, CloseAt,
     Runs, Rests, TestRunning, At, Goto, IsRunning, flags, threads, calls,
     Callers, Loops
<1> QED
  BY <1>1, <1>2, <1>3, <1>4 DEF IInv

LEMMA SetStopKeeps ==
  ASSUME IInv, SetStop
  PROVE  IInv'
<1>1. TypeOK'
  BY CameraAssumption DEF IInv, TypeOK, Numbering, Locations, SetStop, At,
     Goto, flags, threads, calls, Callers, Loops
<1>2. Numbering'
  BY CameraAssumption DEF IInv, TypeOK, Numbering, SetStop, At, Goto, flags,
     threads, calls, Callers, Loops
<1>3. ~overlapped' => fault' = "none" /\ Joined'
  BY CameraAssumption DEF IInv, TypeOK, Numbering, Joined, OpenAt, CloseAt,
     Runs, Rests, SetStop, At, Goto, flags, threads, calls, Callers, Loops
<1>4. ~overlapped' => OpenAt' /\ CloseAt'
  BY CameraAssumption DEF IInv, TypeOK, Numbering, Joined, OpenAt, CloseAt,
     Runs, Rests, SetStop, At, Goto, flags, threads, calls, Callers, Loops
<1> QED
  BY <1>1, <1>2, <1>3, <1>4 DEF IInv

LEMMA TestJoinableKeeps ==
  ASSUME IInv, TestJoinable
  PROVE  IInv'
<1>1. TypeOK'
  BY CameraAssumption DEF IInv, TypeOK, Numbering, Locations, TestJoinable, At,
     Goto, flags, threads, calls, Callers, Loops
<1>2. Numbering'
  BY CameraAssumption DEF IInv, TypeOK, Numbering, TestJoinable, At, Goto,
     flags, threads, calls, Callers, Loops
<1>3. ~overlapped' => fault' = "none" /\ Joined'
  BY CameraAssumption DEF IInv, TypeOK, Numbering, Joined, OpenAt, CloseAt,
     Runs, Rests, TestJoinable, At, Goto, flags, threads, calls, Callers, Loops
<1>4. ~overlapped' => OpenAt' /\ CloseAt'
  BY CameraAssumption DEF IInv, TypeOK, Numbering, Joined, OpenAt, CloseAt,
     Runs, Rests, TestJoinable, At, Goto, flags, threads, calls, Callers, Loops
<1> QED
  BY <1>1, <1>2, <1>3, <1>4 DEF IInv

LEMMA JoinKeeps ==
  ASSUME IInv, Join
  PROVE  IInv'
<1>1. TypeOK'
  BY CameraAssumption DEF IInv, TypeOK, Numbering, Locations, Join, At, Goto,
     flags, threads, calls, Callers, Loops
<1>2. Numbering'
  BY CameraAssumption DEF IInv, TypeOK, Numbering, Join, At, Goto, flags,
     threads, calls, Callers, Loops
<1>3. ~overlapped' => fault' = "none" /\ Joined'
  BY CameraAssumption DEF IInv, TypeOK, Numbering, Joined, OpenAt, CloseAt,
     Runs, Rests, Join, At, Goto, flags, threads, calls, Callers, Loops
<1>4. ~overlapped' => OpenAt' /\ CloseAt'
  BY CameraAssumption DEF IInv, TypeOK, Numbering, Joined, OpenAt, CloseAt,
     Runs, Rests, Join, At, Goto, flags, threads, calls, Callers, Loops
<1> QED
  BY <1>1, <1>2, <1>3, <1>4 DEF IInv

LEMMA ResetKeeps ==
  ASSUME IInv, Reset
  PROVE  IInv'
<1>1. TypeOK'
  BY CameraAssumption DEF IInv, TypeOK, Numbering, Locations, Reset, At, Goto,
     flags, threads, calls, Callers, Loops
<1>2. Numbering'
  BY CameraAssumption DEF IInv, TypeOK, Numbering, Reset, At, Goto, flags,
     threads, calls, Callers, Loops
<1>3. ~overlapped' => fault' = "none" /\ Joined'
  BY CameraAssumption DEF IInv, TypeOK, Numbering, Joined, OpenAt, CloseAt,
     Runs, Rests, Reset, At, Goto, flags, threads, calls, Callers, Loops
<1>4. ~overlapped' => OpenAt' /\ CloseAt'
  BY CameraAssumption DEF IInv, TypeOK, Numbering, Joined, OpenAt, CloseAt,
     Runs, Rests, Reset, At, Goto, flags, threads, calls, Callers, Loops
<1> QED
  BY <1>1, <1>2, <1>3, <1>4 DEF IInv

LEMMA ClearRunningKeeps ==
  ASSUME IInv, ClearRunning
  PROVE  IInv'
<1>1. TypeOK'
  BY CameraAssumption DEF IInv, TypeOK, Numbering, Locations, ClearRunning, At,
     Goto, flags, threads, calls, Callers, Loops
<1>2. Numbering'
  BY CameraAssumption DEF IInv, TypeOK, Numbering, ClearRunning, At, Goto,
     flags, threads, calls, Callers, Loops
<1>3. ~overlapped' => fault' = "none" /\ Joined'
  BY CameraAssumption DEF IInv, TypeOK, Numbering, Joined, OpenAt, CloseAt,
     Runs, Rests, ClearRunning, At, Goto, flags, threads, calls, Callers, Loops
<1>4. ~overlapped' => OpenAt' /\ CloseAt'
  BY CameraAssumption DEF IInv, TypeOK, Numbering, Joined, OpenAt, CloseAt,
     Runs, Rests, ClearRunning, At, Goto, flags, threads, calls, Callers, Loops
<1> QED
  BY <1>1, <1>2, <1>3, <1>4 DEF IInv

LEMMA ClearSourceKeeps ==
  ASSUME IInv, ClearSource
  PROVE  IInv'
<1>1. TypeOK'
  BY CameraAssumption DEF IInv, TypeOK, Numbering, Locations, ClearSource, At,
     Goto, flags, threads, calls, Callers, Loops
<1>2. Numbering'
  BY CameraAssumption DEF IInv, TypeOK, Numbering, ClearSource, At, Goto,
     flags, threads, calls, Callers, Loops
<1>3. ~overlapped' => fault' = "none" /\ Joined'
  BY CameraAssumption DEF IInv, TypeOK, Numbering, Joined, OpenAt, CloseAt,
     Runs, Rests, ClearSource, At, Goto, flags, threads, calls, Callers, Loops
<1>4. ~overlapped' => OpenAt' /\ CloseAt'
  BY CameraAssumption DEF IInv, TypeOK, Numbering, Joined, OpenAt, CloseAt,
     Runs, Rests, ClearSource, At, Goto, flags, threads, calls, Callers, Loops
<1> QED
  BY <1>1, <1>2, <1>3, <1>4 DEF IInv

(* The frame loop. *)

LEMMA TestStopKeeps ==
  ASSUME IInv, NEW i \in Loops, TestStop(i)
  PROVE  IInv'
<1>1. TypeOK'
  BY CameraAssumption DEF IInv, TypeOK, Numbering, Locations, TestStop, At,
     Follows, flags, threads, calls, Callers, Loops
<1>2. Numbering'
  BY CameraAssumption DEF IInv, TypeOK, Numbering, TestStop, At, Follows,
     flags, threads, calls, Callers, Loops
<1>3. ~overlapped' => fault' = "none" /\ Joined'
  BY CameraAssumption DEF IInv, TypeOK, Numbering, Joined, OpenAt, CloseAt,
     Runs, Rests, TestStop, At, Follows, flags, threads, calls, Callers, Loops
<1>4. ~overlapped' => OpenAt' /\ CloseAt'
  BY CameraAssumption DEF IInv, TypeOK, Numbering, Joined, OpenAt, CloseAt,
     Runs, Rests, TestStop, At, Follows, flags, threads, calls, Callers, Loops
<1> QED
  BY <1>1, <1>2, <1>3, <1>4 DEF IInv

LEMMA FrameLoopKeeps ==
  ASSUME IInv, NEW i \in Loops, FrameLoop(i)
  PROVE  IInv'
<1>1. TypeOK'
  BY CameraAssumption DEF IInv, TypeOK, Numbering, Locations, FrameLoop, At,
     Follows, flags, threads, calls, Callers, Loops
<1>2. Numbering'
  BY CameraAssumption DEF IInv, TypeOK, Numbering, FrameLoop, At, Follows,
     flags, threads, calls, Callers, Loops
<1>3. ~overlapped' => fault' = "none" /\ Joined'
  BY CameraAssumption DEF IInv, TypeOK, Numbering, Joined, OpenAt, CloseAt,
     Runs, Rests, FrameLoop, At, Follows, flags, threads, calls, Callers, Loops
<1>4. ~overlapped' => OpenAt' /\ CloseAt'
  BY CameraAssumption DEF IInv, TypeOK, Numbering, Joined, OpenAt, CloseAt,
     Runs, Rests, FrameLoop, At, Follows, flags, threads, calls, Callers, Loops
<1> QED
  BY <1>1, <1>2, <1>3, <1>4 DEF IInv

------------------------------------------------------------------------------

\* A handler starts without a source and without a loop.
THEOREM Initially == Init => IInv
<1> SUFFICES ASSUME Init
             PROVE  IInv
  OBVIOUS
<1>1. TypeOK
  <2>1. {source, running, stopFlag} \subseteq BOOLEAN
    BY DEF Init
  <2>2. overlapped \in BOOLEAN
    BY DEF Init
  <2> QED
    BY <2>1, <2>2, CameraAssumption DEF Init, TypeOK, Callers, Locations
<1>2. Numbering /\ Joined
  BY CameraAssumption DEF Init, Numbering, Joined, Callers, Loops
<1>3. Rests /\ at["open"] = "idle" /\ at["close"] = "idle"
  BY DEF Init, Rests, Callers
<1>4. OpenAt /\ CloseAt
  BY <1>3 DEF OpenAt, CloseAt
<1> QED
  BY <1>1, <1>2, <1>4 DEF Init, IInv

LEMMA StutterKeeps == ASSUME IInv, UNCHANGED vars PROVE IInv'
  BY DEF IInv, TypeOK, Numbering, Joined, OpenAt, CloseAt, Runs, Rests, vars

\* No access of either call or of a loop leaves the invariant.
THEOREM Inductive == IInv /\ [Next]_vars => IInv'
<1> SUFFICES ASSUME IInv, [Next]_vars
             PROVE  IInv'
  OBVIOUS
<1>1. CASE OpenNext
  BY <1>1, CreateVideoTrackSourceKeeps, CreateSourceKeeps, TestStartedKeeps,
     OpenCaptureKeeps, SetRunningKeeps, ClearStopKeeps, StartLoopKeeps
     DEF OpenNext
<1>2. CASE CloseNext
  BY <1>2, CloseKeeps, TestRunningKeeps, SetStopKeeps, TestJoinableKeeps,
     JoinKeeps, ResetKeeps, ClearRunningKeeps, ClearSourceKeeps DEF CloseNext
<1>3. CASE \E i \in Loops : Iterates(i)
  BY <1>3, TestStopKeeps, FrameLoopKeeps DEF Iterates
<1>4. CASE Died \/ UNCHANGED vars
  BY <1>4, StutterKeeps DEF Died
<1> QED
  BY <1>1, <1>2, <1>3, <1>4 DEF Next

\* The invariant holds throughout.
THEOREM Invariant == Spec => []IInv
  BY Initially, Inductive, PTL DEF Spec

\* The variables of the track keep their types, whatever overlaps.
THEOREM TypeCorrect == Spec => []TypeOK
<1>1. IInv => TypeOK
  BY DEF IInv
<1> QED
  BY <1>1, Invariant, PTL

\* Starts and closes that come one after the other never end the process.
THEOREM SequentialNeverDies == Spec => []NeverDies
<1>1. IInv => NeverDies
  BY DEF IInv, NeverDies
<1> QED
  BY <1>1, Invariant, PTL

\* They never leave a second frame loop, or one that nobody can join, and when
\* such a call has returned, the source runs exactly if the loop does.
THEOREM SingleLoop == Spec => []OneLoop
<1>1. ASSUME IInv, ~overlapped, \A c \in Callers : at[c] = "idle"
      PROVE  IsRunning <=> Live # {}
  <2>1. Runs \/ Rests
    BY <1>1 DEF IInv, CloseAt, Callers
  <2>2. CASE Runs
    <3>1. handle \in Live
      BY <1>1, <2>2 DEF IInv, TypeOK, Runs, Live, Loops
    <3> QED
      BY <2>2, <3>1 DEF IsRunning, Runs
  <2>3. CASE Rests
    <3>1. \A i \in Loops : loop[i] \in {"new", "ended"}
      BY <1>1, <2>3, CameraAssumption
         DEF IInv, TypeOK, Numbering, Joined, Rests, Loops
    <3> QED
      BY <2>3, <3>1 DEF Live, IsRunning, Rests
  <2> QED
    BY <2>1, <2>2, <2>3
<1>2. ASSUME IInv, ~overlapped
      PROVE  \A i, j \in Live : i = j /\ i = handle
  BY <1>2, CameraAssumption DEF IInv, TypeOK, Numbering, Joined, Live, Loops
<1>3. IInv => OneLoop
  BY <1>1, <1>2 DEF OneLoop
<1> QED
  BY <1>3, Invariant, PTL

==============================================================================
