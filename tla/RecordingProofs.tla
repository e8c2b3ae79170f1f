--------------------------- MODULE RecordingProofs ---------------------------
(***************************************************************************)
(* The recording, proved for any directories, number of files and length   *)
(* of time.  The recording state and the writer are assigned apart and     *)
(* read by the track's thread; what keeps them together is who may run:    *)
(* unless the application disturbs it, nobody releases the writer while    *)
(* the track's thread is under way.                                        *)
(***************************************************************************)
EXTENDS Recording, TLAPS

\* The name of a file tells its second and how often the clock was set back,
\* and the files are opened in the order of the latter.
Clocks ==
    /\ local + backs = now
    /\ \A i \in 1..Len(files) :
         /\ files[i].second + files[i].backs = files[i].start
         /\ files[i].backs <= backs
    /\ \A i, j \in 1..Len(files) : i < j => files[i].backs <= files[j].backs

Places ==
    /\ at["app"] \in {"idle", "started", "stop", "released"}
    /\ at["frame"] \in {"idle", "sent", "save", "write"}
    /\ at["close"] \in {"idle", "join", "stop", "released"}

\* Who may run beside whom.
Alone ==
    /\ at["app"] = "idle" \/ at["close"] = "idle"
    /\ at["frame"] # "idle" => sending
    /\ at["app"] \in {"stop", "released"} \/ at["close"] \in {"stop", "released"} =>
         ~sending

\* The state and the writer differ only while one of them is being assigned.
Agree ==
    /\ at["frame"] \in {"save", "write"} => writer # 0
    /\ at["app"] = "started" => writer # 0
    /\ at["app"] = "released" \/ at["close"] = "released" => writer = 0
    /\ recordState # "NotRecording"
         /\ at["app"] # "released" /\ at["close"] # "released" => writer # 0
    /\ writer # 0 /\ at["app"] # "started" => recordState # "NotRecording"

IInv ==
    /\ TypeOK /\ Clocks /\ Places /\ DirectoryIsAccepted /\ NoFault
    /\ ~disturbed => Alone /\ Agree

------------------------------------------------------------------------------
(* The application and the directories. *)

Names == [dir : Dirs, second : Nat, start : Nat, backs : Nat]

LEMMA FileTyped ==
  ASSUME TypeOK, NEW i \in 1..Len(files)
  PROVE  files[i].second \in Nat /\ files[i].start \in Nat /\ files[i].backs \in Nat
<1>1. files \in Seq(Names)
  BY DEF TypeOK, Names
<1>2. files[i] \in Names
  BY <1>1
<1> QED
  BY <1>2 DEF Names

LEMMA SetRecordFilePathKeeps ==
  ASSUME IInv, NEW d \in Dirs, SetRecordFilePath(d)
  PROVE  IInv'
<1>1. TypeOK'
  BY RecordingAssumption DEF IInv, TypeOK, Threads, RecordStates, Kinds, Accepted,
     SetRecordFilePath, AppCalls, Created, IsValidRecordFilePath, At, recorder,
     clock, world
<1>2. Clocks'
  BY RecordingAssumption DEF IInv, TypeOK, Clocks, SetRecordFilePath, AppCalls,
     Created, IsValidRecordFilePath, At, recorder, clock, world
<1>3. Places'
  BY RecordingAssumption DEF IInv, TypeOK, Threads, Places, SetRecordFilePath,
     AppCalls, Created, IsValidRecordFilePath, At, recorder, clock, world
<1>4. DirectoryIsAccepted' /\ NoFault'
  <2>1. \A e \in Dirs : disk[e] \in Accepted => disk'[e] = disk[e]
    BY DEF IInv, TypeOK, SetRecordFilePath, Created, Accepted
  <2>2. path' = path \/ (path' = d /\ disk'[d] \in Accepted)
    BY DEF SetRecordFilePath, IsValidRecordFilePath
  <2>3. recordable' = recordable /\ vanished' = vanished
    BY DEF SetRecordFilePath
  <2>4. DirectoryIsAccepted'
    BY <2>1, <2>2, <2>3 DEF IInv, TypeOK, DirectoryIsAccepted
  <2>5. NoFault'
    BY DEF IInv, NoFault, SetRecordFilePath, AppCalls, At
  <2> QED
    BY <2>4, <2>5
<1>5. ~disturbed' => Alone' /\ Agree'
  BY RecordingAssumption DEF IInv, TypeOK, Threads, Places, Alone, Agree,
     RecordStates, SetRecordFilePath, AppCalls, Created, IsValidRecordFilePath,
     At, recorder, clock, world
<1> QED
  BY <1>1, <1>2, <1>3, <1>4, <1>5 DEF IInv

LEMMA VanishKeeps ==
  ASSUME IInv, NEW d \in Dirs, Vanish(d)
  PROVE  IInv'
<1>1. TypeOK'
  BY RecordingAssumption DEF IInv, TypeOK, Threads, RecordStates, Kinds, Accepted,
     Vanish, At, recorder, clock, world
<1>2. Clocks'
  BY RecordingAssumption DEF IInv, TypeOK, Clocks, Vanish, At, recorder, clock,
     world
<1>3. Places'
  BY RecordingAssumption DEF IInv, TypeOK, Threads, Places, Vanish, At,
     recorder, clock, world
<1>4. DirectoryIsAccepted' /\ NoFault'
  BY RecordingAssumption DEF IInv, TypeOK, Threads, Kinds, Accepted, Places, Alone,
     Agree, DirectoryIsAccepted, NoFault, Vanish, At, recorder, clock, world
<1>5. ~disturbed' => Alone' /\ Agree'
  BY RecordingAssumption DEF IInv, TypeOK, Threads, Places, Alone, Agree,
     RecordStates, Vanish, At, recorder, clock, world
<1> QED
  BY <1>1, <1>2, <1>3, <1>4, <1>5 DEF IInv

LEMMA SetVideoParametersKeeps ==
  ASSUME IInv, SetVideoParameters
  PROVE  IInv'
<1>1. TypeOK'
  BY RecordingAssumption DEF IInv, TypeOK, Threads, RecordStates, Kinds, Accepted,
     SetVideoParameters, AppCalls, At, recorder, clock, world
<1>2. Clocks'
  BY RecordingAssumption DEF IInv, TypeOK, Clocks, SetVideoParameters,
     AppCalls, At, recorder, clock, world
<1>3. Places'
  BY RecordingAssumption DEF IInv, TypeOK, Threads, Places, SetVideoParameters,
     AppCalls, At, recorder, clock, world
<1>4. DirectoryIsAccepted' /\ NoFault'
  BY RecordingAssumption DEF IInv, TypeOK, Threads, Kinds, Accepted, Places, Alone,
     Agree, DirectoryIsAccepted, NoFault, SetVideoParameters, AppCalls, At,
     recorder, clock, world
<1>5. ~disturbed' => Alone' /\ Agree'
  BY RecordingAssumption DEF IInv, TypeOK, Threads, Places, Alone, Agree,
     RecordStates, SetVideoParameters, AppCalls, At, recorder, clock, world
<1> QED
  BY <1>1, <1>2, <1>3, <1>4, <1>5 DEF IInv

LEMMA StartRecordingKeeps ==
  ASSUME IInv, StartRecording
  PROVE  IInv'
<1>1. /\ path' = path /\ recordState' = recordState /\ recordable' = recordable
      /\ sending' = sending /\ fault' = fault
      /\ disk' = disk /\ now' = now /\ local' = local /\ backs' = backs
      /\ vanished' = vanished
      /\ disturbed' = (disturbed \/ at["close"] # "idle" \/ (FALSE /\ sending))
      /\ fault = "none" /\ at["app"] = "idle"
  BY DEF StartRecording, AppCalls, At, world
<1>2. \/ at' = [at EXCEPT !["app"] = "started"] /\ writer' # 0
      \/ at' = at /\ writer' = 0 /\ writer = 0
  BY DEF IInv, TypeOK, StartRecording, Goto
<1>3. /\ files' \in Seq(Names) /\ writer' \in {0, Len(files')}
      /\ \/ files' = files
         \/ files' = Append(files, GetFilename)
  <2>1. GetFilename \in Names
    BY DEF IInv, TypeOK, GetFilename, Names
  <2>2. files \in Seq(Names) /\ writer \in {0, Len(files)}
    BY DEF IInv, TypeOK, Names
  <2>3. /\ Append(files, GetFilename) \in Seq(Names)
        /\ Len(Append(files, GetFilename)) = Len(files) + 1
    BY <2>1, <2>2
  <2>4. \/ files' = files /\ writer' = writer
        \/ files' = Append(files, GetFilename) /\ writer' = Len(files) + 1
    BY DEF StartRecording
  <2> QED
    BY <2>2, <2>3, <2>4
<1>4. TypeOK'
  BY <1>1, <1>2, <1>3 DEF IInv, TypeOK, Threads, Names
<1>5. Clocks'
  <2>1. CASE files' = files
    BY <1>1, <2>1 DEF IInv, Clocks
  <2>2. CASE files' = Append(files, GetFilename)
    <3>1. /\ Len(files) \in Nat /\ Len(files') = Len(files) + 1
          /\ \A i \in 1..Len(files) : files'[i] = files[i]
          /\ files'[Len(files) + 1] = GetFilename
      BY <2>2 DEF IInv, TypeOK
    <3>2. /\ GetFilename.backs = backs
          /\ GetFilename.second + GetFilename.backs = GetFilename.start
      BY DEF IInv, Clocks, GetFilename
    <3>3. \A i \in 1..Len(files') : i \in 1..Len(files) \/ i = Len(files) + 1
      BY <3>1
    <3>4. backs \in Nat
      BY DEF IInv, TypeOK
    <3> QED
      BY <1>1, <3>1, <3>2, <3>3, <3>4 DEF IInv, Clocks
  <2> QED
    BY <1>3, <2>1, <2>2
<1>6. Places'
  BY <1>1, <1>2 DEF IInv, TypeOK, Threads, Places
<1>7. DirectoryIsAccepted' /\ NoFault'
  BY <1>1 DEF IInv, DirectoryIsAccepted, NoFault
<1>8. ~disturbed' => Alone' /\ Agree'
  BY <1>1, <1>2 DEF IInv, TypeOK, Threads, Places, Alone, Agree
<1> QED
  BY <1>4, <1>5, <1>6, <1>7, <1>8 DEF IInv

LEMMA SetRecordingKeeps ==
  ASSUME IInv, SetRecording
  PROVE  IInv'
<1>1. TypeOK'
  BY RecordingAssumption DEF IInv, TypeOK, Threads, RecordStates, Kinds, Accepted,
     SetRecording, Goto, At, recorder, clock, world
<1>2. Clocks'
  BY RecordingAssumption DEF IInv, TypeOK, Clocks, SetRecording, Goto, At,
     recorder, clock, world
<1>3. Places'
  BY RecordingAssumption DEF IInv, TypeOK, Threads, Places, SetRecording, Goto,
     At, recorder, clock, world
<1>4. DirectoryIsAccepted' /\ NoFault'
  BY RecordingAssumption DEF IInv, TypeOK, Threads, Kinds, Accepted, Places, Alone,
     Agree, DirectoryIsAccepted, NoFault, SetRecording, Goto, At, recorder, clock,
     world
<1>5. ~disturbed' => Alone' /\ Agree'
  BY RecordingAssumption DEF IInv, TypeOK, Threads, Places, Alone, Agree,
     RecordStates, SetRecording, Goto, At, recorder, clock, world
<1> QED
  BY <1>1, <1>2, <1>3, <1>4, <1>5 DEF IInv

LEMMA PauseRecordingKeeps ==
  ASSUME IInv, PauseRecording
  PROVE  IInv'
<1>1. TypeOK'
  BY RecordingAssumption DEF IInv, TypeOK, Threads, RecordStates, Kinds, Accepted,
     PauseRecording, AppCalls, At, recorder, clock, world
<1>2. Clocks'
  BY RecordingAssumption DEF IInv, TypeOK, Clocks, PauseRecording, AppCalls,
     At, recorder, clock, world
<1>3. Places'
  BY RecordingAssumption DEF IInv, TypeOK, Threads, Places, PauseRecording,
     AppCalls, At, recorder, clock, world
<1>4. DirectoryIsAccepted' /\ NoFault'
  BY RecordingAssumption DEF IInv, TypeOK, Threads, Kinds, Accepted, Places, Alone,
     Agree, DirectoryIsAccepted, NoFault, PauseRecording, AppCalls, At, recorder,
     clock, world
<1>5. ~disturbed' => Alone' /\ Agree'
  BY RecordingAssumption DEF IInv, TypeOK, Threads, Places, Alone, Agree,
     RecordStates, PauseRecording, AppCalls, At, recorder, clock, world
<1> QED
  BY <1>1, <1>2, <1>3, <1>4, <1>5 DEF IInv

LEMMA ResumeRecordingKeeps ==
  ASSUME IInv, ResumeRecording
  PROVE  IInv'
<1>1. TypeOK'
  BY RecordingAssumption DEF IInv, TypeOK, Threads, RecordStates, Kinds, Accepted,
     ResumeRecording, AppCalls, At, recorder, clock, world
<1>2. Clocks'
  BY RecordingAssumption DEF IInv, TypeOK, Clocks, ResumeRecording, AppCalls,
     At, recorder, clock, world
<1>3. Places'
  BY RecordingAssumption DEF IInv, TypeOK, Threads, Places, ResumeRecording,
     AppCalls, At, recorder, clock, world
<1>4. DirectoryIsAccepted' /\ NoFault'
  BY RecordingAssumption DEF IInv, TypeOK, Threads, Kinds, Accepted, Places, Alone,
     Agree, DirectoryIsAccepted, NoFault, ResumeRecording, AppCalls, At, recorder,
     clock, world
<1>5. ~disturbed' => Alone' /\ Agree'
  BY RecordingAssumption DEF IInv, TypeOK, Threads, Places, Alone, Agree,
     RecordStates, ResumeRecording, AppCalls, At, recorder, clock, world
<1> QED
  BY <1>1, <1>2, <1>3, <1>4, <1>5 DEF IInv

LEMMA AppStopRecordingKeeps ==
  ASSUME IInv, AppStopRecording
  PROVE  IInv'
<1>1. TypeOK'
  BY RecordingAssumption DEF IInv, TypeOK, Threads, RecordStates, Kinds, Accepted,
     AppStopRecording, AppCalls, Goto, At, recorder, clock, world
<1>2. Clocks'
  BY RecordingAssumption DEF IInv, TypeOK, Clocks, AppStopRecording, AppCalls,
     Goto, At, recorder, clock, world
<1>3. Places'
  BY RecordingAssumption DEF IInv, TypeOK, Threads, Places, AppStopRecording,
     AppCalls, Goto, At, recorder, clock, world
<1>4. DirectoryIsAccepted' /\ NoFault'
  BY RecordingAssumption DEF IInv, TypeOK, Threads, Kinds, Accepted, Places, Alone,
     Agree, DirectoryIsAccepted, NoFault, AppStopRecording, AppCalls, Goto, At,
     recorder, clock, world
<1>5. ~disturbed' => Alone' /\ Agree'
  BY RecordingAssumption DEF IInv, TypeOK, Threads, Places, Alone, Agree,
     RecordStates, AppStopRecording, AppCalls, Goto, At, recorder, clock, world
<1> QED
  BY <1>1, <1>2, <1>3, <1>4, <1>5 DEF IInv

(* StopRecording. *)

LEMMA ReleaseKeeps ==
  ASSUME IInv, NEW t \in {"app", "close"}, Release(t)
  PROVE  IInv'
<1>1. TypeOK'
  BY RecordingAssumption DEF IInv, TypeOK, Threads, RecordStates, Kinds, Accepted,
     Release, Goto, At, recorder, clock, world
<1>2. Clocks'
  BY RecordingAssumption DEF IInv, TypeOK, Clocks, Release, Goto, At, recorder,
     clock, world
<1>3. Places'
  BY RecordingAssumption DEF IInv, TypeOK, Threads, Places, Release, Goto, At,
     recorder, clock, world
<1>4. DirectoryIsAccepted' /\ NoFault'
  BY RecordingAssumption DEF IInv, TypeOK, Threads, Kinds, Accepted, Places, Alone,
     Agree, DirectoryIsAccepted, NoFault, Release, Goto, At, recorder, clock, world
<1>5. ~disturbed' => Alone' /\ Agree'
  BY RecordingAssumption DEF IInv, TypeOK, Threads, Places, Alone, Agree,
     RecordStates, Release, Goto, At, recorder, clock, world
<1> QED
  BY <1>1, <1>2, <1>3, <1>4, <1>5 DEF IInv

LEMMA SetNotRecordingKeeps ==
  ASSUME IInv, NEW t \in {"app", "close"}, SetNotRecording(t)
  PROVE  IInv'
<1>1. TypeOK'
  BY RecordingAssumption DEF IInv, TypeOK, Threads, RecordStates, Kinds, Accepted,
     SetNotRecording, Goto, At, recorder, clock, world
<1>2. Clocks'
  BY RecordingAssumption DEF IInv, TypeOK, Clocks, SetNotRecording, Goto, At,
     recorder, clock, world
<1>3. Places'
  BY RecordingAssumption DEF IInv, TypeOK, Threads, Places, SetNotRecording,
     Goto, At, recorder, clock, world
<1>4. DirectoryIsAccepted' /\ NoFault'
  BY RecordingAssumption DEF IInv, TypeOK, Threads, Kinds, Accepted, Places, Alone,
     Agree, DirectoryIsAccepted, NoFault, SetNotRecording, Goto, At, recorder,
     clock, world
<1>5. ~disturbed' => Alone' /\ Agree'
  BY RecordingAssumption DEF IInv, TypeOK, Threads, Places, Alone, Agree,
     RecordStates, SetNotRecording, Goto, At, recorder, clock, world
<1> QED
  BY <1>1, <1>2, <1>3, <1>4, <1>5 DEF IInv

(* The track. *)

LEMMA StartTrackKeeps ==
  ASSUME IInv, StartTrack
  PROVE  IInv'
<1>1. TypeOK'
  BY RecordingAssumption DEF IInv, TypeOK, Threads, RecordStates, Kinds, Accepted,
     StartTrack, At, recorder, clock, world
<1>2. Clocks'
  BY RecordingAssumption DEF IInv, TypeOK, Clocks, StartTrack, At, recorder,
     clock, world
<1>3. Places'
  BY RecordingAssumption DEF IInv, TypeOK, Threads, Places, StartTrack, At,
     recorder, clock, world
<1>4. DirectoryIsAccepted' /\ NoFault'
  BY RecordingAssumption DEF IInv, TypeOK, Threads, Kinds, Accepted, Places, Alone,
     Agree, DirectoryIsAccepted, NoFault, StartTrack, At, recorder, clock, world
<1>5. ~disturbed' => Alone' /\ Agree'
  BY RecordingAssumption DEF IInv, TypeOK, Threads, Places, Alone, Agree,
     RecordStates, StartTrack, At, recorder, clock, world
<1> QED
  BY <1>1, <1>2, <1>3, <1>4, <1>5 DEF IInv

LEMMA SendFrameKeeps ==
  ASSUME IInv, SendFrame
  PROVE  IInv'
<1>1. TypeOK'
  BY RecordingAssumption DEF IInv, TypeOK, Threads, RecordStates, Kinds, Accepted,
     SendFrame, Goto, At, recorder, clock, world
<1>2. Clocks'
  BY RecordingAssumption DEF IInv, TypeOK, Clocks, SendFrame, Goto, At,
     recorder, clock, world
<1>3. Places'
  BY RecordingAssumption DEF IInv, TypeOK, Threads, Places, SendFrame, Goto,
     At, recorder, clock, world
<1>4. DirectoryIsAccepted' /\ NoFault'
  BY RecordingAssumption DEF IInv, TypeOK, Threads, Kinds, Accepted, Places, Alone,
     Agree, DirectoryIsAccepted, NoFault, SendFrame, Goto, At, recorder, clock,
     world
<1>5. ~disturbed' => Alone' /\ Agree'
  BY RecordingAssumption DEF IInv, TypeOK, Threads, Places, Alone, Agree,
     RecordStates, SendFrame, Goto, At, recorder, clock, world
<1> QED
  BY <1>1, <1>2, <1>3, <1>4, <1>5 DEF IInv

LEMMA RecordFrameKeeps ==
  ASSUME IInv, RecordFrame
  PROVE  IInv'
<1>1. TypeOK'
  BY RecordingAssumption DEF IInv, TypeOK, Threads, RecordStates, Kinds, Accepted,
     RecordFrame, Goto, At, recorder, clock, world
<1>2. Clocks'
  BY RecordingAssumption DEF IInv, TypeOK, Clocks, RecordFrame, Goto, At,
     recorder, clock, world
<1>3. Places'
  BY RecordingAssumption DEF IInv, TypeOK, Threads, Places, RecordFrame, Goto,
     At, recorder, clock, world
<1>4. DirectoryIsAccepted' /\ NoFault'
  BY RecordingAssumption DEF IInv, TypeOK, Threads, Kinds, Accepted, Places, Alone,
     Agree, DirectoryIsAccepted, NoFault, RecordFrame, Goto, At, recorder, clock,
     world
<1>5. ~disturbed' => Alone' /\ Agree'
  BY RecordingAssumption DEF IInv, TypeOK, Threads, Places, Alone, Agree,
     RecordStates, RecordFrame, Goto, At, recorder, clock, world
<1> QED
  BY <1>1, <1>2, <1>3, <1>4, <1>5 DEF IInv

LEMMA SaveFrameKeeps ==
  ASSUME IInv, SaveFrame
  PROVE  IInv'
<1>1. TypeOK'
  BY RecordingAssumption DEF IInv, TypeOK, Threads, RecordStates, Kinds, Accepted,
     SaveFrame, Goto, At, recorder, clock, world
<1>2. Clocks'
  BY RecordingAssumption DEF IInv, TypeOK, Clocks, SaveFrame, Goto, At,
     recorder, clock, world
<1>3. Places'
  BY RecordingAssumption DEF IInv, TypeOK, Threads, Places, SaveFrame, Goto,
     At, recorder, clock, world
<1>4. DirectoryIsAccepted' /\ NoFault'
  BY RecordingAssumption DEF IInv, TypeOK, Threads, Kinds, Accepted, Places, Alone,
     Agree, DirectoryIsAccepted, NoFault, SaveFrame, Goto, At, recorder, clock,
     world
<1>5. ~disturbed' => Alone' /\ Agree'
  BY RecordingAssumption DEF IInv, TypeOK, Threads, Places, Alone, Agree,
     RecordStates, SaveFrame, Goto, At, recorder, clock, world
<1> QED
  BY <1>1, <1>2, <1>3, <1>4, <1>5 DEF IInv

LEMMA WriteKeeps ==
  ASSUME IInv, Write
  PROVE  IInv'
<1>1. TypeOK'
  BY RecordingAssumption DEF IInv, TypeOK, Threads, RecordStates, Kinds, Accepted, Write,
     Goto, At, recorder, clock, world
<1>2. Clocks'
  BY RecordingAssumption DEF IInv, TypeOK, Clocks, Write, Goto, At, recorder,
     clock, world
<1>3. Places'
  BY RecordingAssumption DEF IInv, TypeOK, Threads, Places, Write, Goto, At,
     recorder, clock, world
<1>4. DirectoryIsAccepted' /\ NoFault'
  BY RecordingAssumption DEF IInv, TypeOK, Threads, Kinds, Accepted, Places, Alone,
     Agree, DirectoryIsAccepted, NoFault, Write, Goto, At, recorder, clock, world
<1>5. ~disturbed' => Alone' /\ Agree'
  BY RecordingAssumption DEF IInv, TypeOK, Threads, Places, Alone, Agree,
     RecordStates, Write, Goto, At, recorder, clock, world
<1> QED
  BY <1>1, <1>2, <1>3, <1>4, <1>5 DEF IInv

LEMMA CloseKeeps ==
  ASSUME IInv, Close
  PROVE  IInv'
<1>1. TypeOK'
  BY RecordingAssumption DEF IInv, TypeOK, Threads, RecordStates, Kinds, Accepted, Close,
     Goto, At, recorder, clock, world
<1>2. Clocks'
  BY RecordingAssumption DEF IInv, TypeOK, Clocks, Close, Goto, At, recorder,
     clock, world
<1>3. Places'
  BY RecordingAssumption DEF IInv, TypeOK, Threads, Places, Close, Goto, At,
     recorder, clock, world
<1>4. DirectoryIsAccepted' /\ NoFault'
  BY RecordingAssumption DEF IInv, TypeOK, Threads, Kinds, Accepted, Places, Alone,
     Agree, DirectoryIsAccepted, NoFault, Close, Goto, At, recorder, clock, world
<1>5. ~disturbed' => Alone' /\ Agree'
  BY RecordingAssumption DEF IInv, TypeOK, Threads, Places, Alone, Agree,
     RecordStates, Close, Goto, At, recorder, clock, world
<1> QED
  BY <1>1, <1>2, <1>3, <1>4, <1>5 DEF IInv

LEMMA JoinKeeps ==
  ASSUME IInv, Join
  PROVE  IInv'
<1>1. TypeOK'
  BY RecordingAssumption DEF IInv, TypeOK, Threads, RecordStates, Kinds, Accepted, Join,
     Goto, At, recorder, clock, world
<1>2. Clocks'
  BY RecordingAssumption DEF IInv, TypeOK, Clocks, Join, Goto, At, recorder,
     clock, world
<1>3. Places'
  BY RecordingAssumption DEF IInv, TypeOK, Threads, Places, Join, Goto, At,
     recorder, clock, world
<1>4. DirectoryIsAccepted' /\ NoFault'
  BY RecordingAssumption DEF IInv, TypeOK, Threads, Kinds, Accepted, Places, Alone,
     Agree, DirectoryIsAccepted, NoFault, Join, Goto, At, recorder, clock, world
<1>5. ~disturbed' => Alone' /\ Agree'
  BY RecordingAssumption DEF IInv, TypeOK, Threads, Places, Alone, Agree,
     RecordStates, Join, Goto, At, recorder, clock, world
<1> QED
  BY <1>1, <1>2, <1>3, <1>4, <1>5 DEF IInv

(* The clock. *)

LEMMA TickKeeps ==
  ASSUME IInv, Tick
  PROVE  IInv'
<1>1. TypeOK'
  BY RecordingAssumption DEF IInv, TypeOK, Threads, RecordStates, Kinds, Accepted, Tick,
     At, recorder, clock, world
<1>2. Clocks'
  <2>1. (local + backs = now)'
    BY DEF IInv, TypeOK, Clocks, Tick
  <2>2. files' = files /\ backs \in Nat /\ backs' \in Nat /\ backs <= backs'
    BY DEF IInv, TypeOK, Tick, recorder
  <2>3. \A i \in 1..Len(files) : files[i].backs \in Nat
    BY FileTyped DEF IInv
  <2> QED
    BY <2>1, <2>2, <2>3 DEF IInv, Clocks
<1>3. Places'
  BY RecordingAssumption DEF IInv, TypeOK, Threads, Places, Tick, At, recorder,
     clock, world
<1>4. DirectoryIsAccepted' /\ NoFault'
  BY RecordingAssumption DEF IInv, TypeOK, Threads, Kinds, Accepted, Places, Alone,
     Agree, DirectoryIsAccepted, NoFault, Tick, At, recorder, clock, world
<1>5. ~disturbed' => Alone' /\ Agree'
  BY RecordingAssumption DEF IInv, TypeOK, Threads, Places, Alone, Agree,
     RecordStates, Tick, At, recorder, clock, world
<1> QED
  BY <1>1, <1>2, <1>3, <1>4, <1>5 DEF IInv

LEMMA SetBackKeeps ==
  ASSUME IInv, SetBack
  PROVE  IInv'
<1>1. TypeOK'
  <2>1. local' \in Nat /\ backs' \in Nat
    <3>1. local \in Nat /\ backs \in Nat
      BY DEF IInv, TypeOK
    <3>2. local > 0 /\ local' = local - 1 /\ backs' = backs + 1
      BY DEF SetBack
    <3> QED
      BY <3>1, <3>2
  <2> QED
    BY <2>1 DEF IInv, TypeOK, SetBack, recorder
<1>2. Clocks'
  <2>1. (local + backs = now)'
    BY DEF IInv, TypeOK, Clocks, SetBack
  <2>2. files' = files /\ backs \in Nat /\ backs' \in Nat /\ backs <= backs'
    BY DEF IInv, TypeOK, SetBack, recorder
  <2>3. \A i \in 1..Len(files) : files[i].backs \in Nat
    BY FileTyped DEF IInv
  <2> QED
    BY <2>1, <2>2, <2>3 DEF IInv, Clocks
<1>3. Places'
  BY RecordingAssumption DEF IInv, TypeOK, Threads, Places, SetBack, At,
     recorder, clock, world
<1>4. DirectoryIsAccepted' /\ NoFault'
  BY RecordingAssumption DEF IInv, TypeOK, Threads, Kinds, Accepted, Places, Alone,
     Agree, DirectoryIsAccepted, NoFault, SetBack, At, recorder, clock, world
<1>5. ~disturbed' => Alone' /\ Agree'
  BY RecordingAssumption DEF IInv, TypeOK, Threads, Places, Alone, Agree,
     RecordStates, SetBack, At, recorder, clock, world
<1> QED
  BY <1>1, <1>2, <1>3, <1>4, <1>5 DEF IInv

------------------------------------------------------------------------------

\* A new handler satisfies the invariant, wherever its default directory leads.
THEOREM Initially == Init => IInv
<1> SUFFICES ASSUME Init
             PROVE  IInv
  OBVIOUS
<1>1. TypeOK
  <2>1. {recordable, sending, disturbed, vanished} \subseteq BOOLEAN
    BY DEF Init
  <2> QED
    BY <2>1, RecordingAssumption DEF Init, TypeOK, Threads, RecordStates
<1>2. Clocks /\ Places
  BY DEF Init, Clocks, Places, Threads
<1>3. DirectoryIsAccepted /\ NoFault
  BY DEF Init, DirectoryIsAccepted, NoFault
<1>4. Alone /\ Agree
  BY DEF Init, Alone, Agree, Threads
<1> QED
  BY <1>1, <1>2, <1>3, <1>4 DEF IInv

LEMMA StutterKeeps == ASSUME IInv, UNCHANGED vars PROVE IInv'
  BY DEF IInv, TypeOK, Clocks, Places, DirectoryIsAccepted, NoFault, Alone, Agree,
         vars

\* No step of a thread, of the clock or of the file system leaves the invariant.
THEOREM Inductive == IInv /\ [Next]_vars => IInv'
<1> SUFFICES ASSUME IInv, [Next]_vars
             PROVE  IInv'
  OBVIOUS
<1>1. CASE \E d \in Dirs : SetRecordFilePath(d) \/ Vanish(d)
  BY <1>1, SetRecordFilePathKeeps, VanishKeeps
<1>2. CASE \/ SetVideoParameters \/ StartRecording \/ SetRecording
           \/ PauseRecording \/ ResumeRecording \/ AppStopRecording
  BY <1>2, SetVideoParametersKeeps, StartRecordingKeeps, SetRecordingKeeps,
     PauseRecordingKeeps, ResumeRecordingKeeps, AppStopRecordingKeeps
<1>3. CASE \E t \in {"app", "close"} : Release(t) \/ SetNotRecording(t)
  BY <1>3, ReleaseKeeps, SetNotRecordingKeeps
<1>4. CASE StartTrack \/ SendFrame \/ RecordFrame \/ SaveFrame \/ Write
  BY <1>4, StartTrackKeeps, SendFrameKeeps, RecordFrameKeeps, SaveFrameKeeps,
     WriteKeeps
<1>5. CASE Close \/ Join \/ Tick \/ SetBack
  BY <1>5, CloseKeeps, JoinKeeps, TickKeeps, SetBackKeeps
<1>6. CASE Died \/ UNCHANGED vars
  BY <1>6, StutterKeeps DEF Died
<1> QED
  BY <1>1, <1>2, <1>3, <1>4, <1>5, <1>6 DEF Next

\* The invariant holds throughout.
THEOREM Invariant == Spec => []IInv
  BY Initially, Inductive, PTL DEF Spec

\* The variables of a recording keep their types.
THEOREM TypeCorrect == Spec => []TypeOK
<1>1. IInv => TypeOK
  BY DEF IInv
<1> QED
  BY <1>1, Invariant, PTL

\* The track's thread never finds the writer closed, and never loses it under a
\* write, unless the application disturbs it.
THEOREM FramesFindTheWriter == Spec => []NoFault
<1>1. IInv => NoFault
  BY DEF IInv
<1> QED
  BY <1>1, Invariant, PTL

\* Between undisturbed calls the state tells whether a file is open.
THEOREM StateTellsFile == Spec => []RecordingHasFile
<1>1. IInv => RecordingHasFile
  BY DEF IInv, Agree, RecordingHasFile
<1> QED
  BY <1>1, Invariant, PTL

\* The directory of a recorder passes the test of SetRecordFilePath until somebody
\* removes one.
THEOREM DirectoryStaysAccepted == Spec => []DirectoryIsAccepted
<1>1. IInv => DirectoryIsAccepted
  BY DEF IInv
<1> QED
  BY <1>1, Invariant, PTL

\* Only a start in the same second, or a clock set back, overwrites a recording.
THEOREM RecordingsAreKept == Spec => []KeepsRecordings
<1>1. ASSUME TypeOK, Clocks, NEW i \in 1..Len(files), NEW j \in 1..Len(files),
             i < j, files[i].second = files[j].second
      PROVE  \/ files[i].start = files[j].start
             \/ files[i].backs < files[j].backs
  <2>1. /\ {files[i].start, files[i].second, files[i].backs} \subseteq Nat
        /\ {files[j].start, files[j].second, files[j].backs} \subseteq Nat
    BY <1>1, FileTyped
  <2>2. /\ files[i].second + files[i].backs = files[i].start
        /\ files[j].second + files[j].backs = files[j].start
        /\ files[i].backs <= files[j].backs
    BY <1>1 DEF Clocks
  <2> QED
    BY <1>1, <2>1, <2>2
<1>2. IInv => KeepsRecordings
  BY <1>1 DEF IInv, KeepsRecordings
<1> QED
  BY <1>2, Invariant, PTL

==============================================================================
