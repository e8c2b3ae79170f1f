------------------------------ MODULE Recording ------------------------------
(***************************************************************************)
(* Recording the frames of a media track: Recordable and VideoRecorder.    *)
(*                                                                         *)
(* The application starts, pauses, resumes and stops a recording and sets  *)
(* where and how it is written; the track's own thread sends and records   *)
(* every frame; AMediaTrackHandler::Close stops the track, which waits for *)
(* that thread, and then the recording.  No lock protects any of it.       *)
(*                                                                         *)
(* Files are named after the local time, which may be set back, and lie in *)
(* a directory that somebody else may remove.                              *)
(***************************************************************************)
EXTENDS Naturals, Sequences

CONSTANTS
    Dirs,           \* names of directories
    Default,        \* "./recordings"
    MaxFiles,       \* bound: files opened in one behaviour
    MaxTime,        \* bound: seconds of one behaviour
    MaxBacks,       \* bound: how often the local time is set back
    OpenMayFail,    \* the video writer may not open its file where it may write
    DirsMayVanish   \* somebody else may remove a directory

ASSUME RecordingAssumption ==
    /\ Default \in Dirs
    /\ {MaxFiles, MaxTime, MaxBacks} \subseteq Nat
    /\ {OpenMayFail, DirsMayVanish} \subseteq BOOLEAN

VARIABLES
    recordable,     \* recordable_
    recordState,    \* record_state_
    writer,         \* the file the video writer has open, 0 when none
    files,          \* the files opened so far: what they are named after, and when
    path,           \* record_file_path_
    disk,           \* what each name denotes
    now, local,     \* seconds since the start, and as the local time shows them
    backs,          \* how often the local time was set back
    sending,        \* the track's thread runs
    at,             \* next access per thread
    disturbed,      \* the application stopped a recording while frames were
                    \* sent, or called beside Close
    vanished,       \* a directory was removed
    fault           \* how the process died, "none" while it runs

recorder == <<recordState, writer, files, path>>
clock == <<now, local, backs>>
world == <<disk, now, local, backs, vanished>>
vars == <<recordable, recordState, writer, files, path, disk, now, local, backs,
          sending, at, disturbed, vanished, fault>>

Threads == {"app", "frame", "close"}
RecordStates == {"NotRecording", "Recording", "Paused"}

\* What a name denotes: a directory that this process may write to, one that only
\* others may write to, one that nobody may; another file; nothing; or nothing and
\* no directory can be created there.
Kinds == {"writable", "denied", "readonly", "file", "missing", "uncreatable"}
Accepted == {"writable", "denied"}

TypeOK ==
    /\ recordState \in RecordStates
    /\ writer \in {0, Len(files)}
    /\ files \in Seq([dir : Dirs, second : Nat, start : Nat, backs : Nat])
    /\ path \in Dirs
    /\ disk \in [Dirs -> Kinds]
    /\ {now, local, backs} \subseteq Nat
    /\ {recordable, sending, disturbed, vanished} \subseteq BOOLEAN
    /\ at \in [Threads -> {"idle", "started", "released", "sent", "save", "write",
                           "join", "stop"}]
    /\ fault \in {"none", "null", "thrown", "race"}

\* IsValidRecordFilePath: a missing directory is created, and then it must be
\* one with a write permission, whether for its owner, its group or others: that
\* this process has it is not tested.
Created(d) == IF disk[d] = "missing" THEN [disk EXCEPT ![d] = "writable"] ELSE disk
IsValidRecordFilePath(d) == Created(d)[d] \in Accepted

\* A handler that is not constructed as recordable, or whose default directory
\* is no good, is not recordable and has no recorder.
Init ==
    /\ disk \in [Dirs -> Kinds]
    /\ recordable \in BOOLEAN /\ (recordable => disk[Default] \in Accepted)
    /\ recordState = "NotRecording" /\ writer = 0 /\ files = <<>> /\ path = Default
    /\ now = 0 /\ local = 0 /\ backs = 0
    /\ sending = FALSE /\ disturbed = FALSE /\ vanished = FALSE
    /\ at = [t \in Threads |-> "idle"]
    /\ fault = "none"

At(t, l) == fault = "none" /\ at[t] = l
Goto(t, l) == at' = [at EXCEPT ![t] = l]

\* The application calls; stopping is what frames must not be sent beside.
AppCalls(stopping) ==
    /\ At("app", "idle")
    /\ disturbed' = (disturbed \/ at["close"] # "idle" \/ (stopping /\ sending))

-----------------------------------------------------------------------------
(* The application.                                                        *)

\* Mutant: the directory is assigned before it is tried.
SetRecordFilePath_untried(d) ==
    /\ AppCalls(FALSE) /\ recordable
    /\ disk' = Created(d) /\ path' = d
    /\ UNCHANGED <<recordable, recordState, writer, files, clock, sending, at, vanished,
                   fault>>

\* The test of the recording state only logs; without a recorder the call goes
\* through a null pointer.
SetRecordFilePath(d) ==
    /\ AppCalls(FALSE)
    /\ disk' = Created(d)
    /\ IF ~IsValidRecordFilePath(d) THEN UNCHANGED <<path, fault>>
       ELSE IF recordable THEN path' = d /\ fault' = fault
       ELSE path' = path /\ fault' = "null"
    /\ UNCHANGED <<recordable, recordState, writer, files, clock, sending, at, vanished>>

SetVideoParameters ==
    /\ AppCalls(FALSE)
    /\ fault' = IF recordable THEN fault ELSE "null"
    /\ UNCHANGED <<recordable, recorder, world, sending, at>>

\* Mutant: the name shows no seconds.
GetFilename_coarse ==
    [dir |-> path, second |-> local \div 2, start |-> now, backs |-> backs]

\* What the file of a recording that starts now is named after.
GetFilename == [dir |-> path, second |-> local, start |-> now, backs |-> backs]

\* VideoRecorder::Start.  The caller handles the exception of a writer that
\* does not open; the state is not assigned then.
StartRecording ==
    /\ AppCalls(FALSE) /\ recordable
    /\ \/ /\ writer # 0
          /\ Goto("app", "started") /\ UNCHANGED <<writer, files>>
       \/ /\ writer = 0 /\ disk[path] = "writable" /\ Len(files) < MaxFiles
          /\ files' = Append(files, GetFilename) /\ writer' = Len(files) + 1
          /\ Goto("app", "started")
       \/ /\ writer = 0 /\ (OpenMayFail \/ disk[path] # "writable")
          /\ UNCHANGED <<writer, files, at>>
    /\ UNCHANGED <<recordable, recordState, path, world, sending, fault>>

SetRecording ==
    /\ At("app", "started")
    /\ recordState' = "Recording"
    /\ Goto("app", "idle")
    /\ UNCHANGED <<recordable, writer, files, path, world, sending, disturbed, fault>>

PauseRecording ==
    /\ AppCalls(FALSE) /\ recordable /\ recordState = "Recording"
    /\ recordState' = "Paused"
    /\ UNCHANGED <<recordable, writer, files, path, world, sending, at, fault>>

ResumeRecording ==
    /\ AppCalls(FALSE) /\ recordable /\ recordState = "Paused"
    /\ recordState' = "Recording"
    /\ UNCHANGED <<recordable, writer, files, path, world, sending, at, fault>>

AppStopRecording ==
    /\ AppCalls(TRUE) /\ recordable
    /\ Goto("app", "stop")
    /\ UNCHANGED <<recordable, recorder, world, sending, fault>>

\* StopRecording on thread t: release the writer, then assign the state.
\* Releasing it under a write of the frame thread is a data race.
Release(t) ==
    /\ At(t, "stop")
    /\ \/ fault' = fault
       \/ writer # 0 /\ at["frame"] = "write" /\ fault' = "race"
    /\ writer' = 0
    /\ Goto(t, "released")
    /\ UNCHANGED <<recordable, recordState, files, path, world, sending, disturbed>>

\* Mutant: the state is left as it was.
SetNotRecording_forgotten(t) ==
    /\ At(t, "released")
    /\ Goto(t, "idle")
    /\ UNCHANGED <<recordable, recorder, world, sending, disturbed, fault>>

SetNotRecording(t) ==
    /\ At(t, "released")
    /\ recordState' = "NotRecording"
    /\ Goto(t, "idle")
    /\ UNCHANGED <<recordable, writer, files, path, world, sending, disturbed, fault>>

-----------------------------------------------------------------------------
(* The track: its thread and its end.                                      *)

StartTrack ==
    /\ At("close", "idle") /\ ~sending
    /\ sending' = TRUE
    /\ disturbed' = (disturbed \/ at["app"] \in {"stop", "released"})
    /\ UNCHANGED <<recordable, recorder, world, at, fault>>

\* A frame goes to the video source first.
SendFrame ==
    /\ sending /\ At("frame", "idle")
    /\ Goto("frame", "sent")
    /\ UNCHANGED <<recordable, recorder, world, sending, disturbed, fault>>

\* RecordFrame tests the state, SaveFrame that the writer is open.
RecordFrame ==
    /\ At("frame", "sent")
    /\ Goto("frame", IF recordable /\ recordState = "Recording" THEN "save" ELSE "idle")
    /\ UNCHANGED <<recordable, recorder, world, sending, disturbed, fault>>

\* Nothing catches the exception of SaveFrame on the track's thread.
SaveFrame ==
    /\ At("frame", "save")
    /\ IF writer # 0 THEN Goto("frame", "write") /\ fault' = fault
                     ELSE at' = at /\ fault' = "thrown"
    /\ UNCHANGED <<recordable, recorder, world, sending, disturbed>>

Write ==
    /\ At("frame", "write")
    /\ Goto("frame", "idle")
    /\ UNCHANGED <<recordable, recorder, world, sending, disturbed, fault>>

\* Close: Stop() waits for the track's thread.
Close ==
    /\ At("close", "idle")
    /\ Goto("close", "join")
    /\ disturbed' = (disturbed \/ at["app"] # "idle")
    /\ UNCHANGED <<recordable, recorder, world, sending, fault>>

\* Mutant: the recording is stopped before the thread is waited for.
Join_later ==
    /\ At("close", "join")
    /\ Goto("close", IF recordable THEN "stop" ELSE "idle")
    /\ UNCHANGED <<recordable, recorder, world, sending, disturbed, fault>>

Join ==
    /\ At("close", "join") /\ at["frame"] = "idle"
    /\ sending' = FALSE
    /\ Goto("close", IF recordable THEN "stop" ELSE "idle")
    /\ UNCHANGED <<recordable, recorder, world, disturbed, fault>>

-----------------------------------------------------------------------------
(* The world around the recorder.                                          *)

Tick ==
    /\ fault = "none" /\ now < MaxTime
    /\ now' = now + 1 /\ local' = local + 1
    /\ UNCHANGED <<recordable, recorder, disk, backs, sending, at, disturbed, vanished,
                   fault>>

\* The end of summer time, or somebody sets the clock.
SetBack ==
    /\ fault = "none" /\ backs < MaxBacks /\ local > 0
    /\ local' = local - 1 /\ backs' = backs + 1
    /\ UNCHANGED <<recordable, recorder, disk, now, sending, at, disturbed, vanished,
                   fault>>

Vanish(d) ==
    /\ fault = "none" /\ DirsMayVanish /\ disk[d] \in Accepted
    /\ disk' = [disk EXCEPT ![d] = "missing"] /\ vanished' = TRUE
    /\ UNCHANGED <<recordable, recorder, clock, sending, at, disturbed, fault>>

Died == fault # "none" /\ UNCHANGED vars

Next ==
    \/ \E d \in Dirs : SetRecordFilePath(d) \/ Vanish(d)
    \/ SetVideoParameters
    \/ StartRecording \/ SetRecording \/ PauseRecording \/ ResumeRecording
    \/ AppStopRecording
    \/ \E t \in {"app", "close"} : Release(t) \/ SetNotRecording(t)
    \/ StartTrack \/ SendFrame \/ RecordFrame \/ SaveFrame \/ Write \/ Close \/ Join
    \/ Tick \/ SetBack
    \/ Died

Spec == Init /\ [][Next]_vars

-----------------------------------------------------------------------------
(* Properties.                                                             *)

\* A frame that is being recorded finds the writer open and keeps it, through
\* every end of a session, unless the application stops recordings under the
\* frames or calls beside Close; a null pointer is met only when the settings of
\* a handler that cannot record are changed.
NoFault ==
    /\ fault \in {"thrown", "race"} => disturbed
    /\ fault = "null" => ~recordable

\* Between calls a file is open exactly while a recording goes on or is paused.
RecordingHasFile ==
    ~disturbed /\ at["app"] = "idle" /\ at["close"] = "idle"
      => (recordState # "NotRecording" <=> writer # 0)

\* Recordings are always directed to an existing directory with a write permission,
\* unless somebody removed one: SetRecordFilePath keeps the old directory when the
\* new one fails the test.  It need not be this process that may write there: the
\* writer then does not open, and StartRecording throws.
DirectoryIsAccepted == recordable /\ ~vanished => disk[path] \in Accepted

\* A recording overwrites an earlier one only when it is started in the same
\* second as that one, or after the local time was set back.
KeepsRecordings ==
    \A i, j \in 1..Len(files) :
      i < j /\ files[i].dir = files[j].dir /\ files[i].second = files[j].second
        => files[i].start = files[j].start \/ files[i].backs < files[j].backs
=============================================================================
