SPECIFICATION Spec
CONSTANTS
    Dirs = {"recordings", "other"}
    Default = "recordings"
    MaxFiles = 3
    MaxTime = 2
    MaxBacks = 1
    OpenMayFail = TRUE
    DirsMayVanish = TRUE
INVARIANTS
    NoFault
    RecordingHasFile
    DirectoryIsAccepted
    KeepsRecordings
