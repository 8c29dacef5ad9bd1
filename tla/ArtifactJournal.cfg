\* Three examples, projections fsynced on every second append, two crashes, one
\* runner error and one start without all databases: enough for a crash during the
\* repair of an earlier crash.
CONSTANTS
    Examples = {e1, e2, e3}
    FsyncEvery = 2
    MaxCrashes = 2
    MaxRunnerErrors = 1
    MaxOutages = 1
    Garbled = Garbled
    NoRecord = NoRecord
SPECIFICATION Spec
INVARIANTS TypeOK  ProjectionsSettled CompletedIsJournal CleanExitIsComplete
  
