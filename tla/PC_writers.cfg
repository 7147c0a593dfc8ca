SPECIFICATION FairSpec
CONSTANTS
  m1 = m1
  m2 = m2
  m3 = m3
  Macs = {m1, m2, m3}
  NoRule = NoRule
  NoName = NoName
  NoTask = NoTask
  NoRequest = NoRequest
  NoTable = NoTable
  NoWrite = NoWrite
  Writers = {w1, w2}
  Pollers = {p1}
  Names <- MCNames
  LibName = "lib"
  Schedules <- MCSchedules
  DefaultSchedule = "always"
  MaxRules = 2
  Requests <- WriterRequests
  InitTables <- MCInitTables
  WebRules <- MCWebRules
  ConfirmAttempts = 3
  Faults = {}
INVARIANTS TypeOK LockHeld
PROPERTIES WriteTouchesOnlyTargets ImplementsService GrowthWithinLimit EveryTaskReturns
