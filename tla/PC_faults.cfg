SPECIFICATION Spec
CONSTANTS
  m1 = m1
  m2 = m2
  m3 = m3
  Macs = {m1, m2}
  NoRule = NoRule
  NoName = NoName
  NoTask = NoTask
  NoRequest = NoRequest
  NoTable = NoTable
  NoWrite = NoWrite
  Writers = {w1, w2}
  Pollers = {p1}
  Names <- MCNames
  LibName = "lib"
  Schedules <- MCSchedules
  DefaultSchedule = "always"
  MaxRules = 2
  Requests <- FaultRequests
  InitTables <- MCOneTable
  WebRules <- MCWebRules
  ConfirmAttempts = 2
  Faults = {"late", "drop", "web"}
INVARIANTS RemovalHolds NoResurrection ConfirmedKept
