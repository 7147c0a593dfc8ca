SPECIFICATION FairSpec
CONSTANTS
  m1 = m1
  m2 = m2
  Macs = {m1, m2}
  Types = {"block", "disable"}
  NoRule = NoRule
  Calls = {c1, c2}
  NoCall = NoCall
  Requests <- MCRequests
  NoRequest = NoRequest
  InitTables <- MCInitTables
  WebRules <- MCWebRules
INVARIANTS TypeOK RemovalsUnderLock EveryRuleHasSwitch SwitchShowsRule
PROPERTIES RemovedLeavesNothing EveryCallReturns
