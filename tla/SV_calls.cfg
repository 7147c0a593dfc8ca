SPECIFICATION FairSpec
CONSTANTS
  a = a
  b = b
  x = x
  y = y
  Entries = {a, b}
  RouterMode = {a, b}
  Entities = {x, y}
  Home <- MCHome
  NoEntry = NoEntry
  Calls = {c1, c2}
  Requests <- MCRequests
  NoRequest = NoRequest
  NoObject = NoObject
  NoCall = NoCall
  MaxSetups <- MCMaxSetups
  Knowledge <- MCKnowledge
INVARIANTS TypeOK OkMeansDone ReportIsTrue NoPartialRejection
PROPERTIES EveryCallReturns
CHECK_DEADLOCK FALSE
