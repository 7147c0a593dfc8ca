SPECIFICATION FairSpec
CONSTANTS
  m1 = m1
  m2 = m2
  Macs = {m1, m2}
  Callers = {c1, c2}
  NoCaller = NoCaller
  Addresses <- MCAddresses
  Details <- MCDetails
  NoLease = NoLease
  NoLeases = NoLeases
  Ops <- MCFewOps
  NoOp = NoOp
  InitLeases <- MCInitLeases
  WebLeases <- MCWebLeases
  Faults = {"web", "late"}
PROPERTIES OkIsTrue EveryCallReturns
