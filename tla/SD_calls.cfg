SPECIFICATION Spec
CONSTANTS
  m1 = m1
  m2 = m2
  Macs = {m1, m2}
  Callers = {c1, c2, c3}
  NoCaller = NoCaller
  Addresses <- MCAddresses
  Details <- MCDetails
  NoLease = NoLease
  NoLeases = NoLeases
  Ops <- MCOps
  NoOp = NoOp
  InitLeases <- MCInitLeases
  WebLeases <- MCWebLeases
  Faults = {}
INVARIANTS TypeOK UniqueAddresses CacheIsCurrent
PROPERTY ReservationsStay
