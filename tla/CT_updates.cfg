SPECIFICATION Spec
CONSTANTS
  a = a
  b = b
  x = x
  Macs = {a, b, x}
  Kept = {a, b}
  Random = {b}
  Snapshots <- MCSnapshots
  Timers = {t1}
  Removers = {r1, r2}
  Removals <- MCRemovals
  MaxReloads = 1
  NoClient = NoClient
  NoTracker = NoTracker
  NoSnapshot = NoSnapshot
INVARIANTS TypeOK EveryClientTracked TrackersCurrent
PROPERTY EventsAlternate
