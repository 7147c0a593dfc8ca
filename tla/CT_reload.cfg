SPECIFICATION Spec
CONSTANTS
  a = a
  b = b
  x = x
  Macs = {a, b, x}
  Kept = {a, b}
  Random = {}
  Snapshots <- MCSnapshots
  Timers = {t1}
  Removers = {r1}
  Removals <- MCRemovals
  MaxReloads = 1
  NoClient = NoClient
  NoTracker = NoTracker
  NoSnapshot = NoSnapshot
INVARIANT TrackersOnPlatform
