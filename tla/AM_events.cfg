SPECIFICATION Spec
CONSTANTS
  Macs = {n1, n2}
  Kept = {n1, n2}
  Details <- MCDetails
  NoDetail = NoDetail
  Snapshots <- MCSnapshots
  Updaters = {u1, u2}
  NoNode = NoNode
  NoSnapshot = NoSnapshot
PROPERTIES ConnectsOnce NumberShown
