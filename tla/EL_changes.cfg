SPECIFICATION Spec
CONSTANTS
  Names <- MCNames
  Values <- MCValues
  NoValue = NoValue
  NoRouter = NoRouter
  NoDialog = NoDialog
  NoReauth = NoReauth
  MaxReloads = 2
INVARIANTS SavedCredentialsUsed
