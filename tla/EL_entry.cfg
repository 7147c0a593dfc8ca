SPECIFICATION FairSpec
CONSTANTS
  Names <- MCNames
  Values <- MCValues
  NoValue = NoValue
  NoRouter = NoRouter
  NoDialog = NoDialog
  NoReauth = NoReauth
  MaxReloads = 2
INVARIANTS TypeOK OneRouterRegistered ChangesNoticed OnlyCheckedStored ReauthOffered
PROPERTIES ReauthTakesEffect
