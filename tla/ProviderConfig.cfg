CONSTANTS
  None = None
  a1 = a1
  a2 = a2
  k1 = k1
  u1 = u1
  m1 = m1
  h1 = h1
  h2 = h2
  r1 = r1
  Accounts <- MCAccounts
  Providers <- MCProviders
  DirectKeys <- MCDirectKeys
  Urls <- MCUrls
  Models <- MCModels
  Envs <- MCEnvs
  Handlers <- MCHandlers
  Runs <- MCRuns
  Poller = poller
  MaxChanges = 2
  MaxRestarts = 1
SPECIFICATION FairSpec
INVARIANTS
  TypeOK
  SettingsReachTheProvider
  NoOAuthTokenOnTheWire
  SignInLasts
PROPERTIES
  LoneSwitchAgrees
  FormerAccountFades
