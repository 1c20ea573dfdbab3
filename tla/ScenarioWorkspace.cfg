SPECIFICATION WorkspaceSpec
CONSTANTS
  adm = adm
  eng = eng
  weights = weights
  outage = outage
  k1 = k1
  k2 = k2
  Users = {adm, eng}
  InitialRole <- RolesOfTwo
  Members = {eng}
  DatabaseMode = TRUE
  MaxAccessChanges = 1
  Keys <- KeysOfTwo
  Contents = {weights, outage}
  Mappable = {weights}
  MaxHead = 2
  MaxInFlight = 2
  None = None
INVARIANTS
  EffectPerKey
PROPERTIES
  LiveOnItsBasis
CHECK_DEADLOCK FALSE
