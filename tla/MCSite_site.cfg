SPECIFICATION SiteSpec
CONSTANTS
  k1 = k1
  k2 = k2
  other = other
  home = home
  away = away
  hash = hash
  bad = bad
  h1 = h1
  h2 = h2
  Keys = {k1, k2, other}
  Accounts = {home, away}
  AccountOf <- MCAccountOf
  InstalledKey = k1
  Legacy = hash
  Concerns = {"keys", "updates", "devices"}
  MaxConcerns = 1
  Versions = {1, 2}
  Malformed = bad
  FirstVersion = 1
  Handlers = {h1, h2}
  Entities = {"number", "sensor", "switch"}
  DomainOf <- MCDomainOf
  IdOrder <- MCIdOrder
  EnergyEntities = {"sensor"}
  MaxEntityRegistry = 1
  MaxClassifications = 1
INVARIANTS
  SiteTypeOK
  NoPointlessRestart
PROPERTIES
  NoRepoint
  StoredKeyIsUsed
  InstalledGoesLive
  AckIsHeard
  SnapshotFindsDevices
