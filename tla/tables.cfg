SPECIFICATION TablesSpec
CONSTANTS
  v1 = v1
  v2 = v2
  Handlers = {g1, g2}
  Offers <- TwoOffers
  NoVersion = NoVersion
  Parts <- OneAndTwo
  Mirrors = {m1}
  MaxFaults = 1
INVARIANTS
  CheckRepairs
  UrlsFitPackages
PROPERTY
  ImplementsStore
