SPECIFICATION FairSpec
CONSTANTS
  v1 = v1
  v2 = v2
  Checkers = {c1, c2}
  Versions <- MCVersions
  Results <- MCResults
INVARIANTS
  OfferIsWhole
PROPERTIES
  FailureKeepsOffer
  GuardOpens
