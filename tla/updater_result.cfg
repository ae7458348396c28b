SPECIFICATION Spec
CONSTANTS
  Paths = {1, 2}
  MaxUpgrades = 3
INVARIANTS
  VerdictIsTrue
  VerdictsAgree
  SuccessIsRecorded
