SPECIFICATION Spec
CONSTANTS
  MaxArgs = 2
  CommandLines <- ShortLines
INVARIANTS
  RunCmakeHonoured
