SPECIFICATION Spec
CONSTANTS
  MaxArgs = 4
  CommandLines <- ShortLines
INVARIANTS
  TypeOK
  OptionsStayWithTheirBuild
  BuiltBeforeNext
