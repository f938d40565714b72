CONSTANTS
  Main = main
  Thread = {main, t1}
  NoThread = NoThread
  Term <- MCTerm
  Arg <- MCArg
  Arity <- MCArity
  Hooked <- MCHooked
  Variable = {v1, v2}
  IndexMap = IndexMap
SYMMETRY Symmetry
SPECIFICATION Spec
INVARIANTS
  
  AccessibleTermsExist
  ArgumentsExist
  HookFindsItsTerm
  IndicesDistinct
PROPERTIES
  ProtectionStable
  NoVariableOrphaned
