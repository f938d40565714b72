CONSTANTS
  Main = main
  Thread = {main, t1}
  NoThread = NoThread
  Term <- MCFewTerm
  Arg <- MCFewArg
  Arity <- MCFewArity
  Hooked <- MCFewHooked
  Variable = {v1, v2}
  IndexMap = IndexMap
SPECIFICATION FairSpec
PROPERTY EveryCallReturns
