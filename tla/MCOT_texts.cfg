SPECIFICATION Spec
CONSTANTS
  x = x
  y = y
  hi = hi
  lo = lo
  Units = {x}
  High = {hi}
  Low = {lo}
  Docs <- Texts
  MaxInserts <- TwoOrOne
INVARIANTS
  TransformConverges
  ComposeIsSequential
  UntouchedRangeKeepsItsText
  CharactersStayWhole
CHECK_DEADLOCK FALSE
