SPECIFICATION RpSpec
CONSTANTS
  Missing = Missing
  Nothing = Nothing
  NoText = NoText
  a = a
  aBlank = aBlank
  red = red
  Runs = {1, 2, 3}
  StartDb <- MCStartDb
  Found <- MCFound
  TagOf <- MCTagOf
  Texts = {NoText, a, aBlank}
  Trim <- MCTrim
  Kinds = {"log"}
  Sizes = {1, 2}
  FirstSize = 1
  QueueSize = 2
  MaxEvents = 3
INVARIANTS RpTypeOK QuietIsExact
PROPERTIES SearchSettles
CHECK_DEADLOCK FALSE
