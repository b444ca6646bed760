SPECIFICATION Spec
CONSTANTS
  None = None
  c1 = c1
  c2 = c2
  c3 = c3
  e1 = e1
  w1 = w1
  p1 = p1
  p2 = p2
  support = support
PROPERTIES
  WorkEnds
  PagesSettle
CHECK_DEADLOCK FALSE
