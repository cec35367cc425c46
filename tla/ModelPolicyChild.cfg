SPECIFICATION Spec
CONSTANTS
  m1 = m1
  m2 = m2
  m3 = m3
  o1 = o1
  o2 = o2
  None = None
  Models = {m1, m2, m3}
  Operations = {o1, o2}
  Amounts = {1, 2}
  Policies <- TwoRows
  MaxRows = 4
PROPERTIES
  ChildOnlyRestrictsParent
CHECK_DEADLOCK FALSE
