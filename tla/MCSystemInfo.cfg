CONSTANTS
  Threads = {t1, t2, t3}
  Fields = {"granularity", "page"}
  Actual <- MCActual
  Unset = 0
SPECIFICATION Spec
INVARIANTS TypeOK SizesKnown
PROPERTIES FieldsStable
