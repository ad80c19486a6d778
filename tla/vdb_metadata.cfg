\* The class comment promises metadata with the results of a query.
SPECIFICATION Spec
CONSTANTS
  i1 = i1
  i2 = i2
  Id <- MCId
  Configs = {TRUE, FALSE}
  Threshold = TRUE
INVARIANT
  RowsCarryMeta
