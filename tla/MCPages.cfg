SPECIFICATION Spec
CONSTANTS
  Pages <- AllPages
  Row <- TwoRows
  First <- OneRow
  PageSize <- MCPageSize
  MaxWork = 2
  MaxMishap = 1
INVARIANTS OwnWritesShown 
PROPERTIES SavedAsSeen
CHECK_DEADLOCK FALSE
