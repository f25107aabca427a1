SPECIFICATION Spec
CONSTANTS
  r1 = r1
  r2 = r2
  r3 = r3
  Records = {r1, r2, r3}
  RequestTime <- MCTime
  Jobs = {j1}
  RetentionTime = 2
  MaxRecords = 0
  Archive = TRUE
  QueryLimit = 1
  Day = 1
  MaxDelay = 1
  MaxTime = 4
PROPERTIES DeletedIsArchived
