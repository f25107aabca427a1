SPECIFICATION Spec
CONSTANTS
  r1 = r1
  r2 = r2
  r3 = r3
  Records = {r1, r2, r3}
  RequestTime <- MCTime
  Jobs = {j1, j2}
  RetentionTime = 2
  MaxRecords = 1
  Archive = TRUE
  QueryLimit = 0
  Day = 2
  MaxDelay = 1
  MaxTime = 3
SYMMETRY MCSymmetry
INVARIANTS KeepsTheNewest NoJobAfterStop
PROPERTIES ArchivesWhatItSaw
