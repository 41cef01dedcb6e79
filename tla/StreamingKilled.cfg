SPECIFICATION WriterSpec
CONSTANTS
  j1 = j1
  j2 = j2
  q1 = q1
  q2 = q2
  s1 = s1
  s2 = s2
  Jobs = {j1, j2}
  Queries = {q1}
  Schemas = {s1}
  BatchCount <- MCBatchCount
  NoJob = NoJob
  NoManifest = NoManifest
  NoSchema = NoSchema
  Absent = Absent
  Damaged = Damaged
  NoClaim = NoClaim
  StaleClaim = StaleClaim
  MaxLaunches = 2
  MaxFaults = 1
  MaxTampered = 0
CHECK_DEADLOCK FALSE
SYMMETRY JobSymmetry
INVARIANT KilledRunResumes
