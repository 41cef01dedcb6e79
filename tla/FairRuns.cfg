\* Resumes and a reader without a claim; a fan-out among the reconfigurations
\* of another thread.  Whoever has work to do goes on with it.
SPECIFICATION FairRunsSpec
CONSTANTS
  j1 = j1
  j2 = j2
  q1 = q1
  q2 = q2
  s1 = s1
  s2 = s2
  Jobs = {j1, j2}
  Queries = {q1}
  Schemas = {s1, s2}
  BatchCount <- MCBatchCount
  NoJob = NoJob
  NoManifest = NoManifest
  NoSchema = NoSchema
  Absent = Absent
  Damaged = Damaged
  NoClaim = NoClaim
  StaleClaim = StaleClaim
  MaxLaunches = 2
  MaxFaults = 2
  MaxTampered = 1
  Runs = {r1}
  Users = {u1}
  Workers = {w1, w2}
  Total = 5
  Minimum = 1
  Lines = 2
  Settings <- BarOrLines
  OwnInfo = FALSE
  MaxInstalls = 2
CHECK_DEADLOCK FALSE
INVARIANT ReaderSound
INVARIANT LinesExact
INVARIANT BarsExact
PROPERTY RunCompletes
PROPERTY ClaimFreed
PROPERTY NoneWaits
