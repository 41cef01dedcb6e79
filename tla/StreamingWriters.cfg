SPECIFICATION OutputSpec
CONSTANTS
  j1 = j1
  j2 = j2
  q1 = q1
  q2 = q2
  s1 = s1
  s2 = s2
  Jobs = {j1, j2}
  Queries = {q1, q2}
  Schemas = {s1, s2}
  BatchCount <- MCBatchCount
  NoJob = NoJob
  NoManifest = NoManifest
  NoSchema = NoSchema
  Absent = Absent
  Damaged = Damaged
  NoClaim = NoClaim
  StaleClaim = StaleClaim
  MaxLaunches = 3
  MaxFaults = 2
  MaxTampered = 1
  Writers = {j1, j2}
  NoFile = NoFile
  NoSidecar = NoSidecar
  StaleSidecar = StaleSidecar
  RowGroups = 2
  Foreign = Foreign
  MaxStarts = 3
  MaxStrikes = 2
  MaxForeign = 2
CHECK_DEADLOCK FALSE
INVARIANT ClaimExclusive
INVARIANT ManifestTrue
PROPERTY RefinesShardedRun
PROPERTY OutputKept
