\* Every order of installs, precomputations, saves and loads around a pinned
\* query; and two saving processes, killed or cut off anywhere, under loaded networks.
SPECIFICATION OneSpec
CONSTANTS
  Dates = {d1, d2}
  Factors = {f1, f2}
  Bindings = {b1, b2}
  Queries = {q1}
  QueryKinds = {"time", "emissions", "policy", "carriage"}
  Calls = 2
  MaxInstalls = 3
  Processes = {p1, p2}
  Networks = {n1}
  Streets = {s1}
  Artifacts = {A, B}
  Unread = Unread
  Parts = 2
  MaxSaves = 3
SYMMETRY Symmetry
INVARIANT LookupsCurrent
INVARIANT ChecksumIdentifies
INVARIANT SnapshotExact
INVARIANT SavesWhole
INVARIANT HeldUnchanged
