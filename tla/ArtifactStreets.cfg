\* A street network loaded while another process saves over its path.
SPECIFICATION PathSpec
CONSTANTS
  Processes = {p1}
  Networks = {}
  Streets = {s1}
  Artifacts = {A, B}
  Unread = Unread
  Parts = 2
  MaxSaves = 2
INVARIANT StreetSource
