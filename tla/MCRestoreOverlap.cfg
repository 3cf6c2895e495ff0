\* By hand: two restore jobs that overlap.
SPECIFICATION Spec
CONSTANTS
  w0 = w0
  w1 = w1
  w2 = w2
  j1 = j1
  j2 = j2
  Workspaces = {w0, w1}
  First = w0
  Absent = Absent
  Torn = Torn
  Stagers <- TwoJobs
  WriterCompanions <- AnyWriter
INVARIANTS
  StoreNeverMissing
  CompanionsBelong
  ReplacedIsKept
