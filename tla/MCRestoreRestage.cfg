\* By hand, violated: a second Stage clears the staged store before the marker that stands for it.
SPECIFICATION Spec
CONSTANTS
  w0 = w0
  w1 = w1
  w2 = w2
  j1 = j1
  j2 = j2
  Workspaces = {w0, w1}
  First = w0
  Absent = Absent
  Torn = Torn
  Stagers <- OneJob
  WriterCompanions <- SingleFileWriter
INVARIANTS
  ReportedMeansAdopted
