\* Violated: a row the operator edits between two lives of the process is written over by the resume.
SPECIFICATION Spec
CONSTANTS
  Jobs = {1}
  Rows = {1}
  MaxEdits = 1
  MaxFaults = 0
  MaxStops = 1
PROPERTY
  ReapplyIsHarmless
CHECK_DEADLOCK FALSE
