--------------------------- MODULE MCRestoreSwap ---------------------------
(* Instances of the restore swap for TLC.                                  *)
EXTENDS RestoreSwap

CONSTANTS w0, w1, w2, j1, j2

OneJob == {j1}
TwoJobs == {j1, j2}
SingleFileWriter == {{}}
AnyWriter == {{}, {"wal"}, {"journal"}}
=============================================================================
