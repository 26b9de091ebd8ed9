\* Two editors at once, as two browser tabs or a retry after a timeout start
\* them.
SPECIFICATION ConfSpec
CONSTANTS
  Calls = {}
  Others = {e1, e2}
  Shutdown = shutdown
  Procs = {p1, p2}
  Configs <- MCConfigs
  Nil = Nil
  Docs = {good}
  BadDocs = {}
  Keys = {k1}
  Vals = {v1}
  Uploads <- MCUploads
  Unset = Unset
  Torn = Torn
  EmptyDoc = good
  ExecMayFail = FALSE
  DiskMayFail = FALSE
  MayCrash = FALSE
SYMMETRY ConfSymmetry
INVARIANT ActiveIsAccepted
