\* One editor: exec and writes may fail, a core exits and is restarted, and the
\* helper ends between any two steps.
SPECIFICATION ConfSpec
CONSTANTS
  Calls = {}
  Others = {e1}
  Shutdown = shutdown
  Procs = {p1, p2}
  Configs <- MCConfigs
  Nil = Nil
  Docs = {good, bad}
  BadDocs = {bad}
  Keys = {k1}
  Vals = {v1, v2}
  Uploads <- MCSetting
  Unset = Unset
  Torn = Torn
  EmptyDoc = good
  ExecMayFail = TRUE
  DiskMayFail = TRUE
  MayCrash = TRUE
SYMMETRY ConfSymmetry
INVARIANT ConfTypeOK
INVARIANT ActiveIsAccepted
INVARIANT OverridesInForce
PROPERTY FailureKeepsPrior
