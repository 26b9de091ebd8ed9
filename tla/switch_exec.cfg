\* One editor beside a core action; exec may fail, so that the backup is
\* restored; writes work, the helper ends only between requests.
SPECIFICATION ConfFairSpec
CONSTANTS
  Calls = {c1}
  Others = {e1}
  Shutdown = shutdown
  Procs = {p1, p2}
  Configs <- MCConfigs
  Nil = Nil
  Docs = {good, bad}
  BadDocs = {bad}
  Keys = {k1}
  Vals = {v1}
  Uploads <- MCUploads
  Unset = Unset
  Torn = Torn
  EmptyDoc = good
  ExecMayFail = TRUE
  DiskMayFail = FALSE
  MayCrash = FALSE
INVARIANT StaleCoreIsReplaced
PROPERTY ImplementsConfigService
PROPERTY ImplementsActivation
PROPERTY RequestsEnd
