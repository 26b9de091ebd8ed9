\* Two concurrent core actions, shutdown, crashes, with and without an active
\* configuration; exec always works.
SPECIFICATION SupFairSpec
CONSTANTS
  Calls = {c1, c2}
  Others = {}
  Shutdown = shutdown
  Procs = {p1, p2, p3}
  Configs = {cfg}
  Nil = Nil
  ExecMayFail = FALSE
INVARIANT SupTypeOK
INVARIANT NoStrayCore
INVARIANT TrackedIsLive
INVARIANT NoRestartOfStopped
PROPERTY StoppedCoreDies
PROPERTY CoreRevived
PROPERTY ImplementsService
