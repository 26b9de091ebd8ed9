\* One hook, two connections: every life of core, server and page.
SPECIFICATION StreamFairSpec
CONSTANTS
  Effects = {e1, e2}
  Conns = {s1, s2}
  Nil = Nil
INVARIANT OneStream
PROPERTY StreamRecovers
PROPERTY HandlersEnd
