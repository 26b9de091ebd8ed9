\* Two requests of any kind and an edit of the current configuration beside them,
\* restarts of the server, lost answers, starts, copies and a store that fail.
SPECIFICATION ProfSpec
CONSTANTS
  Requests = {r1, r2}
  Docs = {d1, d2}
  Urls = {u1}
  MaxId = 2
  Nil = Nil
SYMMETRY ProfSymmetry
INVARIANT ProfTypeOK
INVARIANT AtMostOneActive
INVARIANT FlagMatchesHelper
PROPERTY DeletedStaysDeleted
