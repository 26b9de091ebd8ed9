\* Two logins at once against a limit of two, in time that passes.
SPECIFICATION LimFairSpec
CONSTANTS
  Requests = {r1, r2}
  Slots = {s1, s2, s3, s4}
  Limit = 2
  Window = 3
  Nil = Nil
INVARIANT FailuresBounded
PROPERTY LockLifts
