\* Two requests beside reset-password; processes end and writes fail anywhere.
SPECIFICATION SessSpec
CONSTANTS
  Requests = {r1, r2}
  Passwords = {p1, p2, p3, p4}
  Tokens = {t1, t2}
  Nil = Nil
SYMMETRY SessSymmetry
INVARIANT SessTypeOK
INVARIANT ForcedUnlessChosen
INVARIANT PasswordKnown
INVARIANT BootstrapOpens
