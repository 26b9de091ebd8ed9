\* Two maintainers; three binaries, one of which cannot run, for one tag.
SPECIFICATION MaintSpec
CONSTANTS
  Maintainers = {m1, m2}
  Tags = {v1}
  Bundled = Bundled
  Binaries = {b1, b2, bad}
  Bad = {bad}
  Configs = {plain, modern}
  plain = plain
  modern = modern
  b1 = b1
  Refuses <- MCRefuses
  GeoFiles = {geoip, geosite}
  Optional = {}
  Releases = {g1, g2}
  Broken = Broken
  Nil = Nil
SYMMETRY MaintSymmetry
INVARIANT MaintTypeOK
INVARIANT InstalledHasRun
INVARIANT CoreTakesActive
INVARIANT GeoIsLoaded
PROPERTY FailureKeepsCore
PROPERTY SwitchedIsRunning
