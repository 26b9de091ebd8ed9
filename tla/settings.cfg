\* One page, another client that patches and uploads, polls that fail in part, two
\* requests at the helper at once.
SPECIFICATION SettingsSpec
CONSTANTS
  Keys = {bind, tun, ctl, providers}
  SubKeys = {enable, stack}
  Leaves = {star, addr, blank, null, on, off, mixed, ours, theirs, outside}
  Unset = Unset
  SettingKeys = {bind, tun}
  FixedKeys = {ctl}
  Fixed <- MCFixed
  ProviderKeys = {providers}
  Outside = {outside}
  Plain = {bind}
  Groups = {tun}
  Formed = {enable}
  Choices <- MCChoices
  Shown <- MCShown
  Sent <- MCSent
  Accepts <- MCAccepts
  Uploads <- MCUploads
  Patches <- MCPatches
  CoreAnswers <- MCCoreAnswers
  Handlers = {h1, h2}
  Nil = Nil
  bind = bind
  tun = tun
  ctl = ctl
  providers = providers
  enable = enable
  stack = stack
  star = star
  addr = addr
  blank = blank
  null = null
  on = on
  off = off
  mixed = mixed
  ours = ours
  theirs = theirs
  outside = outside
SYMMETRY SettingsSymmetry
INVARIANT ActiveIsPrepared
INVARIANT OverridesApplied
 
PROPERTY SaveKeepsRest
PROPERTY EditSurvives
PROPERTY SavedStaysSaved
