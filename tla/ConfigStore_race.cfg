SPECIFICATION Spec
CONSTANTS
  p1 = p1
  p2 = p2
  home = home
  other = other
  Proc = {p1, p2}
  Profile = {home, other}
  Default = home
  NoProfile = NoProfile
  Given = {}
  Stated = {0}
  MaxKey = 2
  Margin = 1
  MaxTip = 4
  MaxFaults = 1
  MaxStarts = 3
SYMMETRY Symmetric
INVARIANT KeysKept
INVARIANT SummaryTrue
INVARIANT BirthdayCovers
CHECK_DEADLOCK FALSE
