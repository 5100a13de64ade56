SPECIFICATION Spec
SYMMETRY Symmetric
CONSTANTS
  f1 = f1 f2 = f2 x = x y = y z = z
  s1 = s1 s2 = s2 None = None
  Feeds = {f1, f2}
  Urls = {x, y, z}
  Home <- TwoHomes
  Sessions = {s1, s2}
  QuarantineAfter = 1
  MaxClock = 4
  MaxVersion = 2
  MaxEvents = 2
\* The fetches the clock allows are over and no job is left.
CHECK_DEADLOCK FALSE
INVARIANTS TypeOK ValidatorsHonest OneWriter OwnFeedLive ForceKept
PROPERTY NotModifiedHonest
