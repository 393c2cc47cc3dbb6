SPECIFICATION SpecL
CONSTANTS
  Packs = {1, 2}
  Limit <- TwoOne
  Unit = 3
  Charges = {1, 4}
  MaxVersion = 4
INVARIANTS NearestIsFirstOpen FollowsUpstream
PROPERTIES EventuallyExact
