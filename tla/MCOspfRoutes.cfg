SPECIFICATION FairSpec
CONSTANTS
  Router <- FourRouters
  Me = 1
  NumMtIds = 1
  MaxCost = 6
  Databases <- AllGraphs
INVARIANTS
  TypeOK
  RoutesAreShortest
  LinksFollowed
  PathsAreReal
  AbortsAtLimit
PROPERTIES
  InstalledCostsAreFinal
  ComputationEnds
CHECK_DEADLOCK FALSE
