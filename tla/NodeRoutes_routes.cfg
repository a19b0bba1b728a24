SPECIFICATION LiveSpec
CONSTANTS
  page = page
  bridge = bridge
  own = own
  banned = banned
  Path = Path
  Bare = Bare
  None = None
  Nodes = {n1}
  Keys <- MCKeys
  Bridges <- MCBridges
  Origins <- MCOrigins
  Blocked <- MCBlocked
  Allowed <- MCAllowed
  Configs <- MCConfigs
  MaxDisturbances = 5
INVARIANTS
  RoutesAreOneDeclaration
PROPERTIES
  BridgesSurvive
  OnlySilentNodesAreMarked
  RoutesCatchUp
CHECK_DEADLOCK FALSE
