SPECIFICATION FairSpec
CONSTANTS
  Agents = {1, 2}
  Places <- MCPlaces
  Routes <- MCRoutes
  RouteFrom <- MCFrom
  RouteTo <- MCTo
  RouteMinutes <- MCMinutes
  RouteRisk <- MCRisk
  PlaceRisk <- MCPlaceRisk
  Full <- MCFull
  ReachedAt <- MCReachedAt
  Urgency <- MCUrgency
  TimeCostRate = 25
  SwitchMargin = 100
  UnknownRisk = 300
  RestMinutes = 480
  StartPlaces = {"bridge"}
  Cautions = {500, 1500}
  Food <- MCFood
  Strides = {240}
  MaxTime = 2160
  MaxOrders = 1
CHECK_DEADLOCK FALSE
INVARIANTS TypeOK CrossingAwaited NeedsMet NothingFails CardsTellTheWorld
PROPERTIES MomentsEnd
