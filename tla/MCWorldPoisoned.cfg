SPECIFICATION FairSpec
CONSTANTS
  Agents = {1}
  Places <- MCPlaces
  Routes <- MCRoutes
  RouteFrom <- MCFrom
  RouteTo <- MCTo
  RouteMinutes <- MCMinutes
  RouteRisk <- MCRisk
  PlaceRisk <- MCPlaceRisk
  Full <- MCFull
  ReachedAt <- MCReachedAt
  Urgency <- MCUrgency
  TimeCostRate = 25
  SwitchMargin = 100
  UnknownRisk = 300
  RestMinutes = 480
  StartPlaces = {"bridge"}
  Cautions = {500}
  Food <- MCFood
  Strides = {1440}
  MaxTime = 2880
  MaxOrders = 1
CHECK_DEADLOCK FALSE
PROPERTIES MomentsEnd
