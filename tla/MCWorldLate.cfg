SPECIFICATION Spec
CONSTANTS
  Agents = {1}
  Places <- MCPlaces
  Routes <- MCRoutes
  RouteFrom <- MCFrom
  RouteTo <- MCTo
  RouteMinutes <- MCMinutes
  RouteRisk <- MCRisk
  PlaceRisk <- MCPlaceRisk
  Full <- MCFull
  ReachedAt <- MCReachedAt
  Urgency <- MCUrgency
  TimeCostRate = 25
  SwitchMargin = 100
  UnknownRisk = 300
  RestMinutes = 480
  StartPlaces = {"yard", "bridge"}
  Cautions = {500}
  Food <- MCFood
  Strides = {240, 1440}
  MaxTime = 3120
  MaxOrders = 2
CHECK_DEADLOCK FALSE
INVARIANTS ReplayAgrees NobodyStuck
