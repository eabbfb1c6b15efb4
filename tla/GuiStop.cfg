SPECIFICATION Spec
CONSTANTS
  a1 = a1
  a2 = a2
  Publishers = {input}
  Apps = {a1}
  NoApp = NoApp
  Layer <- OneLayer
  GuiQueue = 1
  AppQueue = 1
  MaxEvents = 4
PROPERTIES
  StopStops
CHECK_DEADLOCK FALSE
