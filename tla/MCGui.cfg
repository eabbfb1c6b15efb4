SPECIFICATION Spec
CONSTANTS
  a1 = a1
  a2 = a2
  Publishers = {input, timer}
  Apps = {a1, a2}
  NoApp = NoApp
  Layer <- OneLayer
  GuiQueue = 1
  AppQueue = 2
  MaxEvents = 3
SYMMETRY Symmetric
INVARIANTS
  NoStrandedInput
  ScreenIsCurrent
  CallbackIsLive
PROPERTIES
  HandledInOrder
CHECK_DEADLOCK FALSE
