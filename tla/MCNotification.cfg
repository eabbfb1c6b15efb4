SPECIFICATION Spec
CONSTANTS
  Clients = {app, cli}
  NoClient = NoClient
  Leds <- MCLeds
  Requests <- MCRequests
  Capacity = 1
  TimerQueue = 4
  MaxRequests = 3
INVARIANTS
  LightsShown
  SequenceIsLive
PROPERTIES
  BlockReturns
  DisplayGoesOff
CHECK_DEADLOCK FALSE
