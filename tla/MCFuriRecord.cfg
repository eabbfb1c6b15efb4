SPECIFICATION Spec
CONSTANTS
  service = service
  gui = gui
  Threads = {service, app1, app2}
  Names = {gui}
  Data = {d1, d2}
  Provider <- MCProvider
  NoThread = NoThread
  NoData = NoData
INVARIANTS
  RecordPointerLive
  HandleLive
  ReturnsData
  NoLostWakeup
PROPERTIES
  ImplementsService
  OpenReturns
