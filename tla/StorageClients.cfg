SPECIFICATION Spec
CONSTANTS
  Clients = {dolphin}
  StorageThread = service
  Keys = {state}
  Values = {v1, empty}
  Empty = empty
  NoValue = NoValue
  NoFrame = NoFrame
  NoThread = NoThread
  NoData = NoData
  QueueSize = 8
  Record = internal_storage
  Instance = instance
PROPERTIES
  ReturnsAnswer
