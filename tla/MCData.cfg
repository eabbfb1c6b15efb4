SPECIFICATION DataSpec
CONSTANTS
  gui = gui
  shell = shell
  Starters <- GuiAndCli
  Entries <- AllEntries
  Bodies = {b1, b2}
  Apps = {irda, nfc}
  NoApp = NoApp
  LevelMax = 1
  Threads = {t1, t2}
  NoThread = NoThread
  SD_FS_MAX_FILES = 2
  MaxTries = 1
  MaxItems = 3
  MAX_DEPTH = 2
  Nesting = 3
  MaxFiles = 3
  FILENAME_COUNT = 4
  MaxLength = 6
INVARIANTS
  DataTypeOK
  FailsOnlyByOverlap
  OneApp
  FilesStayApart
  SelectedExists
  SelectionShown
PROPERTIES
  DecodesWhatWasSent
  BackReturns
  ImplementsRing
CHECK_DEADLOCK FALSE
