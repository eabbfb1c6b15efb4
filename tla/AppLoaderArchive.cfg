SPECIFICATION LoaderSpec
CONSTANTS
  gui = gui
  shell = shell
  Starters <- GuiOnly
  Entries <- MenuAndArchive
  Bodies = {b1, b2}
  Apps = {irda, nfc}
  NoApp = NoApp
  LevelMax = 3
PROPERTIES
  Paired
