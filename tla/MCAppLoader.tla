---------------------------- MODULE MCAppLoader ----------------------------
(* The GUI thread starts applications from the main menu and from the      *)
(* archive, the CLI thread starts them by a command.                       *)
EXTENDS AppLoader

CONSTANTS gui, shell
GuiOnly == {gui}
MenuAndArchive == [c \in GuiOnly |-> {"menu", "archive"}]

GuiAndCli == {gui, shell}
AllEntries == [c \in GuiAndCli |-> IF c = gui THEN {"menu", "archive"} ELSE {"cli"}]
=============================================================================
