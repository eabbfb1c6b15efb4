------------------------------- MODULE Archive -------------------------------
(***************************************************************************)
(* The browser of applications/archive/archive.c.  Its state is what its   *)
(* callbacks, all of which run on the GUI thread, leave behind: the number *)
(* of files the last listing found, the index of the selected one, and the *)
(* index to return to for each directory above.  None of it is recomputed  *)
(* when a file operation changes a directory without listing it again.     *)
(*                                                                         *)
(* The card is what the archive itself makes of it; reading a directory    *)
(* may fail at any file.  list_offset, the first row, is layout.  A use of *)
(* the selected file where there is none, for which the code has no        *)
(* defined outcome, ends the behaviour.                                    *)
(***************************************************************************)
EXTENDS Naturals, SequencesExt

CONSTANTS MAX_DEPTH, \* the entries of last_idx: 32 in the code
          Nesting,   \* bound on the directories inside each other
          MaxFiles   \* bound on the files of a directory

ASSUME ArchiveAssumption ==
  /\ {MAX_DEPTH, MaxFiles} \subseteq Nat \ {0}
  /\ Nesting \in Nat

VARIABLES
  files,    \* files_array_size(model->files)
  idx,      \* model->idx
  last_idx, \* browser.last_idx
  depth,    \* browser.depth
  menu,     \* browser.menu: the file menu is open
  renaming, \* the text input is the current view
  onCard,   \* how many files each directory of the path has, the open one last
  entered,  \* the indices the directories of the path were entered at
  outdated  \* history: in this tab, a directory became shorter without a new
            \* index, or was listed only in part when it was returned to

archiveVars == <<files, idx, last_idx, depth, menu, renaming, onCard, entered, outdated>>

Files == 0..MaxFiles
BrowserDepths == 0..MAX_DEPTH

ArchiveTypeOK ==
  /\ files \in Files /\ idx \in 0..(MaxFiles + 1)
  /\ last_idx \in [0..(MAX_DEPTH - 1) -> 0..(MaxFiles + 1)]
  /\ depth \in BrowserDepths
  /\ {menu, renaming, outdated} \subseteq BOOLEAN
  /\ onCard \in Seq(Files) /\ entered \in Seq(Files)
  /\ Len(onCard) = Len(entered) + 1

(* archive_get_filenames: the list is empty when the directory cannot be   *)
(* opened.  Reading ends early where an error leaves no name or says that  *)
(* there is none; at any other error that stays the loop never ends, and   *)
(* neither does the step.                                                  *)
Listing(count) == 0..count

ArchiveInit ==
  /\ \E n \in Files : onCard = <<n>> /\ files \in Listing(n)
  /\ idx = 0
  /\ last_idx = [d \in 0..(MAX_DEPTH - 1) |-> 0]
  /\ depth = 0
  /\ menu = FALSE /\ renaming = FALSE
  /\ entered = <<>>
  /\ outdated = FALSE

-----------------------------------------------------------------------------
browser == <<last_idx, depth, onCard, entered, outdated>>
views == <<menu, renaming>>
Browsing == ~menu /\ ~renaming

(* CLAMP(index, files_array_size - 1, 0) of an index that is not negative: *)
(* the upper bound is unsigned, and without a file there is none.          *)
BadClamp(i, count) == IF i <= count THEN i ELSE count
Clamp(i, count) == IF count = 0 \/ i < count THEN i ELSE count - 1

(* Without files the index grows; it is bounded here.                      *)
Down ==
  /\ Browsing /\ idx <= MaxFiles
  /\ idx' = Clamp(idx + 1, files)
  /\ UNCHANGED <<files, browser, views>>

Up ==
  /\ Browsing
  /\ idx' = Clamp(IF idx = 0 THEN 0 ELSE idx - 1, files)
  /\ UNCHANGED <<files, browser, views>>

(* Left and Right: archive_switch_tab.                                     *)
SwitchTab ==
  /\ Browsing
  /\ \E n \in Files : onCard' = <<n>> /\ files' \in Listing(n)
  /\ idx' = 0
  /\ depth' = 0
  /\ entered' = <<>>
  /\ outdated' = FALSE
  /\ UNCHANGED <<last_idx, views>>

BadEnterDir == \* the depth grows before the index is saved
  /\ Browsing /\ files > 0 /\ idx < files
  /\ Len(entered) < Nesting
  /\ depth' = IF depth < MAX_DEPTH THEN depth + 1 ELSE MAX_DEPTH
  /\ last_idx' = [last_idx EXCEPT ![depth'] = Clamp(idx, files)]
  /\ idx' = 0
  /\ \E n \in Files : onCard' = Append(onCard, n) /\ files' \in Listing(n)
  /\ entered' = Append(entered, idx)
  /\ UNCHANGED <<views, outdated>>

(* OK on a folder: archive_enter_dir.  Nothing looks at the depth: in a    *)
(* directory at MAX_DEPTH the index is stored past the end of last_idx,    *)
(* over browser.menu, and the depth stays.                                 *)
EnterDir ==
  /\ Browsing /\ files > 0 /\ idx < files
  /\ Len(entered) < Nesting
  /\ IF depth < MAX_DEPTH
     THEN /\ last_idx' = [last_idx EXCEPT ![depth] = Clamp(idx, files)]
          /\ depth' = depth + 1
          /\ menu' = menu
     ELSE /\ menu' = (Clamp(idx, files) % 256 # 0)
          /\ UNCHANGED <<last_idx, depth>>
  /\ idx' = 0
  /\ \E n \in Files : onCard' = Append(onCard, n) /\ files' \in Listing(n)
  /\ entered' = Append(entered, idx)
  /\ UNCHANGED <<renaming, outdated>>

(* Back below the first directory: archive_leave_dir.  At depth 0 the      *)
(* archive ends.                                                           *)
LeaveDir ==
  /\ Browsing /\ depth > 0 /\ entered # <<>>
  /\ depth' = depth - 1
  /\ idx' = last_idx[depth - 1]
  /\ onCard' = Front(onCard)
  /\ entered' = Front(entered)
  /\ files' \in Listing(Last(onCard'))
  /\ outdated' = (outdated \/ files' < Last(onCard'))
  /\ UNCHANGED <<last_idx, views>>

-----------------------------------------------------------------------------
(* The file menu.                                                          *)

OpenMenu ==
  /\ Browsing /\ idx < files
  /\ menu' = TRUE
  /\ UNCHANGED <<files, idx, browser, renaming>>

CloseMenu ==
  /\ menu /\ ~renaming
  /\ menu' = FALSE
  /\ UNCHANGED <<files, idx, browser, renaming>>

(* OK in the menu looks the selected file up first.                        *)
Choosing == menu /\ ~renaming /\ idx < files

(* The directory loses the selected file, or keeps it when the call fails. *)
FilesLeft == {Last(onCard)} \union (IF Last(onCard) > 0 THEN {Last(onCard) - 1} ELSE {})

SetOnCard(n) == onCard' = Append(Front(onCard), n)

(* archive_add_to_favourites moves the file, and the list is not renewed.  *)
(* The favourites may be a directory of the path, which gains the file.    *)
Pin ==
  /\ Choosing
  /\ \/ UNCHANGED <<onCard, outdated>>
     \/ /\ Last(onCard) > 0
        /\ outdated' = TRUE
        /\ \/ SetOnCard(Last(onCard) - 1)
           \/ \E d \in 1..(Len(onCard) - 1) :
                /\ onCard[d] < MaxFiles
                /\ onCard' = [onCard EXCEPT ![d] = @ + 1, ![Len(onCard)] = @ - 1]
  /\ menu' = FALSE
  /\ UNCHANGED <<files, idx, last_idx, depth, entered, renaming>>

BeginRename ==
  /\ Choosing
  /\ renaming' = TRUE
  /\ UNCHANGED <<files, idx, browser, menu>>

(* Back in the text input leaves everything as it is.  Otherwise           *)
(* archive_text_input_callback renames and lists again, without a look at  *)
(* the index: a new name without the tab's extension takes the file out of *)
(* the list.  The menu stays open.                                         *)
EndRename ==
  /\ renaming
  /\ renaming' = FALSE
  /\ \/ UNCHANGED <<files, onCard, outdated>>
     \/ \E n \in FilesLeft :
          /\ SetOnCard(n) /\ files' \in Listing(n)
          /\ outdated' = (outdated \/ files' < files)
  /\ UNCHANGED <<idx, last_idx, depth, entered, menu>>

Delete ==
  /\ Choosing
  /\ \E n \in FilesLeft : SetOnCard(n) /\ files' \in Listing(n)
  /\ idx' = Clamp(idx, files')
  /\ menu' = FALSE
  /\ UNCHANGED <<last_idx, depth, entered, renaming, outdated>>

FileMenu == OpenMenu \/ CloseMenu \/ Pin \/ BeginRename \/ EndRename \/ Delete

ArchiveNext == Down \/ Up \/ SwitchTab \/ EnterDir \/ LeaveDir \/ FileMenu

ArchiveSpec == ArchiveInit /\ [][ArchiveNext]_archiveVars

-----------------------------------------------------------------------------
(* OK and the drawing of the menu take files_array_get(files, idx): when   *)
(* there is a list or a menu, the selected file is in it.  Two things in   *)
(* the code put an end to that, and are excepted here: a path longer than  *)
(* last_idx, and a list that outlives its files or comes back in part.     *)
SelectedExists ==
  ~outdated /\ depth = Len(entered) => (files > 0 \/ menu => idx < files)

(* Leaving a directory selects it again in the one above, whatever was     *)
(* pinned, renamed or deleted meanwhile, unless the path of this tab has   *)
(* been longer than last_idx.                                              *)
BackReturns == [][LeaveDir /\ depth = Len(entered) => idx' = Last(entered)]_archiveVars
=============================================================================
