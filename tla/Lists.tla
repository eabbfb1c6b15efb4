-------------------------------- MODULE Lists --------------------------------
(***************************************************************************)
(* The two lists of applications/gui/modules: file_select.c keeps the row  *)
(* of the selected file and the number of the file in the first row;       *)
(* submenu.c keeps the selected item and the item in the first row.  Both  *)
(* show four rows.  A key moves either of the two numbers, whichever keeps *)
(* a neighbour in sight.  A file list may be empty: Up then stores -1 in   *)
(* the unsigned byte of the row, and OK would read filename[255].  The     *)
(* directory is taken to stay as it was when its files were counted.       *)
(***************************************************************************)
EXTENDS Integers

CONSTANTS FILENAME_COUNT, \* the rows of both lists: 4 in the code
          MaxLength        \* bound on the length of a list

ASSUME ListsAssumption ==
  /\ FILENAME_COUNT \in 2..256
  /\ MaxLength \in Nat \ {0}

VARIABLES
  file_count, position, first_file_index, \* FileSelectModel
  item_count, item, window_position       \* SubmenuModel; item is its position

fileList == <<file_count, position, first_file_index>>
submenu == <<item_count, item, window_position>>
listsVars == <<fileList, submenu>>

ListsTypeOK ==
  /\ file_count \in 0..MaxLength /\ item_count \in 1..MaxLength
  /\ position \in 0..255
  /\ {first_file_index, item, window_position} \subseteq 0..MaxLength

Smaller(a, b) == IF a < b THEN a ELSE b

(* MAX_0(count - 4): the first row when the last item is in the last one.  *)
LastFirst(count) == IF count > FILENAME_COUNT THEN count - FILENAME_COUNT ELSE 0
LastRow(count) == Smaller(FILENAME_COUNT - 1, count - 1)

(* submenu_set_selected_item.                                              *)
BadWindowFor(i, count) == IF i = 0 \/ count <= FILENAME_COUNT THEN 0 ELSE i - 1
WindowFor(i, count) == Smaller(IF i = 0 THEN 0 ELSE i - 1, LastFirst(count))

(* A file list begins at its first file, or at the one that                *)
(* file_select_set_selected_file finds; the submenu of a scene at the item *)
(* that was selected last.                                                 *)
ListsInit ==
  /\ \/ file_count = 0 /\ position = 0 /\ first_file_index = 0
     \/ /\ file_count \in 1..MaxLength
        /\ \E file \in 0..(file_count - 1) :
             /\ first_file_index = WindowFor(file, file_count)
             /\ position = file - WindowFor(file, file_count)
  /\ item_count \in 1..MaxLength /\ item \in 0..(item_count - 1)
  /\ window_position = WindowFor(item, item_count)

-----------------------------------------------------------------------------
FileUp ==
  /\ \/ /\ position = 0 /\ first_file_index = 0
        /\ position' = LastRow(file_count) % 256
        /\ first_file_index' = LastFirst(file_count)
     \/ /\ position \in {0, 1} /\ first_file_index > 0
        /\ first_file_index' = first_file_index - 1
        /\ UNCHANGED position
     \/ /\ position > 1 \/ (position = 1 /\ first_file_index = 0)
        /\ position' = position - 1
        /\ UNCHANGED first_file_index
  /\ UNCHANGED <<file_count, submenu>>

BadFileDown == \* the last row but one is not kept for the next file
  /\ \/ /\ position >= LastRow(file_count)
        /\ position' = 0 /\ first_file_index' = 0
     \/ /\ position < LastRow(file_count)
        /\ position' = position + 1
        /\ UNCHANGED first_file_index
  /\ UNCHANGED <<file_count, submenu>>

FileDown ==
  LET atEnd == first_file_index >= LastFirst(file_count)
      atLastRow == position >= LastRow(file_count)
  IN
  /\ \/ /\ atLastRow /\ atEnd
        /\ position' = 0 /\ first_file_index' = 0
     \/ /\ atLastRow \/ position >= FILENAME_COUNT - 2
        /\ ~atEnd
        /\ first_file_index' = first_file_index + 1
        /\ UNCHANGED position
     \/ /\ ~atLastRow
        /\ position >= FILENAME_COUNT - 2 => atEnd
        /\ position' = position + 1
        /\ UNCHANGED first_file_index
  /\ UNCHANGED <<file_count, submenu>>

(* submenu_process_up, submenu_process_down.                               *)
ItemUp ==
  /\ IF item > 0
     THEN /\ item' = item - 1
          /\ window_position' = IF item - 1 <= window_position /\ window_position > 0
                                THEN window_position - 1 ELSE window_position
     ELSE /\ item' = item_count - 1
          /\ window_position' = IF item_count > FILENAME_COUNT
                                THEN item_count - FILENAME_COUNT ELSE window_position
  /\ UNCHANGED <<item_count, fileList>>

ItemDown ==
  /\ IF item < item_count - 1
     THEN /\ item' = item + 1
          /\ window_position' =
               IF /\ item + 1 > window_position + FILENAME_COUNT - 2
                  /\ window_position + FILENAME_COUNT < item_count
               THEN window_position + 1 ELSE window_position
     ELSE item' = 0 /\ window_position' = 0
  /\ UNCHANGED <<item_count, fileList>>

ListsNext == FileUp \/ FileDown \/ ItemUp \/ ItemDown

ListsSpec == ListsInit /\ [][ListsNext]_listsVars

-----------------------------------------------------------------------------
FileRing == INSTANCE Ring WITH
  size <- file_count, at <- IF file_count = 0 THEN 0 ELSE first_file_index + position
ItemRing == INSTANCE Ring WITH size <- item_count, at <- item

(* The selected entry of a list that has one is among the rows on the      *)
(* screen, and no row below the end of the list is shown while entries     *)
(* above are hidden: there OK takes filename[position] of a file it shows. *)
(* Of the row in an empty list of files nothing is said: Up takes it out   *)
(* of the array.                                                           *)
SelectionShown ==
  /\ file_count > 0 =>
       position <= LastRow(file_count) /\ first_file_index <= LastFirst(file_count)
  /\ window_position <= item /\ item < window_position + FILENAME_COUNT
  /\ item < item_count /\ window_position <= LastFirst(item_count)

(* Whichever of the two numbers a key moves, the selection goes round the  *)
(* list one by one: both lists implement Ring.                             *)
ImplementsRing == FileRing!RingSpec /\ ItemRing!RingSpec
=============================================================================
