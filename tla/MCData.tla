------------------------------- MODULE MCData -------------------------------
(***************************************************************************)
(* The components of which only safety is asked: the application loader,   *)
(* the file table of the SD card, the infrared decoders, the archive's     *)
(* browser and the lists of the GUI.  They share no state here.  A         *)
(* behaviour is one of one component, chosen at the start, and the others  *)
(* stay where they begin.                                                  *)
(***************************************************************************)
EXTENDS MCAppLoader, SdFiles, IrdaDecoder, Archive, Lists

VARIABLE component

DataInit ==
  /\ component \in {"loader", "files", "irda", "archive", "lists"}
  /\ LoaderInit
  /\ FilesInit /\ (component # "files" => card)
  /\ IrdaInit
  /\ ArchiveInit /\ (component # "archive" => onCard = <<0>>)
  /\ ListsInit /\ (component # "lists" => file_count = 0 /\ item_count = 1)

LoaderOnly ==
  /\ component = "loader" /\ LoaderNext
  /\ UNCHANGED <<filesVars, irdaVars, archiveVars, listsVars>>

FilesOnly ==
  /\ component = "files" /\ FilesNext
  /\ UNCHANGED <<loaderVars, irdaVars, archiveVars, listsVars>>

IrdaOnly ==
  /\ component = "irda" /\ IrdaNext
  /\ UNCHANGED <<loaderVars, filesVars, archiveVars, listsVars>>

ArchiveOnly ==
  /\ component = "archive" /\ ArchiveNext
  /\ UNCHANGED <<loaderVars, filesVars, irdaVars, listsVars>>

ListsOnly ==
  /\ component = "lists" /\ ListsNext
  /\ UNCHANGED <<loaderVars, filesVars, irdaVars, archiveVars>>

DataNext ==
  /\ UNCHANGED component
  /\ LoaderOnly \/ FilesOnly \/ IrdaOnly \/ ArchiveOnly \/ ListsOnly

dataVars == <<component, loaderVars, filesVars, irdaVars, archiveVars, listsVars>>

DataSpec == DataInit /\ [][DataNext]_dataVars

(* Every variable keeps its type, and with it timings[6] of a decoder and  *)
(* the bytes of the lists their bounds; the depth of the browser may be    *)
(* one too many for last_idx, whose write past the end is in the model.    *)
(* The types of the loader are proved with the rest of its module.         *)
DataTypeOK == FilesTypeOK /\ IrdaTypeOK /\ ArchiveTypeOK /\ ListsTypeOK
=============================================================================
