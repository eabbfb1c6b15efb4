------------------------------- MODULE SdFiles -------------------------------
(***************************************************************************)
(* The file table of applications/sd-filesystem: the file calls of         *)
(* sd-filesystem-api.c, made by any thread, against the mounting,          *)
(* unmounting and formatting of sd-filesystem.c.  The table's mutex covers *)
(* the search for a slot and the check of a handle, but not the FatFs call *)
(* between them: that one works on a pointer taken before the unlock.      *)
(*                                                                         *)
(* A directory is opened, read and closed by the same code with another    *)
(* type tag; a thread is given one File, on which it makes one call at a   *)
(* time.  The path, the data and the error number are not modelled.        *)
(* Nothing keeps a card from being mounted anew while a call is between its *)
(* unlock and its return: remounted remembers that one was, over a call    *)
(* whose slot had been taken from it.                                      *)
(***************************************************************************)
EXTENDS Naturals

CONSTANTS Threads, NoThread,
          SD_FS_MAX_FILES, \* SD_FS_MAX_FILES, which is _FS_LOCK: 2
          MaxTries  \* max_init_counts: 10

ASSUME SdFilesAssumption ==
  /\ NoThread \notin Threads
  /\ SD_FS_MAX_FILES \in Nat \ {0}
  /\ MaxTries \in Nat \ {0}

Slots == 0..(SD_FS_MAX_FILES - 1)

VARIABLES
  card,      \* the detect pin
  wanted,    \* sd_was_present: the loop waits for a card, not for its removal
  status,    \* info.status
  lock,      \* the holder of info.mutex over several steps: main, cli or none
  owner,     \* info.files[i].thread_id
  object,    \* the thread whose f_open made the FatFs object in slot i valid
  volume,    \* f_mount registered a file system object
  filePc,    \* where each thread is in a file call
  fileId,    \* file->file_id of the thread's File; SD_FS_MAX_FILES before its first open
  given,     \* the thread has opened its File and has not closed it yet
  mainPc,    \* where the service's thread is
  index,     \* the loop counter of app_sd_unmount_card
  tries,     \* the loop counter of app_sd_mount_card
  remounted  \* history: a volume was registered while a call lacked its slot

fileVars == <<filePc, fileId, given>>
filesVars == <<card, wanted, status, lock, owner, object, volume, fileVars, mainPc, index, tries, remounted>>

FilesTypeOK ==
  /\ card \in BOOLEAN /\ wanted \in BOOLEAN /\ volume \in BOOLEAN
  /\ status \in {"ok", "no_card", "error"}
  /\ lock \in {"none", "main", "cli"}
  /\ owner \in [Slots -> Threads \union {NoThread}]
  /\ object \in [Slots -> Threads \union {NoThread}]
  /\ filePc \in [Threads -> {"idle", "open", "use", "close", "free"}]
  /\ fileId \in [Threads -> 0..SD_FS_MAX_FILES]
  /\ given \in [Threads -> BOOLEAN]
  /\ mainPc \in {"loop", "mount", "unmount", "format"}
  /\ index \in 0..SD_FS_MAX_FILES
  /\ tries \in 0..MaxTries
  /\ remounted \in BOOLEAN

FilesInit ==
  /\ card \in BOOLEAN
  /\ wanted = TRUE
  /\ status = "no_card"
  /\ lock = "none"
  /\ owner = [s \in Slots |-> NoThread]
  /\ object = [s \in Slots |-> NoThread]
  /\ volume = FALSE
  /\ filePc = [t \in Threads |-> "idle"]
  /\ fileId = [t \in Threads |-> SD_FS_MAX_FILES]
  /\ given = [t \in Threads |-> FALSE]
  /\ mainPc = "loop"
  /\ index = 0
  /\ tries = 0
  /\ remounted = FALSE

-----------------------------------------------------------------------------
(* The calls of a client thread.                                           *)

NoObjects == [s \in Slots |-> NoThread]
FileGoto(t, location) == filePc' = [filePc EXCEPT ![t] = location]
ServiceStays == UNCHANGED <<card, wanted, status, lock, volume, mainPc, index, tries, remounted>>

(* fs_file_open takes the first slot nobody owns, whatever the status is,  *)
(* and answers SD_TOO_MANY_OPEN_FILES when there is none; file_id then     *)
(* keeps what it was.                                                      *)
ClaimSlot(t) ==
  /\ filePc[t] = "idle" /\ ~given[t]
  /\ lock = "none"
  /\ \E s \in Slots :
       /\ owner[s] = NoThread
       /\ \A r \in 0..(s - 1) : owner[r] # NoThread
       /\ owner' = [owner EXCEPT ![s] = t]
       /\ object' = [object EXCEPT ![s] = NoThread]
       /\ fileId' = [fileId EXCEPT ![t] = s]
       /\ given' = [given EXCEPT ![t] = TRUE]
  /\ FileGoto(t, "open")
  /\ ServiceStays

(* f_open, after the unlock: it can succeed on a registered volume with a  *)
(* card.  A failure keeps the slot.                                        *)
OpenObject(t) ==
  /\ filePc[t] = "open"
  /\ \E opens \in {FALSE, volume /\ card} :
       object' = [object EXCEPT ![fileId[t]] = IF opens THEN t ELSE NoThread]
  /\ FileGoto(t, "idle")
  /\ UNCHANGED <<owner, fileId, given>>
  /\ ServiceStays

(* _get_filedata.                                                          *)
Valid(t) == status = "ok" /\ fileId[t] \in Slots /\ owner[fileId[t]] = t

(* fs_file_read and the other calls that take an open file; a client that  *)
(* had it refused, or whose open failed, may call all the same.            *)
CheckUse(t) ==
  /\ filePc[t] = "idle" /\ given[t]
  /\ lock = "none"
  /\ Valid(t)
  /\ FileGoto(t, "use")
  /\ UNCHANGED <<owner, object, fileId, given>>
  /\ ServiceStays

UseObject(t) ==
  /\ filePc[t] = "use"
  /\ FileGoto(t, "idle")
  /\ UNCHANGED <<owner, object, fileId, given>>
  /\ ServiceStays

(* fs_file_close: without a mounted card it is refused and the slot stays. *)
CheckClose(t) ==
  /\ filePc[t] = "idle" /\ given[t]
  /\ lock = "none"
  /\ given' = [given EXCEPT ![t] = FALSE]
  /\ FileGoto(t, IF Valid(t) THEN "close" ELSE "idle")
  /\ UNCHANGED <<owner, object, fileId>>
  /\ ServiceStays

(* f_close, then the slot is given back under the lock.                    *)
CloseObject(t) ==
  /\ filePc[t] = "close"
  /\ object' = [object EXCEPT ![fileId[t]] = NoThread]
  /\ FileGoto(t, "free")
  /\ UNCHANGED <<owner, fileId, given>>
  /\ ServiceStays

FreeSlot(t) ==
  /\ filePc[t] = "free"
  /\ lock = "none"
  /\ owner' = [owner EXCEPT ![fileId[t]] = NoThread]
  /\ FileGoto(t, "idle")
  /\ UNCHANGED <<object, fileId, given>>
  /\ ServiceStays

-----------------------------------------------------------------------------
(* The service's thread and the format of the CLI thread.                  *)

(* f_mount registers the volume and makes every object before it invalid;  *)
(* the threads that are inside of a call go on all the same.               *)
NoSlot(t) == filePc[t] # "idle" /\ owner[fileId[t]] # t
Register ==
  /\ volume' = TRUE
  /\ object' = NoObjects
  /\ remounted' = (remounted \/ \E t \in Threads : NoSlot(t))

InsertCard ==
  /\ ~card
  /\ card' = TRUE
  /\ UNCHANGED <<wanted, status, lock, owner, object, volume, fileVars, mainPc, index, tries, remounted>>

PullCard ==
  /\ card
  /\ card' = FALSE
  /\ UNCHANGED <<wanted, status, lock, owner, object, volume, fileVars, mainPc, index, tries, remounted>>

BeginMount ==
  /\ mainPc = "loop" /\ wanted /\ card /\ lock = "none"
  /\ lock' = "main"
  /\ tries' = MaxTries
  /\ mainPc' = "mount"
  /\ UNCHANGED <<card, wanted, status, owner, object, volume, fileVars, index, remounted>>

(* One pass of the loop of app_sd_mount_card.  Without an error of the     *)
(* driver the volume is registered, whatever f_mount answers.  A card      *)
(* without a file system ends the loop as well.                            *)
MountTry ==
  /\ mainPc = "mount" /\ tries > 0 /\ card
  /\ \/ /\ status' = "error"                       \* BSP_SD_Init fails
        /\ tries' = tries - 1
        /\ UNCHANGED <<object, volume, remounted>>
     \/ /\ status' \in {"ok", "error"}
        /\ tries' \in (IF status' = "ok" THEN {0} ELSE {0, tries - 1})
        /\ Register
  /\ UNCHANGED <<card, wanted, lock, owner, fileVars, mainPc, index>>

(* The end of the mount: a card that has gone meanwhile is unmounted.      *)
EndMount ==
  /\ mainPc = "mount" /\ (tries = 0 \/ ~card)
  /\ lock' = "none"
  /\ wanted' = FALSE
  /\ mainPc' = "loop"
  /\ tries' = 0
  /\ UNCHANGED <<card, status, owner, object, volume, fileVars, index, remounted>>

(* app_sd_unmount_card, when the card has gone or the user ejects it.      *)
BeginUnmount ==
  /\ mainPc = "loop" /\ lock = "none"
  /\ \/ ~wanted /\ ~card /\ wanted' = TRUE
     \/ UNCHANGED wanted \* SdAppStateEject
  /\ lock' = "main"
  /\ status' = "no_card"
  /\ index' = 0
  /\ mainPc' = "unmount"
  /\ UNCHANGED <<card, owner, object, volume, fileVars, tries, remounted>>

UnmountClose ==
  /\ mainPc = "unmount" /\ index < SD_FS_MAX_FILES
  /\ IF owner[index] # NoThread
     THEN /\ object' = [object EXCEPT ![index] = NoThread]
          /\ owner' = [owner EXCEPT ![index] = NoThread]
     ELSE UNCHANGED <<object, owner>>
  /\ index' = index + 1
  /\ UNCHANGED <<card, wanted, status, lock, volume, fileVars, mainPc, tries, remounted>>

BadUnmountVolume == \* f_mount(0, ...) is forgotten
  /\ mainPc = "unmount" /\ index = SD_FS_MAX_FILES
  /\ lock' = "none"
  /\ mainPc' = "loop"
  /\ UNCHANGED <<card, wanted, status, owner, object, volume, fileVars, index, tries, remounted>>

UnmountVolume ==
  /\ mainPc = "unmount" /\ index = SD_FS_MAX_FILES
  /\ volume' = FALSE
  /\ object' = NoObjects
  /\ lock' = "none"
  /\ mainPc' = "loop"
  /\ UNCHANGED <<card, wanted, status, owner, fileVars, index, tries, remounted>>

(* app_sd_format_internal, on the service's or on the CLI's thread.        *)
FormatWithoutMemory(who) ==
  /\ who = "main" => mainPc = "loop"
  /\ lock = "none"
  /\ status' = "error"
  /\ UNCHANGED <<card, wanted, lock, owner, object, volume, fileVars, mainPc, index, tries, remounted>>

(* f_mkfs makes every object invalid; on success the new volume is mounted. *)
BeginFormat(who) ==
  /\ who = "main" => mainPc = "loop"
  /\ lock = "none"
  /\ lock' = who
  /\ mainPc' = IF who = "main" THEN "format" ELSE mainPc
  /\ object' = NoObjects
  /\ UNCHANGED <<card, wanted, status, owner, volume, fileVars, index, tries, remounted>>

EndFormat(who) ==
  /\ lock = who
  /\ who = "main" => mainPc = "format"
  /\ lock' = "none"
  /\ mainPc' = IF who = "main" THEN "loop" ELSE mainPc
  /\ \/ status' = "error" /\ UNCHANGED <<volume, object, remounted>>
     \/ card /\ status' \in {"ok", "error"} /\ Register
  /\ UNCHANGED <<card, wanted, owner, fileVars, index, tries>>

FileCall(t) ==
  \/ ClaimSlot(t) \/ OpenObject(t) \/ CheckUse(t) \/ UseObject(t)
  \/ CheckClose(t) \/ CloseObject(t) \/ FreeSlot(t)

CardService ==
  \/ InsertCard \/ PullCard
  \/ BeginMount \/ MountTry \/ EndMount
  \/ BeginUnmount \/ UnmountClose \/ UnmountVolume
  \/ \E who \in {"main", "cli"} : FormatWithoutMemory(who) \/ BeginFormat(who) \/ EndFormat(who)

FilesNext == (\E t \in Threads : FileCall(t)) \/ CardService

FilesSpec == FilesInit /\ [][FilesNext]_filesVars

-----------------------------------------------------------------------------
(* A call that has passed _get_filedata works, after the unlock, on the    *)
(* caller's own object or on an invalid one that FatFs refuses: never on   *)
(* what another thread opened in the slot since.                           *)
OwnObject ==
  \A t \in Threads : filePc[t] \in {"open", "use", "close"} => object[fileId[t]] \in {t, NoThread}

(* Outside an unmount a valid FatFs object stands in a slot that its       *)
(* opener owns, so that the opener and nobody else can close it.           *)
ObjectHasOwner ==
  mainPc # "unmount" =>
    \A s \in Slots : object[s] # NoThread => owner[s] = object[s]

(* Handing a slot on, whether by a close, an unmount or a format, does not *)
(* hand on the file in it, until a card is mounted or formatted while a    *)
(* call whose slot was taken from it has not returned yet: after that the  *)
(* late call may reach, and close, another thread's file.                  *)
FilesStayApart == ~remounted => OwnObject /\ ObjectHasOwner

(* "The value defines how many files/sub-directories can be opened         *)
(* simultaneously": when no thread has a File left to close there is a     *)
(* slot to open one in.                                                    *)
SlotsComeBack ==
  (\A t \in Threads : filePc[t] = "idle" /\ ~given[t]) =>
    \E s \in Slots : owner[s] = NoThread
=============================================================================
