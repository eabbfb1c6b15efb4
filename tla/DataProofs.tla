------------------------------ MODULE DataProofs ------------------------------
(***************************************************************************)
(* Proofs about the components of MCData but the loader, whose theorems    *)
(* are in ThreadsProofs, and about their sum.                              *)
(*   SdFiles, for any number of threads and slots: the FatFs calls that    *)
(*   are made after the unlock never reach a file that another thread      *)
(*   opened in the same slot.                                              *)
(*   Lists, for every number of rows and every length: the selected entry  *)
(*   is always on the screen, and both lists implement Ring.               *)
(*   Archive, for directories of any size: when the selected file exists,  *)
(*   and that leaving a directory selects it again.                        *)
(*   The sum, with the theorems of IrdaProofs about IrdaDecoder.           *)
(***************************************************************************)
EXTENDS MCData, IrdaProofs, SequenceTheorems

-----------------------------------------------------------------------------
(* SdFiles: the parts of the inductive invariant the runs do not name.     *)

Busy(t) == filePc[t] # "idle"

(* The service's thread has the mutex whenever it is in one of its three   *)
(* operations; a call under way has a slot number.                         *)
LockDiscipline ==
  /\ mainPc # "loop" <=> lock = "main"
  /\ mainPc = "unmount" => status = "no_card"
  /\ \A t \in Threads : Busy(t) => fileId[t] \in Slots

ClosedIsGone == \A t \in Threads : filePc[t] = "free" => object[fileId[t]] # t

NoVolumeNoObject == ~volume => \A s \in Slots : object[s] = NoThread

(* What a volume registered over a call without its slot puts an end to: a *)
(* call loses its slot only to an unmount, and then there is no volume     *)
(* until it is over; two calls are never in one slot of a volume.          *)
OwnsSlot == \A t \in Threads : NoSlot(t) => mainPc = "unmount" \/ ~volume

SlotsApart ==
  volume => \A t, u \in Threads : t # u /\ Busy(t) /\ Busy(u) => fileId[t] # fileId[u]

FilesApart == OwnsSlot /\ SlotsApart /\ OwnObject /\ ObjectHasOwner

FilesIInv ==
  /\ FilesTypeOK /\ LockDiscipline /\ ClosedIsGone /\ NoVolumeNoObject
  /\ ~remounted => FilesApart

-----------------------------------------------------------------------------

(* fs_file_open under the mutex takes a slot nobody owns and makes its object *)
(* invalid.                                                                *)
LEMMA ClaimSlotStep ==
  ASSUME FilesIInv, NEW t \in Threads, ClaimSlot(t)
  PROVE  FilesIInv'
<1> USE DEF ClaimSlot, FileGoto, ServiceStays, FilesTypeOK, Slots, Busy, NoSlot
<1>a. /\ FilesTypeOK /\ LockDiscipline /\ ClosedIsGone /\ NoVolumeNoObject
      /\ ~remounted => OwnsSlot /\ SlotsApart /\ OwnObject /\ ObjectHasOwner
  BY DEF FilesIInv, FilesApart
<1>1. FilesTypeOK'
  BY <1>a, SdFilesAssumption
<1>2. LockDiscipline'
  BY <1>a, SdFilesAssumption DEF LockDiscipline
<1>3. ~remounted' => OwnsSlot'
  BY <1>a, SdFilesAssumption DEF OwnsSlot
<1>5. ClosedIsGone'
  BY <1>a, SdFilesAssumption DEF ClosedIsGone
<1>6. NoVolumeNoObject'
  BY <1>a, SdFilesAssumption DEF NoVolumeNoObject
<1>7. ~remounted' => SlotsApart'
  BY <1>a, SdFilesAssumption DEF SlotsApart, OwnsSlot, LockDiscipline
<1>8. ~remounted' => OwnObject'
  BY <1>a, SdFilesAssumption DEF OwnObject, LockDiscipline
<1>9. ~remounted' => ObjectHasOwner'
  BY <1>a, SdFilesAssumption DEF ObjectHasOwner
<1>10. QED
  BY <1>1, <1>2, <1>3, <1>5, <1>6, <1>7, <1>8, <1>9 DEF FilesIInv, FilesApart

(* f_open, after the unlock.  An object becomes valid only on a volume, and *)
(* then the slot is still the caller's and nobody else's.                  *)
LEMMA OpenObjectStep ==
  ASSUME FilesIInv, NEW t \in Threads, OpenObject(t)
  PROVE  FilesIInv'
<1> USE DEF OpenObject, FileGoto, ServiceStays, FilesTypeOK, Slots, Busy, NoSlot
<1>a. /\ FilesTypeOK /\ LockDiscipline /\ ClosedIsGone /\ NoVolumeNoObject
      /\ ~remounted => OwnsSlot /\ SlotsApart /\ OwnObject /\ ObjectHasOwner
  BY DEF FilesIInv, FilesApart
<1>1. FilesTypeOK'
  BY ZenonT(60), <1>a, SdFilesAssumption
<1>2. LockDiscipline'
  BY <1>a, SdFilesAssumption DEF LockDiscipline
<1>3. ~remounted' => OwnsSlot'
  BY <1>a, SdFilesAssumption DEF OwnsSlot
<1>5. ClosedIsGone'
  BY <1>a, SdFilesAssumption DEF ClosedIsGone
<1>6. NoVolumeNoObject'
  BY <1>a, SdFilesAssumption DEF NoVolumeNoObject, LockDiscipline
<1>7. ~remounted' => SlotsApart'
  BY <1>a, SdFilesAssumption DEF SlotsApart
<1>8. ~remounted' => OwnObject'
  <2> SUFFICES ASSUME ~remounted', NEW u \in Threads, filePc'[u] \in {"open", "use", "close"}
               PROVE  object'[fileId[u]] \in {u, NoThread}
    BY DEF OwnObject
  <2>a. OwnObject /\ SlotsApart
    BY <1>a
  <2>1. u # t /\ Busy(u) /\ Busy(t) /\ {fileId[u], fileId[t]} \subseteq Slots
    BY <1>a DEF LockDiscipline
  <2>2. CASE object' = [object EXCEPT ![fileId[t]] = NoThread]
    BY <1>a, <2>1, <2>2 DEF OwnObject
  <2>3. CASE volume /\ object' = [object EXCEPT ![fileId[t]] = t]
    BY <1>a, <2>1, <2>3 DEF OwnObject, SlotsApart
  <2>4. QED
    BY <2>2, <2>3
<1>9. ~remounted' => ObjectHasOwner'
  BY <1>a, SdFilesAssumption DEF ObjectHasOwner, OwnsSlot, LockDiscipline
<1>10. QED
  BY <1>1, <1>2, <1>3, <1>5, <1>6, <1>7, <1>8, <1>9 DEF FilesIInv, FilesApart

(* The check of the handle before a read, a write or a seek.               *)
LEMMA CheckUseStep ==
  ASSUME FilesIInv, NEW t \in Threads, CheckUse(t)
  PROVE  FilesIInv'
<1> USE DEF CheckUse, FileGoto, ServiceStays, Valid, FilesTypeOK, Slots, Busy, NoSlot
<1>a. /\ FilesTypeOK /\ LockDiscipline /\ ClosedIsGone /\ NoVolumeNoObject
      /\ ~remounted => OwnsSlot /\ SlotsApart /\ OwnObject /\ ObjectHasOwner
  BY DEF FilesIInv, FilesApart
<1>1. FilesTypeOK'
  BY <1>a, SdFilesAssumption
<1>2. LockDiscipline'
  BY <1>a, SdFilesAssumption DEF LockDiscipline
<1>3. ~remounted' => OwnsSlot'
  BY <1>a, SdFilesAssumption DEF OwnsSlot
<1>5. ClosedIsGone'
  BY <1>a, SdFilesAssumption DEF ClosedIsGone
<1>6. ~remounted' => SlotsApart'
  BY <1>a, SdFilesAssumption DEF SlotsApart, OwnsSlot, LockDiscipline
<1>7. ~remounted' => OwnObject'
  BY <1>a, SdFilesAssumption DEF OwnObject, ObjectHasOwner, LockDiscipline
<1>8. NoVolumeNoObject' /\ (~remounted' => ObjectHasOwner')
  BY <1>a DEF NoVolumeNoObject, ObjectHasOwner
<1>9. QED
  BY <1>1, <1>2, <1>3, <1>5, <1>6, <1>7, <1>8 DEF FilesIInv, FilesApart

(* The FatFs call behind it.                                               *)
LEMMA UseObjectStep ==
  ASSUME FilesIInv, NEW t \in Threads, UseObject(t)
  PROVE  FilesIInv'
<1> USE DEF UseObject, FileGoto, ServiceStays, FilesTypeOK, Slots, Busy, NoSlot
<1>a. /\ FilesTypeOK /\ LockDiscipline /\ ClosedIsGone /\ NoVolumeNoObject
      /\ ~remounted => OwnsSlot /\ SlotsApart /\ OwnObject /\ ObjectHasOwner
  BY DEF FilesIInv, FilesApart
<1>1. FilesTypeOK'
  BY <1>a, SdFilesAssumption
<1>2. LockDiscipline'
  BY <1>a, SdFilesAssumption DEF LockDiscipline
<1>3. ~remounted' => OwnsSlot'
  BY <1>a, SdFilesAssumption DEF OwnsSlot
<1>5. ClosedIsGone'
  BY <1>a, SdFilesAssumption DEF ClosedIsGone
<1>6. ~remounted' => SlotsApart'
  BY <1>a, SdFilesAssumption DEF SlotsApart
<1>7. ~remounted' => OwnObject'
  BY <1>a, SdFilesAssumption DEF OwnObject
<1>8. NoVolumeNoObject' /\ (~remounted' => ObjectHasOwner')
  BY <1>a DEF NoVolumeNoObject, ObjectHasOwner
<1>9. QED
  BY <1>1, <1>2, <1>3, <1>5, <1>6, <1>7, <1>8 DEF FilesIInv, FilesApart

(* The check of the handle before a close.                                 *)
LEMMA CheckCloseStep ==
  ASSUME FilesIInv, NEW t \in Threads, CheckClose(t)
  PROVE  FilesIInv'
<1> USE DEF CheckClose, FileGoto, ServiceStays, Valid, FilesTypeOK, Slots, Busy, NoSlot
<1>a. /\ FilesTypeOK /\ LockDiscipline /\ ClosedIsGone /\ NoVolumeNoObject
      /\ ~remounted => OwnsSlot /\ SlotsApart /\ OwnObject /\ ObjectHasOwner
  BY DEF FilesIInv, FilesApart
<1>1. FilesTypeOK'
  BY <1>a, SdFilesAssumption
<1>2. LockDiscipline'
  BY <1>a, SdFilesAssumption DEF LockDiscipline
<1>3. ~remounted' => OwnsSlot'
  BY <1>a, SdFilesAssumption DEF OwnsSlot
<1>5. ClosedIsGone'
  BY <1>a, SdFilesAssumption DEF ClosedIsGone
<1>6. ~remounted' => SlotsApart'
  BY <1>a, SdFilesAssumption DEF SlotsApart, OwnsSlot, LockDiscipline
<1>7. ~remounted' => OwnObject'
  BY <1>a, SdFilesAssumption DEF OwnObject, ObjectHasOwner, LockDiscipline
<1>8. NoVolumeNoObject' /\ (~remounted' => ObjectHasOwner')
  BY <1>a DEF NoVolumeNoObject, ObjectHasOwner
<1>9. QED
  BY <1>1, <1>2, <1>3, <1>5, <1>6, <1>7, <1>8 DEF FilesIInv, FilesApart

(* f_close.                                                                *)
LEMMA CloseObjectStep ==
  ASSUME FilesIInv, NEW t \in Threads, CloseObject(t)
  PROVE  FilesIInv'
<1> USE DEF CloseObject, FileGoto, ServiceStays, FilesTypeOK, Slots, Busy, NoSlot
<1>a. /\ FilesTypeOK /\ LockDiscipline /\ ClosedIsGone /\ NoVolumeNoObject
      /\ ~remounted => OwnsSlot /\ SlotsApart /\ OwnObject /\ ObjectHasOwner
  BY DEF FilesIInv, FilesApart
<1>1. FilesTypeOK'
  BY <1>a, SdFilesAssumption
<1>2. LockDiscipline'
  BY <1>a, SdFilesAssumption DEF LockDiscipline
<1>3. ~remounted' => OwnsSlot'
  BY <1>a, SdFilesAssumption DEF OwnsSlot
<1>5. ClosedIsGone'
  BY <1>a, SdFilesAssumption DEF ClosedIsGone, LockDiscipline
<1>6. NoVolumeNoObject'
  BY <1>a, SdFilesAssumption DEF NoVolumeNoObject
<1>7. ~remounted' => SlotsApart'
  BY <1>a, SdFilesAssumption DEF SlotsApart
<1>8. ~remounted' => OwnObject'
  BY <1>a, SdFilesAssumption DEF OwnObject, LockDiscipline
<1>9. ~remounted' => ObjectHasOwner'
  BY <1>a, SdFilesAssumption DEF ObjectHasOwner
<1>10. QED
  BY <1>1, <1>2, <1>3, <1>5, <1>6, <1>7, <1>8, <1>9 DEF FilesIInv, FilesApart

(* The slot is given back.  Should it be another thread's by now there is no *)
(* volume, and no object in it.                                            *)
LEMMA FreeSlotStep ==
  ASSUME FilesIInv, NEW t \in Threads, FreeSlot(t)
  PROVE  FilesIInv'
<1> USE DEF FreeSlot, FileGoto, ServiceStays, FilesTypeOK, Slots, Busy, NoSlot
<1>a. /\ FilesTypeOK /\ LockDiscipline /\ ClosedIsGone /\ NoVolumeNoObject
      /\ ~remounted => OwnsSlot /\ SlotsApart /\ OwnObject /\ ObjectHasOwner
  BY DEF FilesIInv, FilesApart
<1>1. FilesTypeOK'
  BY <1>a, SdFilesAssumption
<1>2. LockDiscipline'
  BY <1>a, SdFilesAssumption DEF LockDiscipline
<1>3. ~remounted' => OwnsSlot'
  BY <1>a, SdFilesAssumption DEF OwnsSlot, SlotsApart, LockDiscipline
<1>5. ClosedIsGone'
  BY <1>a, SdFilesAssumption DEF ClosedIsGone
<1>6. ~remounted' => SlotsApart'
  BY <1>a, SdFilesAssumption DEF SlotsApart
<1>7. ~remounted' => OwnObject'
  BY <1>a, SdFilesAssumption DEF OwnObject
<1>8. ~remounted' => ObjectHasOwner'
  BY <1>a, SdFilesAssumption DEF ObjectHasOwner, OwnsSlot, ClosedIsGone,
     NoVolumeNoObject, LockDiscipline
<1>9. NoVolumeNoObject'
  BY <1>a DEF NoVolumeNoObject
<1>10. QED
  BY <1>1, <1>2, <1>3, <1>5, <1>6, <1>7, <1>8, <1>9 DEF FilesIInv, FilesApart

(* A card that comes or goes changes nothing until the service sees it.    *)
LEMMA CardStep ==
  ASSUME FilesIInv, InsertCard \/ PullCard
  PROVE  FilesIInv'
<1>1. UNCHANGED <<wanted, status, lock, owner, object, volume, fileVars, mainPc, index, tries, remounted>>
      /\ card' \in BOOLEAN
  BY DEF InsertCard, PullCard
<1>2. QED
  BY <1>1 DEF fileVars, FilesIInv, FilesTypeOK, LockDiscipline, ClosedIsGone, NoVolumeNoObject,
              FilesApart, OwnsSlot, NoSlot, SlotsApart, OwnObject, ObjectHasOwner, Busy

(* A mount begins, whatever calls are under way.                           *)
LEMMA BeginMountStep ==
  ASSUME FilesIInv, BeginMount
  PROVE  FilesIInv'
<1> USE DEF BeginMount, FilesTypeOK, Slots, Busy, NoSlot
<1>a. /\ FilesTypeOK /\ LockDiscipline /\ ClosedIsGone /\ NoVolumeNoObject
      /\ ~remounted => OwnsSlot /\ SlotsApart /\ OwnObject /\ ObjectHasOwner
  BY DEF FilesIInv, FilesApart
<1>b. UNCHANGED <<filePc, fileId, given>>
  BY DEF fileVars
<1>1. FilesTypeOK'
  BY <1>a, <1>b, SdFilesAssumption
<1>2. LockDiscipline'
  BY <1>a, <1>b, SdFilesAssumption DEF LockDiscipline
<1>3. ~remounted' => OwnsSlot'
  BY <1>a, <1>b, SdFilesAssumption DEF OwnsSlot
<1>5. ~remounted' => ObjectHasOwner'
  BY <1>a, <1>b, SdFilesAssumption DEF ObjectHasOwner
<1>6. ClosedIsGone' /\ NoVolumeNoObject' /\ (~remounted' => SlotsApart' /\ OwnObject')
  BY <1>a, <1>b DEF ClosedIsGone, NoVolumeNoObject, SlotsApart, OwnObject
<1>7. QED
  BY <1>1, <1>2, <1>3, <1>5, <1>6 DEF FilesIInv, FilesApart

(* BSP_SD_Init and f_mount: either no call lacks its slot when a volume is *)
(* registered, or that is remembered.                                      *)
LEMMA MountTryStep ==
  ASSUME FilesIInv, MountTry
  PROVE  FilesIInv'
<1> USE DEF MountTry, Register, NoObjects, FilesTypeOK, Slots, Busy, NoSlot
<1>a. /\ FilesTypeOK /\ LockDiscipline /\ ClosedIsGone /\ NoVolumeNoObject
      /\ ~remounted => OwnsSlot /\ SlotsApart /\ OwnObject /\ ObjectHasOwner
  BY DEF FilesIInv, FilesApart
<1>b. UNCHANGED <<filePc, fileId, given>>
  BY DEF fileVars
<1>1. FilesTypeOK'
  <2>1. /\ card' \in BOOLEAN /\ wanted' \in BOOLEAN /\ volume' \in BOOLEAN
        /\ lock' \in {"none", "main", "cli"}
        /\ mainPc' \in {"loop", "mount", "unmount", "format"}
    BY <1>a
  <2>2. status' \in {"ok", "no_card", "error"}
    BY <1>a
  <2>3. /\ owner' \in [Slots -> Threads \union {NoThread}]
        /\ object' \in [Slots -> Threads \union {NoThread}]
    BY <1>a
  <2>4. index' \in 0..SD_FS_MAX_FILES /\ tries' \in 0..MaxTries
    BY <1>a, SdFilesAssumption
  <2>5. QED
    BY <1>a, <1>b, <2>1, <2>2, <2>3, <2>4
<1>2. LockDiscipline'
  BY <1>a, <1>b, SdFilesAssumption DEF LockDiscipline
<1>3. ~remounted' => OwnsSlot'
  BY <1>a, <1>b, SdFilesAssumption DEF OwnsSlot, LockDiscipline
<1>5. ClosedIsGone'
  BY <1>a, <1>b, SdFilesAssumption DEF ClosedIsGone, LockDiscipline
<1>6. NoVolumeNoObject'
  BY <1>a, <1>b, SdFilesAssumption DEF NoVolumeNoObject
<1>7. ~remounted' => SlotsApart'
  <2>1. CASE UNCHANGED <<volume, remounted>>
    BY <1>a, <1>b, <2>1 DEF SlotsApart
  <2>2. CASE Register
    <3>1. ASSUME ~remounted', NEW t \in Threads, Busy(t)
          PROVE  owner[fileId[t]] = t
      BY <2>2, <3>1
    <3>2. QED
      BY <1>b, <3>1 DEF SlotsApart
  <2>3. QED
    BY <2>1, <2>2
<1>8. ~remounted' => OwnObject'
  BY <1>a, <1>b, SdFilesAssumption DEF OwnObject, LockDiscipline
<1>9. ~remounted' => ObjectHasOwner'
  BY <1>a, <1>b, SdFilesAssumption DEF ObjectHasOwner
<1>10. QED
  BY <1>1, <1>2, <1>3, <1>5, <1>6, <1>7, <1>8, <1>9 DEF FilesIInv, FilesApart

(* The end of the mount.                                                   *)
LEMMA EndMountStep ==
  ASSUME FilesIInv, EndMount
  PROVE  FilesIInv'
<1> USE DEF EndMount, FilesTypeOK, Slots, Busy, NoSlot
<1>a. /\ FilesTypeOK /\ LockDiscipline /\ ClosedIsGone /\ NoVolumeNoObject
      /\ ~remounted => OwnsSlot /\ SlotsApart /\ OwnObject /\ ObjectHasOwner
  BY DEF FilesIInv, FilesApart
<1>b. UNCHANGED <<filePc, fileId, given>>
  BY DEF fileVars
<1>1. FilesTypeOK'
  <2>1. /\ card' \in BOOLEAN /\ wanted' \in BOOLEAN /\ volume' \in BOOLEAN
        /\ lock' \in {"none", "main", "cli"}
        /\ mainPc' \in {"loop", "mount", "unmount", "format"}
    BY <1>a
  <2>2. status' \in {"ok", "no_card", "error"}
    BY <1>a
  <2>3. /\ owner' \in [Slots -> Threads \union {NoThread}]
        /\ object' \in [Slots -> Threads \union {NoThread}]
    BY <1>a
  <2>4. index' \in 0..SD_FS_MAX_FILES /\ tries' \in 0..MaxTries
    BY <1>a, SdFilesAssumption
  <2>5. QED
    BY <1>a, <1>b, <2>1, <2>2, <2>3, <2>4
<1>2. LockDiscipline'
  BY <1>a, <1>b, SdFilesAssumption DEF LockDiscipline
<1>3. ~remounted' => OwnsSlot'
  BY <1>a, <1>b, SdFilesAssumption DEF OwnsSlot, LockDiscipline
<1>5. ~remounted' => ObjectHasOwner'
  BY <1>a, <1>b, SdFilesAssumption DEF ObjectHasOwner, LockDiscipline
<1>6. ClosedIsGone' /\ NoVolumeNoObject' /\ (~remounted' => SlotsApart' /\ OwnObject')
  BY <1>a, <1>b DEF ClosedIsGone, NoVolumeNoObject, SlotsApart, OwnObject
<1>7. QED
  BY <1>1, <1>2, <1>3, <1>5, <1>6 DEF FilesIInv, FilesApart

(* An unmount begins under the mutex.                                      *)
LEMMA BeginUnmountStep ==
  ASSUME FilesIInv, BeginUnmount
  PROVE  FilesIInv'
<1> USE DEF BeginUnmount, FilesTypeOK, Slots, Busy, NoSlot
<1>a. /\ FilesTypeOK /\ LockDiscipline /\ ClosedIsGone /\ NoVolumeNoObject
      /\ ~remounted => OwnsSlot /\ SlotsApart /\ OwnObject /\ ObjectHasOwner
  BY DEF FilesIInv, FilesApart
<1>b. UNCHANGED <<filePc, fileId, given>>
  BY DEF fileVars
<1>1. FilesTypeOK'
  <2>1. /\ card' \in BOOLEAN /\ wanted' \in BOOLEAN /\ volume' \in BOOLEAN
        /\ lock' \in {"none", "main", "cli"}
        /\ mainPc' \in {"loop", "mount", "unmount", "format"}
    BY <1>a
  <2>2. status' \in {"ok", "no_card", "error"}
    BY <1>a
  <2>3. /\ owner' \in [Slots -> Threads \union {NoThread}]
        /\ object' \in [Slots -> Threads \union {NoThread}]
    BY <1>a
  <2>4. index' \in 0..SD_FS_MAX_FILES /\ tries' \in 0..MaxTries
    BY <1>a, SdFilesAssumption
  <2>5. QED
    BY <1>a, <1>b, <2>1, <2>2, <2>3, <2>4
<1>2. LockDiscipline'
  BY <1>a, <1>b, SdFilesAssumption DEF LockDiscipline
<1>3. ~remounted' => OwnsSlot'
  BY <1>a, <1>b, SdFilesAssumption DEF OwnsSlot
<1>5. ~remounted' => ObjectHasOwner'
  BY <1>a, <1>b, SdFilesAssumption DEF ObjectHasOwner
<1>6. ClosedIsGone' /\ NoVolumeNoObject' /\ (~remounted' => SlotsApart' /\ OwnObject')
  BY <1>a, <1>b DEF ClosedIsGone, NoVolumeNoObject, SlotsApart, OwnObject
<1>7. QED
  BY <1>1, <1>2, <1>3, <1>5, <1>6 DEF FilesIInv, FilesApart

(* One slot is closed and taken from its owner.                            *)
LEMMA UnmountCloseStep ==
  ASSUME FilesIInv, UnmountClose
  PROVE  FilesIInv'
<1> USE DEF UnmountClose, FilesTypeOK, Slots, Busy, NoSlot
<1>a. /\ FilesTypeOK /\ LockDiscipline /\ ClosedIsGone /\ NoVolumeNoObject
      /\ ~remounted => OwnsSlot /\ SlotsApart /\ OwnObject /\ ObjectHasOwner
  BY DEF FilesIInv, FilesApart
<1>b. UNCHANGED <<filePc, fileId, given>>
  BY DEF fileVars
<1>1. FilesTypeOK'
  <2>1. /\ card' \in BOOLEAN /\ wanted' \in BOOLEAN /\ volume' \in BOOLEAN
        /\ lock' \in {"none", "main", "cli"}
        /\ mainPc' \in {"loop", "mount", "unmount", "format"}
    BY <1>a
  <2>2. status' \in {"ok", "no_card", "error"}
    BY <1>a
  <2>3. /\ owner' \in [Slots -> Threads \union {NoThread}]
        /\ object' \in [Slots -> Threads \union {NoThread}]
    BY <1>a
  <2>4. index' \in 0..SD_FS_MAX_FILES /\ tries' \in 0..MaxTries
    BY <1>a, SdFilesAssumption
  <2>5. QED
    BY <1>a, <1>b, <2>1, <2>2, <2>3, <2>4
<1>2. ~remounted' => OwnsSlot'
  BY <1>a, <1>b, SdFilesAssumption DEF OwnsSlot, LockDiscipline
<1>3. ClosedIsGone'
  BY <1>a, <1>b, SdFilesAssumption DEF ClosedIsGone, LockDiscipline
<1>4. NoVolumeNoObject'
  BY <1>a, <1>b, SdFilesAssumption DEF NoVolumeNoObject
<1>5. ~remounted' => OwnObject'
  BY <1>a, <1>b, SdFilesAssumption DEF OwnObject, LockDiscipline
<1>6. ~remounted' => ObjectHasOwner'
  BY <1>a, <1>b, SdFilesAssumption DEF ObjectHasOwner
<1>7. LockDiscipline' /\ (~remounted' => SlotsApart')
  BY <1>a, <1>b DEF LockDiscipline, SlotsApart
<1>8. QED
  BY <1>1, <1>2, <1>3, <1>4, <1>5, <1>6, <1>7 DEF FilesIInv, FilesApart

(* The volume goes: the calls that lost their slots find no object.        *)
LEMMA UnmountVolumeStep ==
  ASSUME FilesIInv, UnmountVolume
  PROVE  FilesIInv'
<1> USE DEF UnmountVolume, NoObjects, FilesTypeOK, Slots, Busy, NoSlot
<1>a. /\ FilesTypeOK /\ LockDiscipline /\ ClosedIsGone /\ NoVolumeNoObject
      /\ ~remounted => OwnsSlot /\ SlotsApart /\ OwnObject /\ ObjectHasOwner
  BY DEF FilesIInv, FilesApart
<1>b. UNCHANGED <<filePc, fileId, given>>
  BY DEF fileVars
<1>1. FilesTypeOK'
  BY <1>a, <1>b, SdFilesAssumption
<1>2. LockDiscipline'
  BY <1>a, <1>b, SdFilesAssumption DEF LockDiscipline
<1>3. ~remounted' => OwnsSlot'
  BY <1>a, <1>b, SdFilesAssumption DEF OwnsSlot
<1>5. ClosedIsGone'
  BY <1>a, <1>b, SdFilesAssumption DEF ClosedIsGone, LockDiscipline
<1>6. NoVolumeNoObject'
  BY <1>a, <1>b, SdFilesAssumption DEF NoVolumeNoObject
<1>7. ~remounted' => SlotsApart'
  BY <1>a, <1>b, SdFilesAssumption DEF SlotsApart
<1>8. ~remounted' => OwnObject'
  BY <1>a, <1>b, SdFilesAssumption DEF OwnObject, LockDiscipline
<1>9. ~remounted' => ObjectHasOwner'
  BY <1>a, <1>b, SdFilesAssumption DEF ObjectHasOwner
<1>10. QED
  BY <1>1, <1>2, <1>3, <1>5, <1>6, <1>7, <1>8, <1>9 DEF FilesIInv, FilesApart

(* app_sd_format_internal finds no memory: only the status changes.        *)
LEMMA FormatWithoutMemoryStep ==
  ASSUME FilesIInv, NEW who \in {"main", "cli"}, FormatWithoutMemory(who)
  PROVE  FilesIInv'
<1> USE DEF FormatWithoutMemory, FilesTypeOK, Slots, Busy, NoSlot
<1>a. /\ FilesTypeOK /\ LockDiscipline /\ ClosedIsGone /\ NoVolumeNoObject
      /\ ~remounted => OwnsSlot /\ SlotsApart /\ OwnObject /\ ObjectHasOwner
  BY DEF FilesIInv, FilesApart
<1>b. UNCHANGED <<filePc, fileId, given>>
  BY DEF fileVars
<1>1. FilesTypeOK'
  BY <1>a, <1>b
<1>2. LockDiscipline'
  BY <1>a, <1>b DEF LockDiscipline
<1>3. ClosedIsGone' /\ NoVolumeNoObject'
  BY <1>a, <1>b DEF ClosedIsGone, NoVolumeNoObject
<1>4. ~remounted' => OwnsSlot' /\ SlotsApart' /\ OwnObject' /\ ObjectHasOwner'
  BY <1>a, <1>b DEF OwnsSlot, SlotsApart, OwnObject, ObjectHasOwner
<1>5. QED
  BY <1>1, <1>2, <1>3, <1>4 DEF FilesIInv, FilesApart

(* app_sd_format_internal begins.                                          *)
LEMMA BeginFormatStep ==
  ASSUME FilesIInv, NEW who \in {"main", "cli"}, BeginFormat(who)
  PROVE  FilesIInv'
<1> USE DEF BeginFormat, NoObjects, FilesTypeOK, Slots, Busy, NoSlot
<1>a. /\ FilesTypeOK /\ LockDiscipline /\ ClosedIsGone /\ NoVolumeNoObject
      /\ ~remounted => OwnsSlot /\ SlotsApart /\ OwnObject /\ ObjectHasOwner
  BY DEF FilesIInv, FilesApart
<1>b. UNCHANGED <<filePc, fileId, given>>
  BY DEF fileVars
<1>1. FilesTypeOK'
  BY <1>a, <1>b, SdFilesAssumption
<1>2. LockDiscipline'
  BY <1>a, <1>b, SdFilesAssumption DEF LockDiscipline
<1>3. ~remounted' => OwnsSlot'
  BY <1>a, <1>b, SdFilesAssumption DEF OwnsSlot
<1>5. ClosedIsGone'
  BY <1>a, <1>b, SdFilesAssumption DEF ClosedIsGone, LockDiscipline
<1>6. NoVolumeNoObject'
  BY <1>a, <1>b, SdFilesAssumption DEF NoVolumeNoObject
<1>7. ~remounted' => OwnObject'
  BY <1>a, <1>b, SdFilesAssumption DEF OwnObject, LockDiscipline
<1>8. ~remounted' => ObjectHasOwner'
  BY <1>a, <1>b, SdFilesAssumption DEF ObjectHasOwner, LockDiscipline
<1>9. ~remounted' => SlotsApart'
  BY <1>a, <1>b DEF SlotsApart
<1>10. QED
  BY <1>1, <1>2, <1>3, <1>5, <1>6, <1>7, <1>8, <1>9 DEF FilesIInv, FilesApart

(* It ends, with a volume registered or without.                           *)
LEMMA EndFormatStep ==
  ASSUME FilesIInv, NEW who \in {"main", "cli"}, EndFormat(who)
  PROVE  FilesIInv'
<1> USE DEF EndFormat, Register, NoObjects, FilesTypeOK, Slots, Busy, NoSlot
<1>a. /\ FilesTypeOK /\ LockDiscipline /\ ClosedIsGone /\ NoVolumeNoObject
      /\ ~remounted => OwnsSlot /\ SlotsApart /\ OwnObject /\ ObjectHasOwner
  BY DEF FilesIInv, FilesApart
<1>b. UNCHANGED <<filePc, fileId, given>>
  BY DEF fileVars
<1>c. /\ owner' = owner /\ volume' \in BOOLEAN /\ remounted' \in BOOLEAN
      /\ status' \in {"ok", "error"}
      /\ \/ object' = object
         \/ object' = [s \in 0..(SD_FS_MAX_FILES - 1) |-> NoThread]
  BY <1>a
<1>d. NoThread \notin Threads
  BY SdFilesAssumption
<1>e. /\ lock' = "none"
      /\ mainPc' \in {"loop", mainPc}
      /\ UNCHANGED <<card, wanted, index, tries>>
  BY <1>a
<1>1. FilesTypeOK'
  BY <1>a, <1>b, <1>c, <1>e, ZenonT(30)
<1>2. LockDiscipline'
  BY <1>a, <1>b, SdFilesAssumption DEF LockDiscipline
<1>3. ~remounted' => OwnsSlot'
  BY <1>a, <1>b, SdFilesAssumption DEF OwnsSlot, LockDiscipline
<1>5. ClosedIsGone'
  <2>1. SUFFICES ASSUME NEW t \in Threads, filePc[t] = "free" PROVE object'[fileId[t]] # t
    BY <1>b DEF ClosedIsGone
  <2>2. fileId[t] \in 0..(SD_FS_MAX_FILES - 1) /\ object[fileId[t]] # t
    BY <1>a, <2>1 DEF ClosedIsGone, LockDiscipline
  <2>3. QED
    BY <1>c, <1>d, <2>2
<1>6. NoVolumeNoObject'
  BY <1>a, <1>b, SdFilesAssumption DEF NoVolumeNoObject
<1>7. ~remounted' => SlotsApart'
  <2>1. CASE UNCHANGED <<volume, remounted>>
    BY <1>a, <1>b, <2>1 DEF SlotsApart
  <2>2. CASE remounted' = (remounted \/ \E t \in Threads : NoSlot(t))
    <3>1. ASSUME ~remounted', NEW t \in Threads, NEW u \in Threads, t # u, Busy(t), Busy(u)
          PROVE  fileId[t] # fileId[u]
      <4>1. ~NoSlot(t) /\ ~NoSlot(u)
        BY <2>2, <3>1
      <4>2. owner[fileId[t]] = t /\ owner[fileId[u]] = u
        BY <4>1, <3>1
      <4>3. QED
        BY <4>2, <3>1
    <3>2. QED
      BY <3>1, <1>b DEF SlotsApart
  <2>3. QED
    BY <2>1, <2>2
<1>8. ~remounted' => OwnObject'
  BY <1>a, <1>b, SdFilesAssumption DEF OwnObject, LockDiscipline
<1>9. ~remounted' => ObjectHasOwner'
  BY <1>a, <1>b, SdFilesAssumption DEF ObjectHasOwner, LockDiscipline
<1>10. QED
  BY <1>1, <1>2, <1>3, <1>5, <1>6, <1>7, <1>8, <1>9 DEF FilesIInv, FilesApart

-----------------------------------------------------------------------------
(* The table is empty when the service starts.                             *)
LEMMA InitFilesIInv == FilesInit => FilesIInv
<1> SUFFICES ASSUME FilesInit PROVE FilesIInv
  OBVIOUS
<1> USE SdFilesAssumption DEF FilesInit
<1>1. FilesTypeOK
  <2>1. /\ card \in BOOLEAN /\ wanted \in BOOLEAN /\ volume \in BOOLEAN
    OBVIOUS
  <2>2. 0 \in 0..SD_FS_MAX_FILES /\ 0 \in 0..MaxTries
    BY SdFilesAssumption
  <2>3. /\ fileId \in [Threads -> 0..SD_FS_MAX_FILES]
        /\ given \in [Threads -> BOOLEAN]
    OBVIOUS
  <2>4. QED
    BY <2>1, <2>2, <2>3 DEF FilesTypeOK, Slots
<1>2. LockDiscipline /\ ClosedIsGone /\ NoVolumeNoObject
  BY DEF LockDiscipline, ClosedIsGone, NoVolumeNoObject, Busy, Slots
<1>3. FilesApart
  BY DEF FilesApart, OwnsSlot, NoSlot, SlotsApart, OwnObject, ObjectHasOwner, Busy, Slots
<1>4. QED
  BY <1>1, <1>2, <1>3 DEF FilesIInv

(* The invariant holds in every reachable state.                           *)
THEOREM FilesInvariance == FilesSpec => []FilesIInv
<1>1. FilesIInv /\ [FilesNext]_filesVars => FilesIInv'
  <2> SUFFICES ASSUME FilesIInv, [FilesNext]_filesVars PROVE FilesIInv'
    OBVIOUS
  <2>1. ASSUME NEW t \in Threads, FileCall(t) PROVE FilesIInv'
    BY <2>1, ClaimSlotStep, OpenObjectStep, CheckUseStep, UseObjectStep, CheckCloseStep,
       CloseObjectStep, FreeSlotStep DEF FileCall
  <2>2. CASE CardService
    BY <2>2, CardStep, BeginMountStep, MountTryStep, EndMountStep, BeginUnmountStep,
       UnmountCloseStep, UnmountVolumeStep, FormatWithoutMemoryStep, BeginFormatStep,
       EndFormatStep DEF CardService
  <2>3. CASE UNCHANGED filesVars
    BY <2>3 DEF filesVars, fileVars, FilesIInv, FilesTypeOK, LockDiscipline, ClosedIsGone,
                NoVolumeNoObject, FilesApart, OwnsSlot, NoSlot, SlotsApart, OwnObject,
                ObjectHasOwner, Busy
  <2>4. QED
    BY <2>1, <2>2, <2>3 DEF FilesNext
<1>2. QED
  BY InitFilesIInv, <1>1, PTL DEF FilesSpec

(* Every variable of the file table keeps its type.                        *)
THEOREM FilesTypeCorrect == FilesSpec => []FilesTypeOK
<1>1. FilesIInv => FilesTypeOK
  BY DEF FilesIInv
<1>2. QED
  BY <1>1, FilesInvariance, PTL

(* However many threads share the slots and whenever the card goes, a call *)
(* reaches its caller's own file or none, and a valid object has an owner  *)
(* that can close it, unless a volume was registered while a call without  *)
(* its slot had not returned.                                              *)
THEOREM FilesAreApart == FilesSpec => []FilesStayApart
<1>1. FilesIInv => FilesStayApart
  BY DEF FilesIInv, FilesApart, FilesStayApart
<1>2. QED
  BY <1>1, FilesInvariance, PTL

-----------------------------------------------------------------------------
(* Lists.                                                                  *)

(* SelectionShown is inductive together with the types of the six numbers. *)
ListsIInv == ListsTypeOK /\ SelectionShown

(* MAX_0(count - 4) is a number, and below the count: the subtraction of   *)
(* two sizes does not wrap.                                                *)
LEMMA LastFirstType ==
  ASSUME NEW count \in 1..MaxLength
  PROVE  /\ count \in Nat /\ count >= 1
         /\ LastFirst(count) \in Nat /\ LastFirst(count) < count
         /\ LastRow(count) \in 0..255 /\ LastRow(count) % 256 = LastRow(count)
         /\ LastFirst(count) + LastRow(count) = count - 1
         /\ count > FILENAME_COUNT => LastRow(count) = FILENAME_COUNT - 1
         /\ count <= FILENAME_COUNT => LastFirst(count) = 0
<1>1. LastRow(count) \in 0..255
  BY ListsAssumption DEF LastRow, Smaller
<1>2. \A n \in 0..255 : n % 256 = n
  OBVIOUS
<1>3. QED
  BY <1>1, <1>2, ListsAssumption DEF LastFirst, LastRow, Smaller

(* The first row that submenu_set_selected_item and                        *)
(* file_select_set_selected_file give a selection.                         *)
LEMMA WindowForBounds ==
  ASSUME NEW count \in 1..MaxLength, NEW i \in 0..(count - 1)
  PROVE  /\ i \in Nat /\ i < count /\ count \in Nat
         /\ WindowFor(i, count) \in Nat /\ WindowFor(i, count) <= LastFirst(count)
         /\ WindowFor(i, count) <= i /\ i - WindowFor(i, count) <= LastRow(count)
         /\ LastRow(count) < FILENAME_COUNT
BY ListsAssumption DEF WindowFor, Smaller, LastFirst, LastRow

-----------------------------------------------------------------------------
(* A dialog opens with its selection on the screen.                        *)
LEMMA InitListsIInv == ListsInit => ListsIInv
<1> SUFFICES ASSUME ListsInit PROVE ListsIInv
  OBVIOUS
<1>1. item_count \in 1..MaxLength /\ item \in 0..(item_count - 1)
      /\ window_position = WindowFor(item, item_count)
  BY DEF ListsInit
<1>2. /\ item \in 0..MaxLength /\ window_position \in 0..MaxLength
      /\ window_position <= LastFirst(item_count) /\ item < item_count
      /\ window_position <= item /\ item < window_position + FILENAME_COUNT
  <2>1. /\ item \in Nat /\ item_count \in Nat /\ item < item_count /\ item_count <= MaxLength
        /\ MaxLength \in Nat /\ FILENAME_COUNT \in Nat
    BY <1>1, ListsAssumption
  <2>2. /\ window_position \in Nat /\ window_position <= LastFirst(item_count)
        /\ window_position <= item /\ item - window_position <= LastRow(item_count)
        /\ LastRow(item_count) < FILENAME_COUNT /\ LastRow(item_count) \in 0..255
    BY <1>1, WindowForBounds, LastFirstType
  <2>3. QED
    BY <2>1, <2>2
<1>3. CASE file_count = 0 /\ position = 0 /\ first_file_index = 0
  BY <1>1, <1>2, <1>3, ListsAssumption DEF ListsIInv, ListsTypeOK, SelectionShown
<1>4. ASSUME file_count \in 1..MaxLength, NEW file \in 0..(file_count - 1),
             first_file_index = WindowFor(file, file_count),
             position = file - WindowFor(file, file_count)
      PROVE  ListsIInv
  <2>1. /\ WindowFor(file, file_count) \in Nat /\ WindowFor(file, file_count) <= file
        /\ WindowFor(file, file_count) <= LastFirst(file_count)
        /\ file - WindowFor(file, file_count) <= LastRow(file_count)
        /\ LastRow(file_count) \in 0..255 /\ LastFirst(file_count) < file_count
        /\ LastFirst(file_count) \in Nat /\ file \in Nat
    BY <1>4, WindowForBounds, LastFirstType
  <2>2. /\ first_file_index \in 0..MaxLength /\ first_file_index <= LastFirst(file_count)
        /\ position \in 0..255 /\ position <= LastRow(file_count)
    BY <1>4, <2>1, ListsAssumption
  <2>3. QED
    BY <1>1, <1>2, <1>4, <2>2 DEF ListsIInv, ListsTypeOK, SelectionShown
<1>5. QED
  BY <1>3, <1>4 DEF ListsInit

(* In an empty list of files the keys move nothing but the row, which      *)
(* stays an unsigned byte.                                                 *)
LEMMA EmptyFileSteps ==
  ASSUME ListsIInv, file_count = 0, FileUp \/ FileDown
  PROVE  ListsIInv' /\ UNCHANGED FileRing!ringVars
<1>1. /\ position \in 0..255 /\ first_file_index \in 0..MaxLength /\ MaxLength \in Nat
      /\ LastRow(file_count) = -1 /\ LastFirst(file_count) = 0
  BY ListsAssumption DEF ListsIInv, ListsTypeOK, LastRow, LastFirst, Smaller
<1>2. LastRow(file_count) % 256 \in 0..255
  BY <1>1
<1>3. position' \in 0..255 /\ first_file_index' \in 0..MaxLength
  BY <1>1, <1>2 DEF FileUp, FileDown
<1>4. file_count' = file_count /\ UNCHANGED submenu
  BY DEF FileUp, FileDown
<1>5. ListsIInv'
  BY <1>3, <1>4 DEF ListsIInv, ListsTypeOK, SelectionShown, submenu, LastFirst
<1>6. QED
  BY <1>4, <1>5 DEF FileRing!ringVars

(* Up in file_select.c: either number moves, and the selection goes back   *)
(* by one, from the first file to the last.                                *)
LEMMA FileUpStep ==
  ASSUME ListsIInv, FileUp, file_count # 0
  PROVE  ListsIInv' /\ FileRing!Previous
<1>0. file_count \in 1..MaxLength /\ file_count > 0 /\ MaxLength \in Nat
  BY ListsAssumption DEF ListsIInv, ListsTypeOK
<1>1. /\ file_count \in Nat /\ position \in Nat /\ first_file_index \in Nat
      /\ position <= LastRow(file_count) /\ first_file_index <= LastFirst(file_count)
  BY <1>0, ListsAssumption DEF ListsIInv, ListsTypeOK, SelectionShown
<1>2. /\ LastFirst(file_count) \in Nat /\ LastRow(file_count) \in 0..255
      /\ LastFirst(file_count) + LastRow(file_count) = file_count - 1
      /\ LastRow(file_count) % 256 = LastRow(file_count)
      /\ LastFirst(file_count) <= MaxLength
  BY <1>0, LastFirstType
<1>3. /\ position' \in 0..255 /\ first_file_index' \in 0..MaxLength
      /\ position' <= LastRow(file_count) /\ first_file_index' <= LastFirst(file_count)
  BY <1>0, <1>1, <1>2 DEF FileUp
<1>4. file_count' = file_count /\ UNCHANGED submenu
  BY DEF FileUp
<1>5. ListsIInv'
  BY <1>3, <1>4 DEF ListsIInv, ListsTypeOK, SelectionShown, submenu, LastRow, LastFirst
<1>6. first_file_index' + position' =
        (IF first_file_index + position = 0 THEN file_count - 1 ELSE first_file_index + position - 1)
  BY <1>1, <1>2 DEF FileUp
<1>7. FileRing!Previous
  BY <1>0, <1>1, <1>4, <1>6 DEF FileRing!Previous
<1>8. QED
  BY <1>5, <1>7

(* Down in file_select.c, which keeps a row below the selection while      *)
(* there is a file for it.                                                 *)
LEMMA FileDownStep ==
  ASSUME ListsIInv, FileDown, file_count # 0
  PROVE  ListsIInv' /\ FileRing!Next
<1>0. file_count \in 1..MaxLength /\ file_count > 0 /\ MaxLength \in Nat
  BY ListsAssumption DEF ListsIInv, ListsTypeOK
<1>1. /\ file_count \in Nat /\ position \in Nat /\ first_file_index \in Nat
      /\ position <= LastRow(file_count) /\ first_file_index <= LastFirst(file_count)
  BY <1>0, ListsAssumption DEF ListsIInv, ListsTypeOK, SelectionShown
<1>2. /\ LastFirst(file_count) \in Nat /\ LastRow(file_count) \in 0..255
      /\ LastFirst(file_count) + LastRow(file_count) = file_count - 1
      /\ LastFirst(file_count) <= MaxLength
  BY <1>0, LastFirstType
<1>3. /\ position' \in 0..255 /\ first_file_index' \in 0..MaxLength
      /\ position' <= LastRow(file_count) /\ first_file_index' <= LastFirst(file_count)
  BY <1>0, <1>1, <1>2 DEF FileDown
<1>4. file_count' = file_count /\ UNCHANGED submenu
  BY DEF FileDown
<1>5. ListsIInv'
  BY <1>3, <1>4 DEF ListsIInv, ListsTypeOK, SelectionShown, submenu, LastRow, LastFirst
<1>6. first_file_index' + position' =
        (IF first_file_index + position = file_count - 1 THEN 0 ELSE first_file_index + position + 1)
  BY <1>1, <1>2 DEF FileDown
<1>7. FileRing!Next
  BY <1>0, <1>1, <1>4, <1>6 DEF FileRing!Next
<1>8. QED
  BY <1>5, <1>7

(* submenu_process_up.                                                     *)
LEMMA ItemUpStep ==
  ASSUME ListsIInv, ItemUp
  PROVE  ListsIInv' /\ ItemRing!Previous
<1>1. /\ item_count \in 1..MaxLength /\ item \in Nat /\ window_position \in Nat
      /\ window_position <= item /\ item < window_position + FILENAME_COUNT
      /\ item < item_count /\ window_position <= LastFirst(item_count)
      /\ item_count \in Nat /\ item_count > 0 /\ MaxLength \in Nat
  BY ListsAssumption DEF ListsIInv, ListsTypeOK, SelectionShown
<1>2. item_count' = item_count /\ UNCHANGED fileList
  BY DEF ItemUp
<1>3. /\ item' \in 0..MaxLength /\ window_position' \in 0..MaxLength
      /\ window_position' <= item' /\ item' < window_position' + FILENAME_COUNT
      /\ item' < item_count /\ window_position' <= LastFirst(item_count)
  BY <1>1, LastFirstType, ListsAssumption DEF ItemUp, LastFirst
<1>4. ListsIInv'
  BY <1>2, <1>3 DEF ListsIInv, ListsTypeOK, SelectionShown, fileList, LastFirst, LastRow
<1>5. ItemRing!Previous
  BY <1>1, <1>2, LastFirstType DEF ItemUp, ItemRing!Previous
<1>6. QED
  BY <1>4, <1>5

(* submenu_process_down.                                                   *)
LEMMA ItemDownStep ==
  ASSUME ListsIInv, ItemDown
  PROVE  ListsIInv' /\ ItemRing!Next
<1>1. /\ item_count \in 1..MaxLength /\ item \in Nat /\ window_position \in Nat
      /\ window_position <= item /\ item < window_position + FILENAME_COUNT
      /\ item < item_count /\ window_position <= LastFirst(item_count)
      /\ item_count \in Nat /\ item_count > 0 /\ MaxLength \in Nat
  BY ListsAssumption DEF ListsIInv, ListsTypeOK, SelectionShown
<1>2. item_count' = item_count /\ UNCHANGED fileList
  BY DEF ItemDown
<1>3. /\ item' \in 0..MaxLength /\ window_position' \in 0..MaxLength
      /\ window_position' <= item' /\ item' < window_position' + FILENAME_COUNT
      /\ item' < item_count /\ window_position' <= LastFirst(item_count)
  BY <1>1, LastFirstType, ListsAssumption DEF ItemDown, LastFirst
<1>4. ListsIInv'
  BY <1>2, <1>3 DEF ListsIInv, ListsTypeOK, SelectionShown, fileList, LastFirst, LastRow
<1>5. ItemRing!Next
  BY <1>1, <1>2, LastFirstType DEF ItemDown, ItemRing!Next
<1>6. QED
  BY <1>4, <1>5

-----------------------------------------------------------------------------
(* The invariant holds in every reachable state.                           *)
THEOREM ListsInvariance == ListsSpec => []ListsIInv
<1>1. ListsInit => ListsIInv
  BY InitListsIInv
<1>2. ListsIInv /\ [ListsNext]_listsVars => ListsIInv'
  <2> SUFFICES ASSUME ListsIInv, [ListsNext]_listsVars PROVE ListsIInv'
    OBVIOUS
  <2>1. CASE UNCHANGED listsVars
    BY <2>1 DEF listsVars, fileList, submenu, ListsIInv, ListsTypeOK, SelectionShown,
                LastFirst, LastRow
  <2>2. CASE ListsNext
    BY <2>2, EmptyFileSteps, FileUpStep, FileDownStep, ItemUpStep, ItemDownStep DEF ListsNext
  <2>3. QED
    BY <2>1, <2>2
<1>3. QED
  BY <1>1, <1>2, PTL DEF ListsSpec

(* Whatever is pressed, the selected item and, in a list that holds files, *)
(* the selected file are among the rows on the screen.                     *)
THEOREM SelectionIsShown == ListsSpec => []SelectionShown
<1>1. ListsIInv => SelectionShown
  BY DEF ListsIInv
<1>2. QED
  BY <1>1, ListsInvariance, PTL

(* The keys of both lists step through all the entries in a circle: the    *)
(* pair of numbers of file_select.c and the position of submenu.c each     *)
(* implement Ring.                                                         *)
THEOREM ListsImplementRing == ListsSpec => ImplementsRing
<1>1. ListsIInv => FileRing!RingInit /\ ItemRing!RingInit
  <2> SUFFICES ASSUME ListsIInv PROVE FileRing!RingInit /\ ItemRing!RingInit
    OBVIOUS
  <2>1. ItemRing!RingInit
    <3>1. item_count \in 1..MaxLength /\ item \in 0..MaxLength /\ item < item_count /\ MaxLength \in Nat
      BY ListsAssumption DEF ListsIInv, ListsTypeOK, SelectionShown
    <3>2. item_count \in Nat /\ item \in Nat
      BY <3>1
    <3>3. QED
      BY <3>1, <3>2 DEF ItemRing!RingInit
  <2>2. CASE file_count = 0
    BY <2>1, <2>2 DEF FileRing!RingInit
  <2>3. CASE file_count # 0
    <3>1. /\ file_count \in 1..MaxLength /\ MaxLength \in Nat
          /\ position \in Nat /\ first_file_index \in Nat
          /\ position <= LastRow(file_count) /\ first_file_index <= LastFirst(file_count)
      BY <2>3, ListsAssumption DEF ListsIInv, ListsTypeOK, SelectionShown
    <3>2. /\ LastFirst(file_count) \in Nat /\ LastRow(file_count) \in 0..255
          /\ LastFirst(file_count) + LastRow(file_count) = file_count - 1
      BY <3>1, LastFirstType
    <3>3. /\ file_count \in Nat /\ first_file_index + position \in Nat
          /\ first_file_index + position < file_count
      BY <3>1, <3>2
    <3>4. QED
      BY <2>1, <2>3, <3>3 DEF FileRing!RingInit
  <2>4. QED
    BY <2>1, <2>2, <2>3
<1>2. ListsIInv /\ [ListsNext]_listsVars =>
        /\ [FileRing!Next \/ FileRing!Previous]_(FileRing!ringVars)
        /\ [ItemRing!Next \/ ItemRing!Previous]_(ItemRing!ringVars)
  <2> SUFFICES ASSUME ListsIInv, [ListsNext]_listsVars
               PROVE  /\ [FileRing!Next \/ FileRing!Previous]_(FileRing!ringVars)
                      /\ [ItemRing!Next \/ ItemRing!Previous]_(ItemRing!ringVars)
    OBVIOUS
  <2>1. CASE FileUp
    <3>1. UNCHANGED ItemRing!ringVars
      BY <2>1 DEF FileUp, submenu, ItemRing!ringVars
    <3>2. QED
      BY <2>1, <3>1, FileUpStep, EmptyFileSteps
  <2>2. CASE FileDown
    <3>1. UNCHANGED ItemRing!ringVars
      BY <2>2 DEF FileDown, submenu, ItemRing!ringVars
    <3>2. QED
      BY <2>2, <3>1, FileDownStep, EmptyFileSteps
  <2>3. CASE ItemUp
    BY <2>3, ItemUpStep DEF ItemUp, fileList, FileRing!ringVars
  <2>4. CASE ItemDown
    BY <2>4, ItemDownStep DEF ItemDown, fileList, FileRing!ringVars
  <2>5. CASE UNCHANGED listsVars
    BY <2>5 DEF listsVars, fileList, submenu, FileRing!ringVars, ItemRing!ringVars
  <2>6. QED
    BY <2>1, <2>2, <2>3, <2>4, <2>5 DEF ListsNext
<1>3. QED
  BY <1>1, <1>2, ListsInvariance, PTL
     DEF ListsSpec, ImplementsRing, FileRing!RingSpec, ItemRing!RingSpec

-----------------------------------------------------------------------------
(* Archive.  What the browser remembers of the directories above the open  *)
(* one, and that its list is of this one.                                  *)
Remembers == \A d \in 1..depth : last_idx[d - 1] = entered[d]
InList == \A d \in 1..Len(entered) : entered[d] < onCard[d]
ListsTheCard == files <= onCard[Len(onCard)]

ArchiveIInv ==
  /\ ArchiveTypeOK
  /\ depth <= Len(entered)
  /\ renaming => menu
  /\ depth = Len(entered) => Remembers
  /\ ~outdated => InList /\ ListsTheCard
  /\ SelectedExists

LEMMA ClampBounds ==
  \A i, count \in 0..(MaxFiles + 1) :
    Clamp(i, count) \in 0..(MaxFiles + 1) /\ (count > 0 => Clamp(i, count) < count)
BY ArchiveAssumption DEF Clamp

(* The path of the open directory: one more directory, one less, and the   *)
(* open one changed.                                                       *)
LEMMA Deeper ==
  ASSUME NEW T, NEW s \in Seq(T), NEW e \in T
  PROVE  /\ Append(s, e) \in Seq(T) /\ Len(Append(s, e)) = Len(s) + 1 /\ Len(s) \in Nat
         /\ Last(Append(s, e)) = e /\ Append(s, e)[Len(s) + 1] = e
         /\ \A i \in 1..Len(s) : Append(s, e)[i] = s[i]
BY DEF Last

LEMMA Shallower ==
  ASSUME NEW T, NEW s \in Seq(T), s # <<>>
  PROVE  /\ Front(s) \in Seq(T) /\ Len(Front(s)) = Len(s) - 1 /\ Len(s) \in Nat /\ Len(s) >= 1
         /\ Last(s) = s[Len(s)] /\ Last(s) \in T
         /\ \A i \in 1..(Len(s) - 1) : Front(s)[i] = s[i]
<1>1. Len(s) \in Nat /\ Len(s) >= 1 /\ s \in [1..Len(s) -> T]
  OBVIOUS
<1>2. SubSeq(s, 1, Len(s) - 1) \in Seq(T) /\ Len(SubSeq(s, 1, Len(s) - 1)) = Len(s) - 1
  BY <1>1
<1>3. \A i \in 1..(Len(s) - 1) : SubSeq(s, 1, Len(s) - 1)[i] = s[i]
  BY <1>1
<1>4. QED
  BY <1>1, <1>2, <1>3 DEF Front, Last

(* What every step may use of the types, and has to show of them.          *)
ArchiveNumbers ==
  /\ MAX_DEPTH \in Nat /\ MAX_DEPTH > 0 /\ MaxFiles \in Nat /\ MaxFiles > 0 /\ Nesting \in Nat
  /\ files \in 0..MaxFiles /\ idx \in 0..(MaxFiles + 1) /\ depth \in 0..MAX_DEPTH
  /\ last_idx \in [0..(MAX_DEPTH - 1) -> 0..(MaxFiles + 1)]
  /\ menu \in BOOLEAN /\ renaming \in BOOLEAN /\ outdated \in BOOLEAN
  /\ Files = 0..MaxFiles

ArchivePath ==
  /\ onCard \in Seq(Files) /\ entered \in Seq(Files) /\ onCard # <<>>
  /\ Len(entered) \in Nat /\ Len(onCard) = Len(entered) + 1
  /\ Last(onCard) = onCard[Len(onCard)] /\ Last(onCard) \in 0..MaxFiles

LEMMA ArchiveFacts == ASSUME ArchiveTypeOK PROVE ArchiveNumbers /\ ArchivePath
<1>1. /\ onCard \in Seq(Files) /\ entered \in Seq(Files) /\ Len(onCard) = Len(entered) + 1
      /\ Len(entered) \in Nat
  BY DEF ArchiveTypeOK
<1>2. onCard # <<>>
  BY <1>1
<1>3. Last(onCard) = onCard[Len(onCard)] /\ Last(onCard) \in Files
  BY <1>1, <1>2, Shallower
<1>4. QED
  BY SMTT(60), <1>1, <1>2, <1>3, ArchiveAssumption DEF ArchiveNumbers, ArchivePath, ArchiveTypeOK, Files, BrowserDepths

LEMMA NextTypes ==
  ASSUME files' \in 0..MaxFiles, idx' \in 0..(MaxFiles + 1), depth' \in 0..MAX_DEPTH,
         last_idx' \in [0..(MAX_DEPTH - 1) -> 0..(MaxFiles + 1)],
         menu' \in BOOLEAN, renaming' \in BOOLEAN, outdated' \in BOOLEAN,
         onCard' \in Seq(Files), entered' \in Seq(Files), Len(onCard') = Len(entered') + 1
  PROVE  ArchiveTypeOK'
BY DEF ArchiveTypeOK, Files, BrowserDepths

-----------------------------------------------------------------------------
(* Up and Down keep the selection in the list.                             *)
LEMMA MoveSteps == ASSUME ArchiveIInv, Down \/ Up PROVE ArchiveIInv'
<1>0. ArchiveNumbers /\ ArchivePath
  BY ArchiveFacts DEF ArchiveIInv
<1> USE DEF ArchiveIInv
<1>1. PICK i \in 0..(MaxFiles + 1) : idx' = Clamp(i, files)
  BY <1>0 DEF Down, Up, ArchiveNumbers
<1>2. /\ ~menu /\ ~renaming /\ UNCHANGED <<files, last_idx, depth, onCard, entered, outdated, menu, renaming>>
  BY DEF Down, Up, Browsing, browser, views
<1>3. idx' \in 0..(MaxFiles + 1) /\ (files > 0 => idx' < files)
  <2>1. i \in Nat /\ i <= MaxFiles + 1 /\ files \in Nat /\ MaxFiles \in Nat
    BY <1>0 DEF ArchiveNumbers
  <2>2. QED
    BY <1>1, <2>1 DEF Clamp
<1>4. ArchiveTypeOK'
  BY NextTypes, <1>0, <1>2, <1>3 DEF ArchiveNumbers, ArchivePath
<1>5. QED
  BY <1>2, <1>3, <1>4 DEF SelectedExists, Remembers, InList, ListsTheCard

(* Another tab begins at its root.                                         *)
LEMMA SwitchTabStep == ASSUME ArchiveIInv, SwitchTab PROVE ArchiveIInv'
<1>0. ArchiveNumbers /\ ArchivePath
  BY ArchiveFacts DEF ArchiveIInv
<1> USE DEF ArchiveIInv
<1>1. PICK n \in Files : onCard' = <<n>> /\ files' \in 0..n
  BY DEF SwitchTab, Listing
<1>2. /\ ~menu /\ ~renaming /\ idx' = 0 /\ depth' = 0 /\ entered' = <<>> /\ outdated' = FALSE
      /\ UNCHANGED <<last_idx, menu, renaming>>
  BY DEF SwitchTab, Browsing, views
<1>3. onCard' \in Seq(Files) /\ Len(onCard') = 1 /\ onCard'[1] = n /\ n \in 0..MaxFiles
  BY <1>0, <1>1 DEF ArchiveNumbers
<1>4. entered' \in Seq(Files) /\ Len(entered') = 0
  BY <1>2
<1>5. ArchiveTypeOK'
  BY NextTypes, <1>0, <1>1, <1>2, <1>3, <1>4 DEF ArchiveNumbers
<1>6. QED
  BY <1>0, <1>1, <1>2, <1>3, <1>4, <1>5
     DEF ArchiveNumbers, SelectedExists, Remembers, InList, ListsTheCard

(* A directory is entered: its index is saved, or stored past the end.     *)
LEMMA EnterDirStep == ASSUME ArchiveIInv, EnterDir PROVE ArchiveIInv'
<1>0. ArchiveNumbers /\ ArchivePath
  BY ArchiveFacts DEF ArchiveIInv
<1> USE DEF ArchiveIInv
<1>1. PICK n \in Files : onCard' = Append(onCard, n) /\ files' \in 0..n
  BY DEF EnterDir, Listing
<1>2. /\ ~menu /\ ~renaming /\ files > 0 /\ idx < files /\ idx' = 0
      /\ entered' = Append(entered, idx)
      /\ UNCHANGED <<renaming, outdated>>
  BY DEF EnterDir, Browsing
<1>3. Clamp(idx, files) = idx /\ idx \in Files
  <2>1. idx \in Nat /\ files \in Nat /\ files <= MaxFiles /\ MaxFiles \in Nat /\ Files = 0..MaxFiles
    BY <1>0 DEF ArchiveNumbers
  <2>2. QED
    BY <1>2, <2>1 DEF Clamp
<1>a. IF depth < MAX_DEPTH
      THEN last_idx' = [last_idx EXCEPT ![depth] = idx] /\ depth' = depth + 1 /\ menu' = menu
      ELSE menu' \in BOOLEAN /\ UNCHANGED <<last_idx, depth>>
  BY <1>3 DEF EnterDir
<1>4. /\ onCard' \in Seq(Files) /\ Len(onCard') = Len(onCard) + 1 /\ onCard'[Len(onCard) + 1] = n
      /\ \A i \in 1..Len(onCard) : onCard'[i] = onCard[i]
  BY <1>0, <1>1, Deeper DEF ArchivePath
<1>5. /\ entered' \in Seq(Files) /\ Len(entered') = Len(entered) + 1
      /\ entered'[Len(entered) + 1] = idx /\ \A i \in 1..Len(entered) : entered'[i] = entered[i]
  BY <1>0, <1>2, <1>3, Deeper DEF ArchivePath
<1>6. /\ n \in Nat /\ n <= MaxFiles /\ files' \in Nat /\ files' <= n /\ MaxFiles \in Nat
      /\ depth \in Nat /\ depth <= MAX_DEPTH /\ MAX_DEPTH \in Nat /\ Len(entered) \in Nat
      /\ depth <= Len(entered)
  BY <1>0, <1>1 DEF ArchiveNumbers, ArchivePath
<1>7. ArchiveTypeOK'
  <2>1. /\ files' \in 0..MaxFiles /\ idx' \in 0..(MaxFiles + 1) /\ depth' \in 0..MAX_DEPTH
        /\ menu' \in BOOLEAN /\ renaming' \in BOOLEAN /\ outdated' \in BOOLEAN
    BY <1>0, <1>2, <1>6, <1>a DEF ArchiveNumbers
  <2>2. last_idx' \in [0..(MAX_DEPTH - 1) -> 0..(MaxFiles + 1)]
    BY <1>0, <1>3, <1>a DEF ArchiveNumbers
  <2>3. Len(onCard') = Len(entered') + 1
    BY <1>0, <1>4, <1>5 DEF ArchivePath
  <2>4. QED
    BY NextTypes, <1>4, <1>5, <2>1, <2>2, <2>3
<1>8. depth' <= Len(entered')
  BY <1>5, <1>6, <1>a
<1>9. ASSUME depth' = Len(entered') PROVE Remembers' /\ menu' = menu /\ depth = Len(entered)
  <2>1. depth < MAX_DEPTH /\ depth = Len(entered) /\ depth' = depth + 1 /\ menu' = menu
    BY <1>5, <1>6, <1>9, <1>a
  <2>2. last_idx'[depth] = idx /\ \A d \in 1..depth : last_idx'[d - 1] = last_idx[d - 1]
    BY <1>0, <1>6, <1>a, <2>1 DEF ArchiveNumbers
  <2>3. ASSUME NEW d \in 1..(depth + 1) PROVE last_idx'[d - 1] = entered'[d]
    <3>1. CASE d = depth + 1
      BY <1>5, <1>6, <2>1, <2>2, <3>1
    <3>2. CASE d \in 1..depth
      <4>1. last_idx[d - 1] = entered[d]
        BY <2>1, <3>2 DEF Remembers
      <4>2. QED
        BY <1>5, <2>1, <2>2, <3>2, <4>1
    <3>3. QED
      BY <1>6, <2>3, <3>1, <3>2
  <2>4. QED
    BY <2>1, <2>3 DEF Remembers
<1>10. ASSUME ~outdated PROVE InList' /\ ListsTheCard'
  <2>1. \A d \in 1..Len(entered) : entered[d] < onCard[d]
    BY <1>10 DEF InList
  <2>2. Len(onCard) = Len(entered) + 1 /\ files <= onCard[Len(onCard)]
    BY <1>0, <1>10 DEF ArchivePath, ListsTheCard
  <2>3. onCard[Len(onCard)] \in Nat /\ files \in Nat /\ idx \in Nat
    BY <1>0 DEF ArchiveNumbers, ArchivePath
  <2>4. ASSUME NEW d \in 1..(Len(entered) + 1) PROVE entered'[d] < onCard'[d]
    <3>1. CASE d = Len(entered) + 1
      BY <1>2, <1>4, <1>5, <1>6, <2>2, <2>3, <3>1
    <3>2. CASE d \in 1..Len(entered)
      BY <1>4, <1>5, <1>6, <2>1, <2>2, <3>2
    <3>3. QED
      BY <1>6, <2>4, <3>1, <3>2
  <2>5. QED
    BY <1>4, <1>5, <1>6, <2>4 DEF InList, ListsTheCard
<1>11. SelectedExists'
  BY <1>2, <1>6, <1>9 DEF SelectedExists
<1>12. QED
  BY <1>2, <1>7, <1>8, <1>9, <1>10, <1>11

(* A directory is left: what was saved selects it.                         *)
LEMMA LeaveDirStep ==
  ASSUME ArchiveIInv, LeaveDir
  PROVE  /\ ArchiveIInv'
         /\ depth = Len(entered) => idx' = Last(entered)
<1>0. ArchiveNumbers /\ ArchivePath
  BY ArchiveFacts DEF ArchiveIInv
<1> USE DEF ArchiveIInv
<1>1. /\ ~menu /\ ~renaming /\ depth > 0 /\ entered # <<>> /\ depth' = depth - 1 /\ idx' = last_idx[depth - 1]
      /\ onCard' = Front(onCard) /\ entered' = Front(entered)
      /\ files' \in 0..Last(onCard') /\ outdated' = (outdated \/ files' < Last(onCard'))
      /\ UNCHANGED <<last_idx, menu, renaming>>
  BY DEF LeaveDir, Browsing, views, Listing
<1>2. /\ onCard' \in Seq(Files) /\ Len(onCard') = Len(onCard) - 1
      /\ \A i \in 1..(Len(onCard) - 1) : onCard'[i] = onCard[i]
  BY <1>0, <1>1, Shallower DEF ArchivePath
<1>3. /\ entered' \in Seq(Files) /\ Len(entered') = Len(entered) - 1 /\ Len(entered) >= 1
      /\ Last(entered) = entered[Len(entered)]
      /\ \A i \in 1..(Len(entered) - 1) : entered'[i] = entered[i]
  BY <1>0, <1>1, Shallower DEF ArchivePath
<1>4. onCard' # <<>> /\ Len(onCard') = Len(entered) /\ Len(entered) \in Nat
  BY <1>0, <1>2, <1>3 DEF ArchivePath
<1>5. Last(onCard') = onCard'[Len(onCard')] /\ Last(onCard') \in Files
  BY <1>2, <1>4, Shallower
<1>6. /\ files' \in Nat /\ files' <= Last(onCard') /\ Last(onCard') \in Nat /\ Last(onCard') <= MaxFiles
      /\ idx' \in 0..(MaxFiles + 1) /\ MaxFiles \in Nat /\ depth \in Nat /\ outdated' \in BOOLEAN
  BY <1>0, <1>1, <1>5 DEF ArchiveNumbers
<1>7. ArchiveTypeOK'
  <2>1. /\ files' \in 0..MaxFiles /\ depth' \in 0..MAX_DEPTH
        /\ last_idx' \in [0..(MAX_DEPTH - 1) -> 0..(MaxFiles + 1)]
        /\ menu' \in BOOLEAN /\ renaming' \in BOOLEAN
    BY <1>0, <1>1, <1>6 DEF ArchiveNumbers
  <2>2. Len(onCard') = Len(entered') + 1
    BY <1>3, <1>4
  <2>3. QED
    BY NextTypes, <1>2, <1>3, <1>6, <2>1, <2>2
<1>8. depth' <= Len(entered') /\ (depth' = Len(entered') <=> depth = Len(entered))
  BY <1>1, <1>3, <1>4, <1>6
<1>9. ASSUME depth = Len(entered) PROVE Remembers' /\ idx' = Last(entered)
  <2>1. \A d \in 1..depth : last_idx[d - 1] = entered[d]
    BY <1>9 DEF Remembers
  <2>2. idx' = Last(entered)
    BY <1>1, <1>3, <1>6, <1>9, <2>1
  <2>3. ASSUME NEW d \in 1..(depth - 1) PROVE last_idx'[d - 1] = entered'[d]
    BY <1>1, <1>3, <1>6, <1>9, <2>1, <2>3
  <2>4. QED
    BY <1>1, <2>2, <2>3 DEF Remembers
<1>10. ASSUME ~outdated' PROVE InList' /\ ListsTheCard'
  <2>1. \A d \in 1..Len(entered) : entered[d] < onCard[d]
    BY <1>1, <1>10 DEF InList
  <2>2. Len(onCard) - 1 = Len(entered)
    BY <1>0, <1>4 DEF ArchivePath
  <2>3. ASSUME NEW d \in 1..(Len(entered) - 1) PROVE entered'[d] < onCard'[d]
    BY <1>2, <1>3, <1>4, <2>1, <2>2, <2>3
  <2>4. QED
    BY <1>3, <1>5, <1>6, <2>3 DEF InList, ListsTheCard
<1>11. SelectedExists'
  <2>1. SUFFICES ASSUME ~outdated', depth = Len(entered), files' > 0 PROVE idx' < files'
    BY <1>1, <1>8 DEF SelectedExists
  <2>a. ~outdated /\ ~(files' < Last(onCard'))
    BY <1>1, <2>1, Zenon
  <2>2. ~outdated /\ files' = Last(onCard') /\ Len(onCard) - 1 = Len(entered)
    BY <1>0, <1>4, <1>6, <2>a DEF ArchivePath
  <2>3. entered[Len(entered)] < onCard[Len(entered)]
    BY <1>3, <1>4, <2>2 DEF InList
  <2>4. QED
    BY <1>2, <1>3, <1>4, <1>5, <1>9, <2>1, <2>2, <2>3
<1>12. QED
  BY <1>1, <1>7, <1>8, <1>9, <1>10, <1>11

(* The file menu.                                                          *)
LEMMA MenuSteps == ASSUME ArchiveIInv, OpenMenu \/ CloseMenu \/ BeginRename PROVE ArchiveIInv'
<1>1. /\ menu' => menu \/ idx < files
      /\ renaming' => menu'
      /\ menu' \in BOOLEAN /\ renaming' \in BOOLEAN
      /\ UNCHANGED <<files, idx, last_idx, depth, onCard, entered, outdated>>
  <2>1. menu \in BOOLEAN /\ renaming \in BOOLEAN /\ (renaming => menu)
    BY DEF ArchiveIInv, ArchiveTypeOK
  <2>2. CASE OpenMenu
    BY <2>1, <2>2 DEF OpenMenu, Browsing, browser
  <2>3. CASE CloseMenu
    BY <2>1, <2>3 DEF CloseMenu, browser
  <2>4. CASE BeginRename
    BY <2>1, <2>4 DEF BeginRename, Choosing, browser
  <2>5. QED
    BY <2>2, <2>3, <2>4
<1>2. QED
  BY <1>1 DEF ArchiveIInv, ArchiveTypeOK, SelectedExists, Remembers, InList, ListsTheCard

LEMMA SetOnCardFacts ==
  ASSUME ArchiveTypeOK, NEW n \in Files, SetOnCard(n)
  PROVE  /\ onCard' \in Seq(Files) /\ Len(onCard') = Len(onCard) /\ onCard'[Len(onCard)] = n
         /\ \A i \in 1..(Len(onCard) - 1) : onCard'[i] = onCard[i]
<1>1. /\ Front(onCard) \in Seq(Files) /\ Len(Front(onCard)) = Len(onCard) - 1 /\ Len(onCard) \in Nat
      /\ Len(onCard) >= 1 /\ \A i \in 1..(Len(onCard) - 1) : Front(onCard)[i] = onCard[i]
  BY ArchiveFacts, Shallower DEF ArchivePath
<1> DEFINE f == Front(onCard)
<1>2. onCard' = Append(f, n)
  BY DEF SetOnCard
<1> HIDE DEF f
<1>3. /\ Append(f, n) \in Seq(Files) /\ Len(Append(f, n)) = Len(f) + 1 /\ Append(f, n)[Len(f) + 1] = n
      /\ \A i \in 1..Len(f) : Append(f, n)[i] = f[i]
  BY <1>1, Deeper DEF f
<1>4. QED
  BY <1>1, <1>2, <1>3 DEF f

LEMMA FilesLeftType == ASSUME ArchiveTypeOK PROVE FilesLeft \subseteq Files
BY ArchiveFacts DEF ArchiveNumbers, ArchivePath, FilesLeft

(* The entry of a directory that is pinned from, and of one that gains.    *)
LEMMA PinFacts ==
  ASSUME ArchiveTypeOK, Pin PROVE onCard' \in Seq(Files) /\ Len(onCard') = Len(onCard)
<1>0. ArchiveNumbers /\ ArchivePath
  BY ArchiveFacts
<1>1. CASE UNCHANGED onCard
  BY <1>0, <1>1 DEF ArchivePath
<1>2. CASE Last(onCard) > 0 /\ SetOnCard(Last(onCard) - 1)
  <2>1. Last(onCard) - 1 \in Files
    BY <1>0, <1>2 DEF ArchiveNumbers, ArchivePath
  <2>2. QED
    BY <1>2, <2>1, SetOnCardFacts
<1>3. ASSUME NEW d \in 1..(Len(onCard) - 1), onCard[d] < MaxFiles, Last(onCard) > 0,
             onCard' = [onCard EXCEPT ![d] = @ + 1, ![Len(onCard)] = @ - 1]
      PROVE  onCard' \in Seq(Files) /\ Len(onCard') = Len(onCard)
  <2> DEFINE n == Len(onCard)
             a == onCard[d] + 1
             z == onCard[n] - 1
  <2>1. n \in Nat /\ n >= 1 /\ onCard \in [1..n -> Files] /\ d \in 1..n /\ d # n
    BY <1>0, <1>3 DEF ArchivePath
  <2>2. a \in Files /\ z \in Files
    <3>1. onCard[d] \in 0..MaxFiles /\ onCard[n] \in 0..MaxFiles /\ onCard[n] > 0
      BY <1>0, <1>3, <2>1 DEF ArchiveNumbers, ArchivePath
    <3>2. MaxFiles \in Nat /\ Files = 0..MaxFiles /\ onCard[d] < MaxFiles
      BY <1>0, <1>3 DEF ArchiveNumbers
    <3> HIDE DEF n
    <3>3. QED
      BY <3>1, <3>2
  <2>3. onCard' = [onCard EXCEPT ![d] = a, ![n] = z]
    BY <1>3, <2>1
  <2> HIDE DEF n, a, z
  <2>4. onCard' \in [1..n -> Files]
    BY <2>1, <2>2, <2>3
  <2>5. onCard' \in Seq(Files)
    BY <2>1, <2>4, SeqDef
  <2>6. Len(onCard') = n
    BY <2>1, <2>4, <2>5
  <2>7. QED
    BY <2>5, <2>6 DEF n
<1>4. QED
  BY <1>1, <1>2, <1>3 DEF Pin

LEMMA PinStep == ASSUME ArchiveIInv, Pin PROVE ArchiveIInv'
<1>0. ArchiveNumbers /\ ArchivePath
  BY ArchiveFacts DEF ArchiveIInv
<1> USE DEF ArchiveIInv
<1>1. /\ menu' = FALSE /\ menu /\ ~renaming
      /\ UNCHANGED <<files, idx, last_idx, depth, entered, renaming>>
      /\ outdated' = TRUE \/ UNCHANGED <<onCard, outdated>>
  BY DEF Pin, Choosing
<1>2. onCard' \in Seq(Files) /\ Len(onCard') = Len(onCard)
  BY PinFacts
<1>3. ArchiveTypeOK'
  BY NextTypes, <1>0, <1>1, <1>2 DEF ArchiveNumbers, ArchivePath
<1>4. QED
  BY <1>1, <1>3 DEF SelectedExists, Remembers, InList, ListsTheCard

(* A file is renamed or deleted.                                           *)
LEMMA FileSteps == ASSUME ArchiveIInv, EndRename \/ Delete PROVE ArchiveIInv'
<1>0. ArchiveNumbers /\ ArchivePath
  BY ArchiveFacts DEF ArchiveIInv
<1> USE DEF ArchiveIInv
<1>1. CASE EndRename /\ UNCHANGED <<files, onCard, outdated>>
  <2>1. renaming' = FALSE /\ UNCHANGED <<idx, last_idx, depth, entered, menu, files, onCard, outdated>>
    BY <1>1 DEF EndRename
  <2>2. QED
    BY <2>1 DEF ArchiveTypeOK, SelectedExists, Remembers, InList, ListsTheCard
<1>2. ASSUME NEW n \in FilesLeft, SetOnCard(n), files' \in Listing(n),
             idx' \in 0..(MaxFiles + 1), menu' \in BOOLEAN, renaming' \in BOOLEAN,
             outdated' \in BOOLEAN, outdated => outdated',
             UNCHANGED <<last_idx, depth, entered>>, SelectedExists', renaming' => menu'
      PROVE  ArchiveIInv'
  <2>1. n \in Files
    BY FilesLeftType
  <2>2. /\ files' \in 0..n /\ onCard' \in Seq(Files) /\ Len(onCard') = Len(onCard)
        /\ onCard'[Len(onCard)] = n /\ \A i \in 1..(Len(onCard) - 1) : onCard'[i] = onCard[i]
    BY <1>2, <2>1, SetOnCardFacts DEF Listing
  <2>3. files' \in 0..MaxFiles /\ files' <= n
    BY <1>0, <2>1, <2>2 DEF ArchiveNumbers
  <2>4. ArchiveTypeOK'
    BY NextTypes, <1>0, <1>2, <2>2, <2>3 DEF ArchiveNumbers, ArchivePath
  <2>5. ~outdated' => InList' /\ ListsTheCard'
    BY <1>0, <1>2, <2>2, <2>3 DEF ArchivePath, InList, ListsTheCard
  <2>6. QED
    BY <1>2, <2>4, <2>5 DEF Remembers
<1>3. CASE EndRename /\ ~UNCHANGED <<files, onCard, outdated>>
  <2>1. PICK n \in FilesLeft : SetOnCard(n) /\ files' \in Listing(n) /\ outdated' = (outdated \/ files' < files)
    BY <1>3 DEF EndRename
  <2>2. renaming' = FALSE /\ UNCHANGED <<idx, last_idx, depth, entered, menu>>
    BY <1>3 DEF EndRename
  <2>3. files \in Nat /\ idx \in Nat /\ files' \in Nat
    BY <1>0, <2>1, FilesLeftType DEF ArchiveNumbers, Listing
  <2>4. menu
    BY <1>3 DEF EndRename
  <2>5. SelectedExists'
    <3>1. SUFFICES ASSUME ~outdated', depth = Len(entered) PROVE idx < files'
      BY <2>2 DEF SelectedExists
    <3>2. ~outdated /\ ~(files' < files)
      BY <2>1, <3>1, Zenon
    <3>3. idx < files
      BY <2>4, <3>1, <3>2 DEF SelectedExists
    <3>4. QED
      BY <2>3, <3>2, <3>3
  <2>6. QED
    BY <1>0, <1>2, <2>1, <2>2, <2>4, <2>5 DEF ArchiveNumbers
<1>4. CASE Delete
  <2>1. PICK n \in FilesLeft : SetOnCard(n) /\ files' \in Listing(n)
    BY <1>4 DEF Delete
  <2>2. /\ idx' = Clamp(idx, files') /\ menu' = FALSE /\ renaming = FALSE
        /\ UNCHANGED <<last_idx, depth, entered, renaming, outdated>>
    BY <1>0, <1>4 DEF Delete, Choosing, ArchiveNumbers
  <2>3. files' \in 0..(MaxFiles + 1) /\ idx \in 0..(MaxFiles + 1)
    BY <1>0, <2>1, FilesLeftType DEF ArchiveNumbers, Listing
  <2>4. idx' \in 0..(MaxFiles + 1) /\ (files' > 0 => idx' < files')
    BY <2>2, <2>3, ClampBounds
  <2>5. SelectedExists'
    BY <2>2, <2>4 DEF SelectedExists
  <2>6. QED
    BY <1>0, <1>2, <2>1, <2>2, <2>4, <2>5 DEF ArchiveNumbers
<1>5. QED
  BY <1>1, <1>3, <1>4

-----------------------------------------------------------------------------
LEMMA ArchiveIInvInit == ArchiveInit => ArchiveIInv
<1>1. SUFFICES ASSUME ArchiveInit PROVE ArchiveIInv
  OBVIOUS
<1>2. PICK n \in Files : onCard = <<n>> /\ files \in 0..n
  BY <1>1 DEF ArchiveInit, Listing
<1>3. onCard \in Seq(Files) /\ Len(onCard) = 1 /\ onCard[1] = n
  BY <1>2
<1>4. /\ idx = 0 /\ last_idx = [d \in 0..(MAX_DEPTH - 1) |-> 0] /\ depth = 0 /\ menu = FALSE
      /\ renaming = FALSE /\ outdated = FALSE
      /\ entered = <<>> /\ entered \in Seq(Files) /\ Len(entered) = 0
  BY <1>1 DEF ArchiveInit
<1>5. ArchiveTypeOK
  <2>1. last_idx \in [0..(MAX_DEPTH - 1) -> 0..(MaxFiles + 1)]
    BY <1>4, ArchiveAssumption
  <2>2. files \in Files
    BY <1>2, ArchiveAssumption DEF Files
  <2>3. Len(onCard) = Len(entered) + 1 /\ 0 \in 0..MAX_DEPTH /\ 0 \in 0..(MaxFiles + 1)
    BY <1>3, <1>4, ArchiveAssumption
  <2>4. {menu, renaming, outdated} \subseteq BOOLEAN
    BY <1>4
  <2>5. QED
    BY <1>3, <1>4, <2>1, <2>2, <2>3, <2>4 DEF ArchiveTypeOK, BrowserDepths
<1>6. SelectedExists /\ Remembers /\ InList /\ ListsTheCard
  BY <1>2, <1>3, <1>4, ArchiveAssumption DEF SelectedExists, Remembers, InList, ListsTheCard, Files
<1>7. QED
  BY <1>4, <1>5, <1>6 DEF ArchiveIInv

LEMMA ArchiveIInvStep == ArchiveIInv /\ [ArchiveNext]_archiveVars => ArchiveIInv'
<1>1. SUFFICES ASSUME ArchiveIInv, [ArchiveNext]_archiveVars PROVE ArchiveIInv'
  OBVIOUS
<1>2. CASE ArchiveNext
  BY <1>1, <1>2, MoveSteps, SwitchTabStep, EnterDirStep, LeaveDirStep, MenuSteps, PinStep,
     FileSteps
     DEF ArchiveNext, FileMenu
<1>3. CASE UNCHANGED archiveVars
  BY <1>1, <1>3 DEF archiveVars, ArchiveIInv, ArchiveTypeOK, SelectedExists, Remembers, InList,
                   ListsTheCard
<1>4. QED
  BY <1>1, <1>2, <1>3

THEOREM ArchiveInvariance == ArchiveSpec => []ArchiveIInv
BY ArchiveIInvInit, ArchiveIInvStep, PTL DEF ArchiveSpec

(* For directories of any size and nesting, with failing reads, pins and   *)
(* renames: as long as the path has not outgrown last_idx and no list has  *)
(* outlived its files or come back in part, files_array_get is never       *)
(* called for a file that is not in the list.                              *)
THEOREM SelectedFileExists == ArchiveSpec => []SelectedExists
<1>1. ArchiveIInv => SelectedExists
  BY DEF ArchiveIInv
<1>2. QED
  BY <1>1, ArchiveInvariance, PTL

(* archive_leave_dir selects the directory that archive_enter_dir entered, *)
(* whatever was pinned, renamed or deleted below it, as long as the path   *)
(* has not outgrown last_idx.                                              *)
THEOREM LeavingReturns == ArchiveSpec => BackReturns
<1>1. ArchiveIInv /\ [ArchiveNext]_archiveVars =>
        [LeaveDir /\ depth = Len(entered) => idx' = Last(entered)]_archiveVars
  BY LeaveDirStep
<1>2. QED
  BY <1>1, ArchiveInvariance, PTL DEF BackReturns, ArchiveSpec

-----------------------------------------------------------------------------
(* MCData: a step of the sum is a step of one component, and the others    *)
(* stay where they are.                                                    *)

(* timings[6] of both decoders never overflows, and the variables of the   *)
(* archive and of the lists keep their types.                              *)
THEOREM DataTypeCorrect == DataSpec => []DataTypeOK
<1>1. DataInit => FilesInit /\ IrdaInit /\ ArchiveInit /\ ListsInit
  BY DEF DataInit
<1>2. [DataNext]_dataVars =>
        /\ [FilesNext]_filesVars /\ [IrdaNext]_irdaVars
        /\ [ArchiveNext]_archiveVars /\ [ListsNext]_listsVars
  BY DEF DataNext, dataVars, LoaderOnly, FilesOnly, IrdaOnly, ArchiveOnly, ListsOnly
<1>3. FilesTypeOK /\ IrdaTypeOK /\ ArchiveIInv /\ ListsIInv => DataTypeOK
  BY DEF ArchiveIInv, ListsIInv, DataTypeOK
<1>4. QED
  BY <1>1, <1>2, <1>3, FilesTypeCorrect, IrdaBuffersFit, ArchiveInvariance, ListsInvariance, PTL
     DEF DataSpec, FilesSpec, IrdaSpec, ArchiveSpec, ListsSpec
===============================================================================
