------------------------------ MODULE WinDrive ------------------------------
(***************************************************************************)
(* Opening, enumerating and closing drives on Windows                      *)
(* (src/plat-win/drive_factory.cc, physical_drive_finder.cc,               *)
(* volume_finder.cc and the drivers' open()), with what DriveHandleBase    *)
(* does after an open to identify the drive.  (Level 0 Discovery, its last *)
(* step, is in module Discovery.)                                          *)
(*                                                                         *)
(* A drive is \\.\PhysicalDriveN for its number N, and sits behind an      *)
(* adapter \\.\ScsiP: for a port P; both change when drives are exchanged, *)
(* while an open handle stays with its drive.  The NVMe driver for vendor  *)
(* miniports works on the port, the others on the drive.                   *)
(***************************************************************************)
EXTENDS Integers, Sequences, FiniteSets, FiniteSetsExt

CONSTANTS
  Num,       \* disk numbers, which stand for the paths \\.\PhysicalDriveN
  Port,      \* SCSI ports
  Vendor,    \* NVMe drives with a vendor's miniport driver
  Inbox,     \* NVMe drives with the driver of Windows
  Ata,       \* ATA drives
  Hnd,       \* the Windows handles of the process
  Object,    \* the DriveHandle objects of the program
  Scratch,   \* the DriveHandle of the loop in enumDrives
  Volume,    \* volumes
  Lies,      \* Lies[v]: the drives volume v lies on, in order
  MaxMoves,  \* drives are plugged or unplugged at most so often
  Blank,     \* the identification of zeros
  None       \* no drive, no handle, no driver

Drive == Vendor \cup Inbox \cup Ata
Handles == Object \cup {Scratch}

\* The drivers that open anything, and their driver handles.
Names == {"nvmeWin", "windowsNvme", "scsi", "ata"}
Driver == [name : Names, handle : Hnd]

\* Where the thread is, besides at a port or with a volume open.
Places == {"idle", "open", "identify", "merge", "inquiry", "listing", "finding", "enumerating", "volumes"}

ASSUME WinAssumption ==
  /\ Num \subseteq Nat /\ Num # {} /\ MaxMoves \in Nat
  /\ Lies \in [Volume -> Seq(Drive)] /\ \A v \in Volume : Lies[v] # <<>>
  /\ {Blank, None} \cap Drive = {} /\ Blank # None /\ None \notin Hnd \cup Driver
  /\ Scratch \notin Object /\ Port \cap Places = {} /\ Volume \cap (Places \cup Port) = {}

VARIABLES
  at,       \* at[n]: the drive with number n
  behind,   \* behind[p]: the drive behind port p
  moves,    \* drives plugged and unplugged so far
  open,     \* open[w]: the drive that handle w is open on
  alive,    \* the DriveHandle objects there are
  driver,   \* driver[h]: handle_ of object h, a driver's name and its handle
  failed,   \* failed[h]: last_error_ is an error
  about,    \* about[h]: the drive that drive_info_'s serial and model name
  number,   \* number[h]: windows_dev_num
  pc,       \* where the thread is
  cur,      \* the object being opened
  try,      \* the driver being tried
  disk,     \* the disk number in the path being opened
  wh,       \* the handle of the driver's open() under way
  todo,     \* the disk interfaces that enumPhysicalDrives has not read
  devices,  \* devices, less those opened
  list,     \* result_list
  volumes,  \* the volumes of the EnumVolumesContext, with their extents
  then,     \* history: then[v] is what at was when the extents of v were read
  calm,     \* history: no drive was moved during the open under way
  stayed,   \* history: drives that were not moved since enumDrives began
  leaked    \* history: handles whose owner was destroyed

machine == <<at, behind, moves>>
objVars == <<alive, driver, failed, about, number>>
callVars == <<cur, try, disk, wh>>
enumVars == <<todo, devices, list>>
volVars == <<volumes, then>>
history == <<calm, stayed, leaked>>
vars == <<machine, open, objVars, pc, callVars, enumVars, volVars, history>>

Present(d) == \E n \in Num : at[n] = d

NoVolumes == [v \in {} |-> <<>>]
Unread == [n \in Num |-> None]

Placed(place) == \A x, y \in DOMAIN place : place[x] = place[y] /\ place[x] # None => x = y

Init ==
  /\ at \in [Num -> Drive \cup {None}] /\ Placed(at)
  /\ behind \in [Port -> Drive \cup {None}] /\ Placed(behind)
  /\ {at[n] : n \in Num} \ {None} = {behind[p] : p \in Port} \ {None}
  /\ moves = 0
  /\ open = [w \in Hnd |-> None]
  /\ alive = {}
  /\ driver = [h \in Handles |-> None]
  /\ failed = [h \in Handles |-> FALSE]
  /\ about = [h \in Handles |-> None]
  /\ number = [h \in Handles |-> -1]
  /\ pc = "idle"
  /\ cur = Scratch /\ try = "nvmeWin" /\ disk = Min(Num) /\ wh = None
  /\ todo = {} /\ devices = {} /\ list = {}
  /\ volumes = NoVolumes /\ then = [v \in Volume |-> Unread]
  /\ calm = TRUE /\ stayed = {} /\ leaked = {}

-----------------------------------------------------------------------------
(* Handles *)

Free == {w \in Hnd : open[w] = None}

CreateFile(d) ==
  \E w \in Free :
    /\ wh' = w
    /\ open' = [open EXCEPT ![w] = d]

CloseHandle(w) == open' = [open EXCEPT ![w] = None]

-----------------------------------------------------------------------------
(* The factory's open: the drivers in turn, until one succeeds *)

Call(h, n) ==
  /\ cur' = h /\ disk' = n /\ wh' = None
  /\ try' = "nvmeWin" /\ pc' = "open"
  /\ calm' = TRUE

Open(h, n) ==
  /\ pc = "idle"
  /\ h \in Object \ alive
  /\ Free # {}
  /\ Call(h, n)
  /\ UNCHANGED <<machine, open, objVars, enumVars, volVars, stayed, leaked>>

After(name) ==
  CASE name = "nvmeWin" -> "samsung" [] name = "samsung" -> "windowsNvme"
    [] name = "windowsNvme" -> "scsi" [] name = "scsi" -> "ata"

\* The object exists, with a driver handle or without one.
Become(handle, error) ==
  /\ alive' = alive \cup {cur}
  /\ driver' = [driver EXCEPT ![cur] = handle]
  /\ failed' = [failed EXCEPT ![cur] = error]

\* The open returns: its locals are gone (the loop of enumDrives has its disk).
Return ==
  /\ pc' = IF cur = Scratch THEN "listing" ELSE "idle"
  /\ cur' = Scratch /\ try' = "nvmeWin" /\ wh' = None
  /\ disk' = IF cur = Scratch THEN disk ELSE Min(Num)
  /\ calm' = TRUE

\* A driver's open() failed: the next one, or an object without a driver.
NextDriver ==
  \/ /\ try = "ata"
     /\ Become(None, TRUE)
     /\ Return
  \/ /\ try # "ata"
     /\ try' = After(try) /\ pc' = "open" /\ wh' = None
     /\ UNCHANGED <<alive, driver, failed, cur, disk, calm>>

\* getScsiPath: the port of the drive, by a handle of its own.
GetScsiPath ==
  /\ pc = "open" /\ try = "nvmeWin"
  /\ \/ /\ at[disk] # None
        /\ \E p \in Port : behind[p] = at[disk] /\ pc' = p
        /\ UNCHANGED <<alive, driver, failed, callVars, calm>>
     \/ NextDriver
  /\ UNCHANGED <<machine, open, about, number, enumVars, volVars, stayed, leaked>>

OpenPort ==
  /\ pc \in Port
  /\ \/ /\ behind[pc] # None
        /\ CreateFile(behind[pc])
        /\ pc' = "identify"
        /\ UNCHANGED <<alive, driver, failed, cur, try, disk, calm>>
     \/ /\ behind[pc] = None
        /\ NextDriver
        /\ UNCHANGED open
  /\ UNCHANGED <<machine, about, number, enumVars, volVars, stayed, leaked>>

\* The Samsung driver's open() always fails.
Samsung ==
  /\ pc = "open" /\ try = "samsung"
  /\ NextDriver
  /\ UNCHANGED <<machine, open, about, number, enumVars, volVars, stayed, leaked>>

OpenDrive ==
  /\ pc = "open" /\ try \in {"windowsNvme", "scsi", "ata"}
  /\ \/ /\ at[disk] # None
        /\ CreateFile(at[disk])
        /\ pc' = "identify"
        /\ UNCHANGED <<alive, driver, failed, cur, try, disk, calm>>
     \/ /\ at[disk] = None
        /\ NextDriver
        /\ UNCHANGED open
  /\ UNCHANGED <<machine, about, number, enumVars, volVars, stayed, leaked>>

\* What the driver may take for the identification of drive d.  The SCSI driver
\* overlooks a refusal whose sense data is not marked valid, that for vendor
\* miniports any refusal by the drive: its identification is then the zeros of
\* the buffer.
Identifications(d) ==
  CASE try = "nvmeWin" -> IF d \in Vendor THEN {d, Blank} ELSE {}
    [] try = "windowsNvme" -> {d} \cap Inbox
    [] try = "ata" -> {d} \cap Ata
    [] try = "scsi" -> ({d} \cap Ata) \cup {Blank}

Identified ==
  /\ Present(open[wh])
  /\ \E id \in Identifications(open[wh]) : about' = [about EXCEPT ![cur] = id]
  /\ Become([name |-> try, handle |-> wh], FALSE)
  /\ pc' = "merge"
  /\ UNCHANGED <<open, callVars, calm>>

\* (Mutant: a driver that failed keeps its handle.)
IdentifyKeeps ==
  /\ pc = "identify"
  /\ \/ Identified
     \/ NextDriver /\ UNCHANGED <<open, about>>
  /\ UNCHANGED <<machine, number, enumVars, volVars, stayed, leaked>>

\* The drive identifies itself, or the handle is closed.
Identify ==
  /\ pc = "identify"
  /\ \/ Identified
     \/ CloseHandle(wh) /\ NextDriver /\ UNCHANGED about
  /\ UNCHANGED <<machine, number, enumVars, volVars, stayed, leaked>>

-----------------------------------------------------------------------------
(* afterOpen *)

Numbers(d) == {n \in Num : at[n] = d}

\* (Mutant: every driver falls back on the number in the path.)
MergeByPath ==
  /\ pc = "merge"
  /\ number' = [number EXCEPT ![cur] = disk]
  /\ \/ about[cur] = Blank /\ pc' = "inquiry" /\ UNCHANGED <<callVars, calm>>
     \/ about[cur] # Blank /\ Return
  /\ UNCHANGED <<machine, open, alive, driver, failed, about, enumVars, volVars, stayed, leaked>>

\* mergeDriveInfo: the number of the handle's disk.  A port has none, and the
\* NVMe driver for vendor miniports then takes the number in the path.
Merge ==
  /\ pc = "merge"
  /\ \E n \in {-1} \cup Numbers(open[wh]) :
       number' = [number EXCEPT ![cur] = IF try = "nvmeWin" THEN disk ELSE n]
  /\ \/ about[cur] = Blank /\ pc' = "inquiry" /\ UNCHANGED <<callVars, calm>>
     \/ about[cur] # Blank /\ Return
  /\ UNCHANGED <<machine, open, alive, driver, failed, about, enumVars, volVars, stayed, leaked>>

\* The identification has no serial number: the inquiry may give one.
Inquiry ==
  /\ pc = "inquiry"
  /\ \/ Present(open[wh]) /\ about' = [about EXCEPT ![cur] = open[wh]]
     \/ UNCHANGED about
  /\ Return
  /\ UNCHANGED <<machine, open, alive, driver, failed, number, enumVars, volVars, stayed, leaked>>

-----------------------------------------------------------------------------
(* The objects *)

\* (Mutant: the object keeps its driver, and the driver its handle.)
CloseKeeps(h) ==
  /\ pc = "idle"
  /\ h \in Object /\ driver[h] # None
  /\ CloseHandle(driver[h].handle)
  /\ UNCHANGED <<machine, objVars, pc, callVars, enumVars, volVars, history>>

\* close() does nothing to an object that is not open.
Close(h) ==
  /\ pc = "idle"
  /\ h \in Object /\ driver[h] # None
  /\ CloseHandle(driver[h].handle)
  /\ driver' = [driver EXCEPT ![h] = None]
  /\ UNCHANGED <<machine, alive, failed, about, number, pc, callVars,
                 enumVars, volVars, history>>

\* No destructor closes a handle.
Bury(h) ==
  /\ alive' = alive \ {h}
  /\ driver' = [driver EXCEPT ![h] = None]
  /\ failed' = [failed EXCEPT ![h] = FALSE]
  /\ about' = [about EXCEPT ![h] = None]
  /\ number' = [number EXCEPT ![h] = -1]
  /\ leaked' = IF driver[h] = None THEN leaked ELSE leaked \cup {driver[h].handle}

Destroy(h) ==
  /\ pc = "idle"
  /\ h \in Object \cap alive
  /\ Bury(h)
  /\ UNCHANGED <<machine, open, pc, callVars, enumVars, volVars, calm, stayed>>

-----------------------------------------------------------------------------
(* enumDrives *)

\* SetupDiGetClassDevs: the interfaces of the disks there are.  The bound: the
\* call begins while there is a handle for every disk and one to spare.
EnumDrives ==
  /\ pc = "idle"
  /\ Cardinality(Free) > Cardinality(Num)
  /\ pc' = "finding"
  /\ todo' = {d \in Drive : Present(d)}
  /\ stayed' = {d \in Drive : Present(d)}
  /\ UNCHANGED <<machine, open, objVars, callVars, devices, list, volVars, calm, leaked>>

\* (Mutant: the loop ends at a disk that cannot be opened.)
FindDeviceStops ==
  /\ pc = "finding"
  /\ \E d \in todo :
       /\ todo' = IF Present(d) THEN todo \ {d} ELSE {}
       /\ devices' = devices \cup Numbers(d)
  /\ UNCHANGED <<machine, open, objVars, pc, callVars, list, volVars, history>>

\* A disk that is gone is passed over; the handle is closed again.
FindDevice ==
  /\ pc = "finding"
  /\ \E d \in todo :
       /\ todo' = todo \ {d}
       /\ devices' = devices \cup Numbers(d)
  /\ UNCHANGED <<machine, open, objVars, pc, callVars, list, volVars, history>>

Found ==
  /\ pc = "finding" /\ todo = {}
  /\ pc' = "enumerating"
  /\ UNCHANGED <<machine, open, objVars, callVars, enumVars, volVars, history>>

OpenDevice ==
  /\ pc = "enumerating"
  /\ \E n \in devices :
       /\ devices' = devices \ {n}
       /\ Call(Scratch, n)
  /\ UNCHANGED <<machine, open, objVars, todo, list, volVars, stayed, leaked>>

\* The result is taken and the object goes out of scope.
List ==
  /\ pc = "listing"
  /\ list' = list \cup {[disk |-> disk, failed |-> failed[Scratch], about |-> about[Scratch]]}
  /\ Bury(Scratch)
  /\ pc' = "enumerating" /\ disk' = Min(Num)
  /\ UNCHANGED <<machine, open, cur, try, wh, todo, devices, volVars, calm, stayed>>

EnumReturns ==
  /\ pc = "enumerating" /\ devices = {}
  /\ pc' = "idle"
  /\ list' = {} /\ stayed' = {}
  /\ UNCHANGED <<machine, open, objVars, callVars, todo, devices, volVars, calm, leaked>>

-----------------------------------------------------------------------------
(* Volumes *)

Number(d) == CHOOSE n \in Num : at[n] = d

\* The drives of a volume are all there.
Online(v) == \A i \in DOMAIN Lies[v] : Present(Lies[v][i])

\* enumVolumes begins with an empty list.
EnumVolumes ==
  /\ pc = "idle"
  /\ pc' = "volumes"
  /\ volumes' = NoVolumes /\ then' = [v \in Volume |-> Unread]
  /\ UNCHANGED <<machine, open, objVars, callVars, enumVars, history>>

\* A volume is opened; FindNextVolume gives them in any order, and one that is
\* not there or cannot be opened is passed over.
OpenVolume(v) ==
  /\ pc = "volumes"
  /\ v \notin DOMAIN volumes /\ Online(v)
  /\ pc' = v
  /\ UNCHANGED <<machine, open, objVars, callVars, enumVars, volVars, history>>

\* It is listed, with the numbers of its drives, or without them if it does not
\* tell; its handle is closed again.
ReadExtents ==
  /\ pc \in Volume
  /\ \E told \in {FALSE} \cup {Online(pc)} :
       LET extents == IF told THEN [i \in DOMAIN Lies[pc] |-> Number(Lies[pc][i])] ELSE <<>>
       IN  /\ volumes' = [v \in DOMAIN volumes \cup {pc} |-> IF v = pc THEN extents ELSE volumes[v]]
           /\ then' = [then EXCEPT ![pc] = IF told THEN at ELSE Unread]
  /\ pc' = "volumes"
  /\ UNCHANGED <<machine, open, objVars, callVars, enumVars, history>>

VolumesEnd ==
  /\ pc = "volumes"
  /\ pc' = "idle"
  /\ UNCHANGED <<machine, open, objVars, callVars, enumVars, volVars, history>>

\* (Mutant: any extent of the volume counts.)
findVolumesAny(n) == {v \in DOMAIN volumes : \E i \in DOMAIN volumes[v] : volumes[v][i] = n}

\* findVolumesByDrive: the volumes whose first extent has the number.
findVolumesByDrive(n) == {v \in DOMAIN volumes : volumes[v] # <<>> /\ Head(volumes[v]) = n}

-----------------------------------------------------------------------------
(* The machine *)

Move ==
  /\ moves < MaxMoves
  /\ moves' = moves + 1
  /\ calm' = (pc \in {"idle", "listing", "finding", "enumerating", "volumes"} \cup Volume)
  /\ UNCHANGED <<open, objVars, pc, callVars, enumVars, volVars, leaked>>

Unplug(n) ==
  /\ at[n] # None
  /\ at' = [at EXCEPT ![n] = None]
  /\ behind' = [p \in Port |-> IF behind[p] = at[n] THEN None ELSE behind[p]]
  /\ stayed' = stayed \ {at[n]}
  /\ Move

Plug(n, p, d) ==
  /\ at[n] = None /\ behind[p] = None /\ ~Present(d)
  /\ at' = [at EXCEPT ![n] = d]
  /\ behind' = [behind EXCEPT ![p] = d]
  /\ UNCHANGED stayed
  /\ Move

Next ==
  \/ \E h \in Object, n \in Num : Open(h, n)
  \/ GetScsiPath \/ OpenPort \/ Samsung \/ OpenDrive \/ Identify
  \/ Merge \/ Inquiry
  \/ \E h \in Object : Close(h) \/ Destroy(h)
  \/ EnumDrives \/ FindDevice \/ Found \/ OpenDevice \/ List \/ EnumReturns
  \/ EnumVolumes \/ (\E v \in Volume : OpenVolume(v)) \/ ReadExtents \/ VolumesEnd
  \/ \E n \in Num : Unplug(n) \/ \E p \in Port, d \in Drive : Plug(n, p, d)

Spec == Init /\ [][Next]_vars

-----------------------------------------------------------------------------
(* Properties *)

\* The variables of the machine, of the handles and of the objects have their
\* types.
TypeOK ==
  /\ at \in [Num -> Drive \cup {None}] /\ behind \in [Port -> Drive \cup {None}]
  /\ open \in [Hnd -> Drive \cup {None}]
  /\ alive \subseteq Handles
  /\ driver \in [Handles -> Driver \cup {None}]
  /\ failed \in [Handles -> BOOLEAN]
  /\ about \in [Handles -> Drive \cup {Blank, None}]
  /\ number \in [Handles -> Int]
  /\ cur \in Handles /\ try \in Names \cup {"samsung"} /\ disk \in Num
  /\ leaked \subseteq Hnd

Owned == {driver[h].handle : h \in {o \in Handles : driver[o] # None}}
Local == IF pc = "identify" THEN {wh} ELSE {}

\* An object that is open has a handle to itself, which is open on the very
\* drive that drive_info_ names (or on one that gave no identification): also
\* when handles were closed and given out again, and numbers and ports changed
\* hands between the drivers' attempts.
OwnHandle ==
  \A h \in Handles : driver[h] # None =>
    /\ open[driver[h].handle] # None
    /\ about[h] \in {open[driver[h].handle], Blank}
    /\ \A g \in Handles : driver[g] # None /\ driver[g].handle = driver[h].handle => g = h
    /\ driver[h].handle \notin Local \cup leaked

\* Every open handle belongs to an object, or to the open() under way, or was
\* lost with an object destroyed while open, as enumDrives does with each
\* drive.  Five drivers may fail in turn and leave nothing behind.
Accounted == {w \in Hnd : open[w] # None} = Owned \cup Local \cup leaked

\* isOpen() and getError() agree, and an object that failed tells nothing of a
\* drive: no serial and no number.
ErrorAgrees ==
  \A h \in alive : failed[h] => driver[h] = None /\ about[h] = None /\ number[h] = -1

\* windows_dev_num is the number of the drive the object is open on: always
\* for the drivers that ask the handle, for the one on the port unless drives
\* were exchanged during the open.
NumberIsTheDrives ==
  [][\A h \in Handles :
       /\ number'[h] # number[h] /\ number'[h] # -1
       /\ calm \/ try # "nvmeWin"
       => at[number'[h]] = open[driver[h].handle]]_vars

\* enumDrives lists every drive that was not moved since it began, as itself,
\* without identification, or with an error.
Enumerates ==
  pc = "enumerating" /\ devices = {} =>
    \A d \in stayed : \E e \in list :
      at[e.disk] = d /\ (e.failed \/ e.about \in {d, Blank})

\* A volume is found for an object exactly if it begins on the drive that had the
\* object's number when that volume was read, whatever had it when others were:
\* so on the object's own drive, if that had its number at that moment, and never
\* if none had.  (While drives move, two volumes found for one object may begin
\* on two drives.)
VolumesAreTheDrives ==
  \A h \in alive, v \in DOMAIN volumes :
    LET d == IF number[h] = -1 THEN None ELSE then[v][number[h]]
        found == v \in findVolumesByDrive(number[h])
    IN  found <=> d = Head(Lies[v])
=============================================================================
