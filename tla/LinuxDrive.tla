----------------------------- MODULE LinuxDrive -----------------------------
(***************************************************************************)
(* Opening, enumerating and closing drives on Linux                        *)
(* (src/plat-linux/drive_factory.cc and the drivers below it), down to the *)
(* file descriptors.  The factory asks the NVMe driver and then the SG     *)
(* driver; each opens a descriptor of its own, talks to the drive and      *)
(* hands out a driver handle that holds the descriptor.                    *)
(*                                                                         *)
(* The kernel gives out the lowest free descriptor, so a number that was   *)
(* closed comes back as another drive.  Drives come and go at any time; a  *)
(* descriptor stays with the drive it was opened on.                       *)
(***************************************************************************)
EXTENDS Integers, FiniteSets

CONSTANTS
  Path,     \* the names under /dev, which are those in /sys/block
  Ata,      \* the ATA drives
  Nvme,     \* the NVMe drives
  Scsi,     \* the other block devices with a name: disks without ATA behind them
  Handle,   \* the DriveHandle objects of the program
  Scratch,  \* the DriveHandle of the loop in enumDrives
  MaxFd,    \* the process may have descriptors up to here
  None      \* no drive, no driver, no result

\* 0 is standard input: the drivers take a descriptor of 0 for none.
Fd == 3 .. MaxFd
Drive == Ata \cup Nvme \cup Scsi
Object == Handle \cup {Scratch}

\* A driver handle: the driver it belongs to and the descriptor it holds.
Driver == [name : {"nvme", "sg"}, fd : Fd]

ASSUME LinuxAssumption ==
  /\ MaxFd \in Nat
  /\ Ata \cap Nvme = {} /\ Scsi \cap (Ata \cup Nvme) = {} /\ None \notin Drive
  /\ Scratch \notin Handle /\ None \notin Object \cup Driver

VARIABLES
  at,       \* at[p]: the drive that is p at the moment
  open,     \* open[f]: the drive descriptor f is open on
  alive,    \* the DriveHandle objects there are
  driver,   \* driver[h]: handle_ of object h, a driver's name and descriptor
  failed,   \* failed[h]: last_error_ is an error
  about,    \* about[h]: the drive that was asked for what drive_info_ holds
  blank,    \* blank[h]: the identification in it is one of zeros
  pc,       \* where the thread is
  cur,      \* the object being opened
  path,     \* drive_path
  fd,       \* the descriptor of the open() under way
  todo,     \* the entries of /sys/block that enumDrives has not read
  list,     \* result_list
  stayed,   \* history: names that kept their drive since enumDrives began
  leaked    \* history: descriptors whose owner was destroyed

objVars == <<alive, driver, failed, about, blank>>
callVars == <<cur, path, fd>>
enumVars == <<todo, list>>
vars == <<at, open, objVars, pc, callVars, enumVars, stayed, leaked>>

Present(d) == \E p \in Path : at[p] = d

Init ==
  /\ at \in [Path -> Drive \cup {None}]
  /\ \A p, q \in Path : at[p] = at[q] /\ at[p] # None => p = q
  /\ open = [f \in Fd |-> None]
  /\ alive = {}
  /\ driver = [h \in Object |-> None]
  /\ failed = [h \in Object |-> FALSE]
  /\ about = [h \in Object |-> None]
  /\ blank = [h \in Object |-> FALSE]
  /\ pc = "idle"
  /\ cur = Scratch
  /\ path \in Path
  /\ fd = 0
  /\ todo = {}
  /\ list = {}
  /\ stayed = {}
  /\ leaked = {}

-----------------------------------------------------------------------------
(* Descriptors *)

Free == {f \in Fd : open[f] = None}
Lowest(S) == CHOOSE f \in S : \A g \in S : f <= g

\* ::open fails if there is no such drive or no descriptor.
CanOpen == at[path] # None /\ Free # {}

OpenFd ==
  /\ fd' = Lowest(Free)
  /\ open' = [open EXCEPT ![fd'] = at[path]]

CloseFd(f) == open' = [open EXCEPT ![f] = None]

-----------------------------------------------------------------------------
(* The factory's open *)

Call(h, p, in) ==
  /\ cur' = h
  /\ path' = p
  /\ fd' = 0
  /\ pc' = in

Open(h, p) ==
  /\ pc = "idle"
  /\ h \in Handle \ alive
  /\ Call(h, p, "nvmeOpen")
  /\ UNCHANGED <<at, open, objVars, enumVars, stayed, leaked>>

NvmeOpen ==
  /\ pc = "nvmeOpen"
  /\ \/ CanOpen /\ OpenFd /\ pc' = "nvmeId"
     \/ ~CanOpen /\ pc' = "sgOpen" /\ UNCHANGED <<open, fd>>
  /\ UNCHANGED <<at, objVars, cur, path, enumVars, stayed, leaked>>

\* The drive behind the descriptor answers an ioctl meant for drives in S.
Answers(S) == open[fd] \in S /\ Present(open[fd])

\* (Mutant: the descriptor of a drive that is no NVMe drive stays open.)
NvmeIdKeeps ==
  /\ pc = "nvmeId"
  /\ pc' = IF Answers(Nvme) THEN "nvmeIdentify" ELSE "sgOpen"
  /\ UNCHANGED <<at, open, objVars, callVars, enumVars, stayed, leaked>>

\* NVME_IOCTL_ID tells NVMe drives from others.
NvmeId ==
  /\ pc = "nvmeId"
  /\ \/ /\ Answers(Nvme)
        /\ pc' = "nvmeIdentify"
        /\ UNCHANGED open
     \/ /\ ~Answers(Nvme)
        /\ CloseFd(fd)
        /\ pc' = "sgOpen"
  /\ UNCHANGED <<at, objVars, callVars, enumVars, stayed, leaked>>

\* The object of the open() under way gets its driver handle.
Made(name, zeros) ==
  /\ alive' = alive \cup {cur}
  /\ driver' = [driver EXCEPT ![cur] = [name |-> name, fd |-> fd]]
  /\ failed' = [failed EXCEPT ![cur] = FALSE]
  /\ about' = [about EXCEPT ![cur] = open[fd]]
  /\ blank' = [blank EXCEPT ![cur] = zeros]
  /\ pc' = IF cur = Scratch THEN "listing" ELSE "idle"

\* readIdentify may fail.  The driver handle it leaves is then overwritten by
\* the SG driver's result, and its destructor closes nothing.
NvmeIdentify ==
  /\ pc = "nvmeIdentify"
  /\ \/ /\ Answers(Nvme)
        /\ Made("nvme", FALSE)
        /\ UNCHANGED leaked
     \/ /\ pc' = "sgOpen"
        /\ leaked' = leaked \cup {fd}
        /\ UNCHANGED objVars
  /\ UNCHANGED <<at, open, callVars, enumVars, stayed>>

\* The factory has no driver left: the object has no driver handle.
Refuse ==
  /\ alive' = alive \cup {cur}
  /\ driver' = [driver EXCEPT ![cur] = None]
  /\ failed' = [failed EXCEPT ![cur] = TRUE]
  /\ about' = [about EXCEPT ![cur] = None]
  /\ blank' = [blank EXCEPT ![cur] = FALSE]
  /\ pc' = IF cur = Scratch THEN "listing" ELSE "idle"

SgOpen ==
  /\ pc = "sgOpen"
  /\ \/ /\ CanOpen /\ OpenFd
        /\ pc' = "sgIdentify"
        /\ UNCHANGED objVars
     \/ /\ ~CanOpen
        /\ Refuse
        /\ UNCHANGED <<open, fd>>
  /\ UNCHANGED <<at, cur, path, enumVars, stayed, leaked>>

\* IDENTIFY DEVICE.  Only a return of -1 counts: any disk, or its bridge, that
\* refuses the command without an ATA status of its own (sgio.cc returns 1 or 0
\* then) gets a driver handle, with the zeros that the buffer was filled with.
SgIdentify ==
  /\ pc = "sgIdentify"
  /\ \/ /\ Answers(Ata)
        /\ Made("sg", FALSE)
        /\ UNCHANGED open
     \/ /\ Answers(Drive)
        /\ Made("sg", TRUE)
        /\ UNCHANGED open
     \/ /\ CloseFd(fd)
        /\ Refuse
  /\ UNCHANGED <<at, callVars, enumVars, stayed, leaked>>

-----------------------------------------------------------------------------
(* The objects *)

\* (Mutant: the object keeps its driver handle, and the driver its number.)
CloseKeeps(h) ==
  /\ pc = "idle"
  /\ h \in Handle /\ driver[h] # None
  /\ CloseFd(driver[h].fd)
  /\ UNCHANGED <<at, objVars, pc, callVars, enumVars, stayed, leaked>>

\* close() does nothing to an object that is not open.
Close(h) ==
  /\ pc = "idle"
  /\ h \in Handle /\ driver[h] # None
  /\ CloseFd(driver[h].fd)
  /\ driver' = [driver EXCEPT ![h] = None]
  /\ UNCHANGED <<at, alive, failed, about, blank, pc, callVars, enumVars, stayed, leaked>>

\* No destructor closes a descriptor.
Bury(h) ==
  /\ alive' = alive \ {h}
  /\ driver' = [driver EXCEPT ![h] = None]
  /\ failed' = [failed EXCEPT ![h] = FALSE]
  /\ about' = [about EXCEPT ![h] = None]
  /\ blank' = [blank EXCEPT ![h] = FALSE]
  /\ leaked' = IF driver[h] = None THEN leaked ELSE leaked \cup {driver[h].fd}

Destroy(h) ==
  /\ pc = "idle"
  /\ h \in Handle \cap alive
  /\ Bury(h)
  /\ UNCHANGED <<at, open, pc, callVars, enumVars, stayed>>

-----------------------------------------------------------------------------
(* enumDrives *)

\* The directory, whose own descriptor is not counted, or the error number of
\* opendir, with which enumDrives returns at once.
EnumDrives ==
  /\ pc = "idle"
  /\ \/ /\ pc' = "reading"
        /\ todo' = Path
        /\ stayed' = {p \in Path : at[p] # None}
     \/ /\ pc' = "noDir"
        /\ UNCHANGED <<todo, stayed>>
  /\ UNCHANGED <<at, open, objVars, callVars, list, leaked>>

\* (Mutant: the loop ends with the first entry that is no block device.)
ReadEntryStops ==
  /\ pc = "reading"
  /\ \E p \in todo :
       IF at[p] = None
       THEN todo' = {} /\ UNCHANGED <<pc, callVars>>
       ELSE todo' = todo \ {p} /\ Call(Scratch, p, "nvmeOpen")
  /\ UNCHANGED <<at, open, objVars, list, stayed, leaked>>

\* An entry without a block device behind it is passed over.
ReadEntry ==
  /\ pc = "reading"
  /\ \E p \in todo :
       /\ todo' = todo \ {p}
       /\ IF at[p] = None
          THEN UNCHANGED <<pc, callVars>>
          ELSE Call(Scratch, p, "nvmeOpen")
  /\ UNCHANGED <<at, open, objVars, list, stayed, leaked>>

\* The result is taken and the object goes out of scope.
List ==
  /\ pc = "listing"
  /\ list' = list \cup {[path |-> path, failed |-> failed[Scratch], about |-> about[Scratch],
                         blank |-> blank[Scratch]]}
  /\ Bury(Scratch)
  /\ pc' = "reading"
  /\ UNCHANGED <<at, open, callVars, todo, stayed>>

\* The caller takes the list.
EnumReturns ==
  /\ pc \in {"reading", "noDir"}
  /\ todo = {}
  /\ pc' = "idle"
  /\ list' = {}
  /\ stayed' = {}
  /\ UNCHANGED <<at, open, objVars, callVars, todo, leaked>>

-----------------------------------------------------------------------------
(* The machine *)

Unplug(p) ==
  /\ at[p] # None
  /\ at' = [at EXCEPT ![p] = None]
  /\ stayed' = stayed \ {p}
  /\ UNCHANGED <<open, objVars, pc, callVars, enumVars, leaked>>

Plug(p, d) ==
  /\ at[p] = None
  /\ ~Present(d)
  /\ at' = [at EXCEPT ![p] = d]
  /\ UNCHANGED <<open, objVars, pc, callVars, enumVars, stayed, leaked>>

Thread ==
  \/ \E h \in Handle, p \in Path : Open(h, p)
  \/ NvmeOpen \/ NvmeId \/ NvmeIdentify \/ SgOpen \/ SgIdentify
  \/ \E h \in Handle : Close(h) \/ Destroy(h)
  \/ EnumDrives \/ ReadEntry \/ List \/ EnumReturns

Next == Thread \/ \E p \in Path : Unplug(p) \/ \E d \in Drive : Plug(p, d)

Spec == Init /\ [][Next]_vars

-----------------------------------------------------------------------------
(* Properties *)

\* The variables have their types.
TypeOK ==
  /\ at \in [Path -> Drive \cup {None}]
  /\ open \in [Fd -> Drive \cup {None}]
  /\ alive \subseteq Object
  /\ driver \in [Object -> Driver \cup {None}]
  /\ failed \in [Object -> BOOLEAN]
  /\ about \in [Object -> Drive \cup {None}]
  /\ blank \in [Object -> BOOLEAN]
  /\ cur \in Object /\ path \in Path /\ fd \in Fd \cup {0}
  /\ todo \subseteq Path /\ stayed \subseteq Path /\ leaked \subseteq Fd

Owned == {driver[h].fd : h \in {o \in Object : driver[o] # None}}
Local == IF pc \in {"nvmeId", "nvmeIdentify", "sgIdentify"} THEN {fd} ELSE {}

\* An object that is open has a descriptor to itself, which is open on the very
\* drive that was asked for what drive_info_ holds: also when descriptors were
\* closed and given out again, and drives were exchanged.  The driver is the one
\* for such drives, except that the SG driver takes any disk and knows nothing
\* of it then.
OwnDescriptor ==
  \A h \in Object : driver[h] # None =>
    /\ open[driver[h].fd] = about[h] /\ about[h] # None
    /\ about[h] \in (IF driver[h].name = "nvme" THEN Nvme ELSE Ata) \/ (driver[h].name = "sg" /\ blank[h])
    /\ \A g \in Object : driver[g] # None /\ driver[g].fd = driver[h].fd => g = h
    /\ driver[h].fd \notin Local \cup leaked

\* Every open descriptor belongs to an object, or to the open() under way, or
\* is lost in one of the three ways in which the code loses them: an object
\* destroyed while open, one that enumDrives opened, an NVMe drive that could
\* not be identified.  Nothing else leaks, however open() fails.
Accounted == {f \in Fd : open[f] # None} = Owned \cup Local \cup leaked

\* isOpen() and getError() agree: an object that failed to open has no driver
\* handle, one that did not fail has had one until it was closed.
ErrorAgrees ==
  \A h \in alive : failed[h] => driver[h] = None /\ about[h] = None

\* When enumDrives finds its directory it lists every drive that was there all
\* along, each with its own identification, or with an error, or, without an
\* error, with the zeros that stand for one the SG driver could not read; no
\* disk without ATA or NVMe is listed with an identification.
Enumerates ==
  pc = "reading" /\ todo = {} =>
    \A p \in stayed : \E e \in list :
      /\ e.path = p
      /\ e.failed \/ (e.about = at[p] /\ (at[p] \in Ata \cup Nvme \/ e.blank))
=============================================================================
