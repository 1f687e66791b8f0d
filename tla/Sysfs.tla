------------------------------- MODULE Sysfs --------------------------------
(***************************************************************************)
(* How the SG driver learns from /sys that a drive sits behind a JMicron   *)
(* bridge (src/plat-linux/sysfs_utils.cc, apt_detect of apt.cc).  Three    *)
(* attributes are read one after the other; the path of the drive's entry  *)
(* is kept in a static variable, under the device number it was found for. *)
(*                                                                         *)
(* Drives come and go between any two steps.  A descriptor is dead once    *)
(* its drive is gone, while a path leads to whatever is there now.         *)
(***************************************************************************)
EXTENDS Integers, Sequences

CONSTANTS
  Disk,     \* the entries of /sys/block that there may be
  Part,     \* those of partitions, one level below
  DiskOf,   \* DiskOf[p]: the disk of partition p
  Number,   \* Number[n]: major and minor number of node n, which it always has
  JMicron,  \* drives behind a JMicron bridge
  Usb,      \* drives behind another USB bridge
  Sata,     \* drives that are not on USB
  None

Node == Disk \cup Part
Drive == JMicron \cup Usb \cup Sata

ASSUME SysfsAssumption ==
  /\ DiskOf \in [Part -> Disk] /\ Disk \cap Part = {}
  /\ \A n, m \in Node : Number[n] = Number[m] => n = m
  /\ JMicron \cap (Usb \cup Sata) = {} /\ None \notin Drive \cup Node
  /\ \A n, m \in Node : None # [number |-> Number[n], path |-> m]

VARIABLES
  at,    \* at[k]: the drive that is disk k at the moment
  fd,    \* the descriptor: the node it was opened by and the drive it is on
  prev,  \* sysfs_find_fd's static variables, None if not have_prev
  ids    \* the drives that the attributes read so far belong to

sysfsVars == <<at, fd, prev, ids>>

HomeOf(n) == IF n \in Part THEN DiskOf[n] ELSE n
Behind(n) == at[HomeOf(n)]
Present(d) == \E k \in Disk : at[k] = d

\* An ioctl reaches the drive behind the descriptor.
Alive == fd # None /\ fd.drive # None

\* The entries that the search below /sys/block finds for the number of node
\* n.  It goes into a disk's own directory only if the major number is right.
sysfs_find_dev(n) ==
  {m \in Node :
    /\ Behind(m) # None
    /\ Number[m] = Number[n]
    /\ Number[HomeOf(m)][1] = Number[n][1]}

\* (Mutant: the kept path is used whatever number it was found for.)
sysfs_find_fd_Always ==
  IF prev # None
  THEN UNCHANGED prev
  ELSE prev' = IF sysfs_find_dev(fd.node) = {} THEN None
               ELSE [number |-> Number[fd.node], path |-> CHOOSE m \in sysfs_find_dev(fd.node) : TRUE]

\* The path for the descriptor, kept for the next time if it was found.
sysfs_find_fd ==
  IF prev # None /\ prev.number = Number[fd.node]
  THEN UNCHANGED prev
  ELSE prev' = IF sysfs_find_dev(fd.node) = {} THEN None
               ELSE [number |-> Number[fd.node], path |-> CHOOSE m \in sysfs_find_dev(fd.node) : TRUE]

\* Whether the attribute is found from the path upwards, at the USB bridge,
\* which is less than 20 directories up.
sysfs_find_attr_file_path(path) == Behind(path) \in JMicron \cup Usb

\* The drive whose attribute is read; None if nothing is found.
sysfs_get_attr_recursive ==
  IF prev' # None /\ sysfs_find_attr_file_path(prev'.path) THEN Behind(prev'.path) ELSE None

\* One sysfs_get_attr_recursive of apt_detect.
ReadAttr ==
  /\ sysfs_find_fd
  /\ ids' = Append(ids, sysfs_get_attr_recursive)
  /\ UNCHANGED <<at, fd>>

\* apt_detect is through: with the first error, or with idVendor, idProduct
\* and bcdDevice.
AllRead == ids # <<>> /\ (ids[Len(ids)] = None \/ Len(ids) = 3)

\* apt_usb_id_map knows the bridge by its vendor and product (the versions
\* only tell entries of the same product apart, and there are none).
Known == Len(ids) = 3 /\ ids[1] \in JMicron /\ ids[2] \in JMicron /\ ids[3] # None

Unplug(k) ==
  /\ at[k] # None
  /\ at' = [at EXCEPT ![k] = None]
  /\ fd' = IF fd # None /\ HomeOf(fd.node) = k THEN [fd EXCEPT !.drive = None] ELSE fd
  /\ UNCHANGED <<prev, ids>>

Plug(k, d) ==
  /\ at[k] = None /\ ~Present(d)
  /\ at' = [at EXCEPT ![k] = d]
  /\ UNCHANGED <<fd, prev, ids>>
=============================================================================
