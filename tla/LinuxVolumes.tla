---------------------------- MODULE LinuxVolumes -----------------------------
(***************************************************************************)
(* The mounted volumes of a Linux machine and the search for those of a    *)
(* drive (src/plat-linux/volume_finder.cc).                                *)
(*                                                                         *)
(* A device is the sequence of the characters of its name behind /dev/sd:  *)
(* the drive sda is <<"a">>, its partition sda1 is <<"a", "1">> and the    *)
(* 27th drive is sdaa.  A line of /proc/mounts gives a device, where it is *)
(* mounted and its file system; fgets cuts a line of 512 characters or     *)
(* more, and what is left of it, rest words (3 stands for more), is taken  *)
(* for another; 0 if the line is not cut.  (The bounds: what is left comes *)
(* in one piece, and the cut is behind the file system.)                   *)
(***************************************************************************)
EXTENDS Integers, Sequences

\* What is left of a long line: the rest of its options and two zeros, as far as
\* there are so many words.
Rest == [device |-> <<"rest">>, dir |-> "0", filesystem |-> "0"]

\* (Mutant: a device has the mount point of its last line.)
AddLineOver(list, line) ==
  [device \in DOMAIN list \cup {line.device} |->
     IF device # line.device THEN list[device]
     ELSE [filesystem |-> line.filesystem, mount_points |-> <<line.dir>>]]

\* The first line of a device gives it its file system, each a mount point.
AddLine(list, line) ==
  [device \in DOMAIN list \cup {line.device} |->
     IF device # line.device THEN list[device]
     ELSE IF device \in DOMAIN list
          THEN [list[device] EXCEPT !.mount_points = Append(list[device].mount_points, line.dir)]
     ELSE [filesystem |-> line.filesystem, mount_points |-> <<line.dir>>]]

\* fgets makes two lines of a long one.
AddLines(list, line) ==
  LET more == AddLine(list, line)
  IN  IF line.rest > 0 THEN AddLine(more, Rest) ELSE more

NoVolumes == [device \in {} |-> Rest]

\* LinuxEnumVolumesContext::init: the list after each line of the file.
VolumeLists(mounts) ==
  LET list[n \in 0 .. Len(mounts)] ==
        IF n = 0 THEN NoVolumes ELSE AddLines(list[n - 1], mounts[n])
  IN  list

\* A string made of nothing ends the program: a mount point there is not, or the
\* file system of a device that is not listed yet.
Crashes(mounts) ==
  \E n \in DOMAIN mounts :
    \/ mounts[n].rest = 1
    \/ mounts[n].rest = 2 /\ Rest.device \notin DOMAIN VolumeLists(mounts)[n - 1]

VolumeList(mounts) == VolumeLists(mounts)[Len(mounts)]

\* Volumes are found by the beginning of their device's path.
Begins(device, path) ==
  Len(path) <= Len(device) /\ \A i \in 1 .. Len(path) : device[i] = path[i]

findVolumesByDrive(list, device_path) ==
  [device \in {d \in DOMAIN list : Begins(d, device_path)} |-> list[device]]

-----------------------------------------------------------------------------
(* The kernel's names *)

\* A partition has the name of its drive and a number.
Digit == {"0", "1", "2"}
IsPartition(device, drive) ==
  /\ Begins(device, drive) /\ Len(device) > Len(drive)
  /\ \A i \in Len(drive) + 1 .. Len(device) : device[i] \in Digit

\* Where a device is mounted, by the first n lines of the file.
MountPointsOf(mounts, device) ==
  LET dirs[n \in 0 .. Len(mounts)] ==
        IF n = 0 THEN <<>>
        ELSE IF mounts[n].device = device THEN Append(dirs[n - 1], mounts[n].dir) ELSE dirs[n - 1]
  IN  dirs

MountPoints(mounts, device) == MountPointsOf(mounts, device)[Len(mounts)]
=============================================================================
