----------------------------- MODULE PassThrough ----------------------------
(***************************************************************************)
(* Every driver behind one promise: what a caller may conclude from the    *)
(* result of a driver handle, its buffer and its taskfile.                 *)
(***************************************************************************)
EXTENDS SgIo, WinIo

vars == <<callVars, linuxVars>>

\* An SG handle is opened by the model; the others are there (WinDrive and
\* LinuxDrive open them).
Init ==
  /\ driver \in LinuxDrivers \cup WinDrivers
  /\ CallInit
  /\ at \in IF driver = "sg" THEN [Disk -> Drive \cup {None}] ELSE {[k \in Disk |-> None]}
  /\ \A k, l \in Disk : at[k] = at[l] /\ at[k] # None => k = l
  /\ fd = None /\ prev = None /\ ids = <<>>
  /\ phase = IF driver = "sg" THEN "closed" ELSE "open"
  /\ is_apt = FALSE /\ port = FALSE

\* The program calls an open handle: the DriveHandle forwards.
Call(r) ==
  /\ phase = "open" /\ pc = "idle"
  /\ Begin(r)
  /\ UNCHANGED <<driver, linuxVars>>

\* The program has its result.
Take ==
  /\ phase = "open" /\ pc = "return"
  /\ Forget
  /\ UNCHANGED <<driver, linuxVars>>

Hotplug ==
  /\ driver = "sg"
  /\ \E k \in Disk : Unplug(k) \/ \E d \in Drive : Plug(k, d)
  /\ UNCHANGED <<callVars, sgVars>>

Windows ==
  /\ \/ ScsiCall \/ AtaCall \/ NvmeWinCall \/ LogCall \/ WinUnsupported
     \/ WinKernel
     \/ ScsiReturn \/ AtaReturn \/ NvmeWinReturn \/ LogReturn
  /\ UNCHANGED linuxVars

Next ==
  \/ \E n \in Node : SgOpen(n)
  \/ DetectRead \/ Detect \/ OpenCall \/ RegistersRead \/ Identified \/ Close
  \/ \E r \in Tasks \cup Others : Call(r)
  \/ SgCall \/ NvmeCall \/ SgKernel \/ NvmeKernel \/ SgReturn \/ NvmeReturn
  \/ Windows
  \/ Take \/ Hotplug

Spec == Init /\ [][Next]_vars

-----------------------------------------------------------------------------
(* Properties *)

Ok == pc = "return" /\ res.code = "OK"

\* What the drivers leave out of account.  On Linux: the SCSI status behind a
\* JMicron bridge, and a CHECK CONDITION that is not announced as DRIVER SENSE
\* and brings no ATA status.  On Windows: sense data without the Valid bit, sense
\* data of a command without data, that ScsiDriver's taskfiles ask for nothing,
\* the ATA status of a second try, the completion of an NVMe command, and that
\* a miniport command only ever reads.
Overlooked ==
  \/ cdb.type = "jmicron" /\ reply.scsi # "good"
  \/ driver = "sg" /\ reply.err /\ reply.drv = "none" /\ reply.sense # "desc"
  \/ ~Explicit
  \/ driver \in WinDrivers /\ Scsi /\ reply.err /\ (reply.sense = "novalid" \/ req.dir = "none")
  \/ driver = "ata" /\ Buffered /\ reply.err
  \/ driver = "nvmewin" /\ (reply.err \/ ~Reached)

\* A call that returns DPARME_OK was carried out by the drive, whichever driver
\* and however many tries; the exceptions are those above and no others.
OkIsEarned == Ok => ran > 0 \/ Overlooked

\* With DPARME_OK the buffer holds the drive's data, all of it unless a Windows
\* NVMe driver was asked for more than it has room for; and what is to be
\* written stays as it was, except through the miniport.
DataIsTheDrives ==
  /\ Ok /\ req.dir = "in" /\ ~Overlooked =>
       buf = IF req.long /\ driver \in WinDrivers THEN "part" ELSE "drive"
  /\ req.dir = "out" /\ driver # "nvmewin" => buf = "caller"

\* The registers that sanitize and READ NATIVE MAX go by are the drive's when
\* the SG driver says DPARME_OK: they are demanded, and sense data without room
\* for them fails the call.  Only when none is announced, although it was
\* demanded, they are not (sgio.cc says "results may be incorrect").
RegistersAreTheDrives ==
  Ok /\ req.kind = "taskfile" /\ req.dir = "none" /\ driver = "sg" /\ ~is_apt =>
    \/ regs = "drive"
    \/ cdb.check /\ reply.drv = "none" /\ reply.sense # "desc"

\* A failure is one of the ioctl, the transport, the bridge or the drive: no
\* driver makes an error of a command that went well.  A bridge without room
\* for registers only fails commands that need them, and a JMicron bridge has
\* no 48-bit commands at all.
FailureIsReal ==
  pc = "return" /\ res.code \in {"SYS", "ATA_FAILED", "NVME_FAILED", "IOCTL_FAILED"} =>
    \/ cdb.type # "none" /\ (~reply.io \/ BadTransport \/ reply.err)
    \/ is_apt /\ req.ext /\ cdb.type = "none"
    \/ reply.drv = "sense" /\ reply.sense # "desc" /\ req.dir = "none"

\* A drive is taken for one behind a JMicron bridge exactly if it is, although
\* its attributes are read one by one, by a path that was kept from another
\* drive, while drives come and go.  A node whose major number is not its
\* disk's is not found in /sys.
BridgeIsRight ==
  phase \in {"registers", "identify", "open"} /\ driver = "sg" /\ Alive
  /\ Number[fd.node][1] = Number[HomeOf(fd.node)][1]
    => (is_apt <=> fd.drive \in JMicron)

=============================================================================
