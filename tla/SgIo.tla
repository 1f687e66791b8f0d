-------------------------------- MODULE SgIo --------------------------------
(***************************************************************************)
(* The Linux drivers below their ioctls: the SG driver with SCSI-ATA       *)
(* pass-through (src/plat-linux/sgio.cc), with JMicron's own pass-through  *)
(* (apt.cc), and the NVMe driver.                                          *)
(*                                                                         *)
(* Some bridges answer with sense data in the fixed format, which has no   *)
(* room for the ATA registers, or send none, also when it is demanded.     *)
(***************************************************************************)
EXTENDS DriverCall, Sysfs

CONSTANT FixedSense  \* the drives with sense data in the fixed format

VARIABLES
  phase,   \* "closed", "detect", "registers", "identify", "open"
  is_apt,  \* apt_data.is_apt
  port     \* apt_data.jmicron.port: it was found

sgVars == <<phase, is_apt, port>>
linuxVars == <<sysfsVars, sgVars>>

LinuxDrivers == {"sg", "nvme"}

-----------------------------------------------------------------------------
(* SgDriver::open *)

\* The descriptor, and apt_detect begins.
SgOpen(n) ==
  /\ driver = "sg" /\ phase = "closed" /\ pc = "idle"
  /\ Behind(n) # None
  /\ fd' = [node |-> n, drive |-> Behind(n)]
  /\ ids' = <<>>
  /\ is_apt' = FALSE /\ port' = FALSE
  /\ phase' = "detect"
  /\ UNCHANGED <<callVars, at, prev>>

DetectRead ==
  /\ phase = "detect" /\ ~AllRead
  /\ ReadAttr
  /\ UNCHANGED <<callVars, sgVars>>

\* A known bridge gets its init function called.
Detect ==
  /\ phase = "detect" /\ AllRead
  /\ is_apt' = Known
  /\ phase' = IF is_apt' THEN "registers" ELSE "identify"
  /\ ids' = <<>>
  /\ UNCHANGED <<callVars, at, fd, prev, port>>

\* get_registers, a read of one byte; then the IDENTIFY of open.
OpenCall ==
  /\ phase \in {"registers", "identify"} /\ pc = "idle"
  /\ Begin(IdentifyTask)
  /\ UNCHANGED <<driver, linuxVars>>

\* The byte tells the port; open does not ask whether it did, and the bridge
\* stays one whose port is 0 then.
RegistersRead ==
  /\ phase = "registers" /\ pc = "return"
  /\ port' \in (IF res.code = "OK" THEN BOOLEAN ELSE {FALSE})
  /\ phase' = "identify"
  /\ Forget
  /\ UNCHANGED <<driver, sysfsVars, is_apt>>

\* Only a return of -1 fails the open.
Identified ==
  /\ phase = "identify" /\ pc = "return"
  /\ IF res.code = "SYS"
     THEN phase' = "closed" /\ fd' = None
     ELSE phase' = "open" /\ UNCHANGED fd
  /\ Forget
  /\ UNCHANGED <<driver, at, prev, ids, is_apt, port>>

Close ==
  /\ driver = "sg" /\ phase = "open" /\ pc = "idle"
  /\ fd' = None
  /\ phase' = "closed"
  /\ UNCHANGED <<callVars, at, prev, ids, is_apt, port>>

-----------------------------------------------------------------------------
(* sg16, apt_sg16 and do_sg_ata, up to their ioctl *)

\* doTaskfileCmd chooses the protocol if the caller does not.
Dma == IF req.dma < 0 THEN is_dma(req.op) ELSE req.dma > 0

Proto ==
  IF req.dir = "none" THEN "nodata"
  ELSE IF Dma THEN "dma" ELSE IF req.dir = "in" THEN "pioin" ELSE "pioout"

\* (Mutants: sense data is never demanded; it is demanded always.)
sg16CheckNever ==
  /\ cdb' = [type |-> "ata16", proto |-> Proto, ext |-> req.ext, check |-> FALSE]
  /\ buf' = Cleared

sg16CheckAlways ==
  /\ cdb' = [type |-> "ata16", proto |-> Proto, ext |-> req.ext, check |-> TRUE]
  /\ buf' = Cleared

\* Sense data, which brings the registers, is demanded unless there is data.
sg16 ==
  /\ cdb' = [type |-> "ata16", proto |-> Proto, ext |-> req.ext, check |-> req.dir = "none"]
  /\ buf' = Cleared

\* JMicron's command has no protocol and no room for the 48-bit registers.
apt_sg16 ==
  /\ cdb' = [type |-> "jmicron", proto |-> "none", ext |-> FALSE, check |-> FALSE]
  /\ UNCHANGED buf

do_sg_ata ==
  /\ cdb' = [type |-> "raw", proto |-> "none", ext |-> FALSE, check |-> FALSE]
  /\ buf' = Cleared

Served(kinds) == req.kind \in kinds

\* A JMicron bridge refuses 48-bit commands before anything is sent.
SgCall ==
  /\ driver = "sg" /\ pc = "called"
  /\ \/ /\ Served({"taskfile"}) /\ is_apt /\ req.ext
        /\ Finish("SYS", "EBADE") /\ UNCHANGED <<cdb, buf>>
     \/ /\ Served({"taskfile"}) /\ is_apt /\ ~req.ext
        /\ apt_sg16 /\ pc' = "ioctl" /\ UNCHANGED res
     \/ /\ Served({"taskfile"}) /\ ~is_apt
        /\ sg16 /\ pc' = "ioctl" /\ UNCHANGED res
     \/ /\ Served({"cdb"})
        /\ do_sg_ata /\ pc' = "ioctl" /\ UNCHANGED res
     \/ /\ ~Served({"taskfile", "cdb"})
        /\ Unsupported /\ UNCHANGED <<cdb, buf>>
  /\ UNCHANGED <<driver, req, try, reply, regs, ran, linuxVars>>

NvmeCall ==
  /\ driver = "nvme" /\ pc = "called"
  /\ IF Served({"admin", "io"})
     THEN cdb' = [NoCdb EXCEPT !.type = "nvme"] /\ pc' = "ioctl" /\ UNCHANGED res
     ELSE Unsupported /\ UNCHANGED cdb
  /\ UNCHANGED <<driver, req, try, reply, buf, regs, ran, linuxVars>>

-----------------------------------------------------------------------------
(* The kernel, the bridge and the drive *)

\* The translation layer takes the command for what it is.  Every bridge takes
\* a raw command of the program; ports of a JMicron bridge have to be right.
Understood ==
  CASE cdb.type = "ata16"   -> fd.drive \notin JMicron /\ cdb.proto = StandardProto(req)
                                 /\ cdb.ext = (req.op \in StandardExt)
    [] cdb.type = "jmicron" -> fd.drive \in JMicron /\ (phase = "registers" \/ port)
    [] OTHER                -> TRUE

CarriedOut ==
  /\ ran' = ran + 1
  /\ buf' = IF req.dir = "in" THEN "drive" ELSE buf

Untouched == UNCHANGED <<ran, buf>>

Sense == IF fd.drive \in FixedSense \cup JMicron THEN "fixed" ELSE "desc"

GoodReply == Reply(TRUE, FALSE, "good", "none", "none", FALSE)

\* A CHECK CONDITION, with or without sense data, which the kernel may or may
\* not announce as DRIVER SENSE.
Checked(err) ==
  \E drv \in {"sense", "none"}, sense \in {Sense, "none"} :
    reply' = Reply(TRUE, FALSE, "check", drv, sense, err)

\* What SG_IO can come back with: the drive carries the command out, or
\* refuses it; it is busy; the transport or the ioctl fails, before or after
\* the drive was done.
SgKernel ==
  /\ driver = "sg" /\ pc = "ioctl"
  /\ pc' = "reply"
  /\ \/ /\ Alive /\ Understood
        /\ CarriedOut
        /\ \/ reply' = GoodReply
           \/ cdb.check /\ Checked(FALSE)
     \/ /\ Alive
        /\ Untouched
        /\ \/ Checked(TRUE)
           \/ reply' = Reply(TRUE, FALSE, "busy", "none", "none", FALSE)
     \/ /\ Untouched \/ (Alive /\ Understood /\ CarriedOut)
        /\ \/ reply' = Reply(FALSE, FALSE, "good", "none", "none", FALSE)
           \/ reply' = Reply(TRUE, TRUE, "good", "none", "none", FALSE)
           \/ reply' = Reply(TRUE, FALSE, "good", "bad", "none", FALSE)
  /\ UNCHANGED <<driver, req, try, cdb, res, regs, linuxVars>>

\* NVME_IOCTL_ADMIN_CMD and NVME_IOCTL_IO_CMD return the NVMe status.
NvmeKernel ==
  /\ driver = "nvme" /\ pc = "ioctl"
  /\ pc' = "reply"
  /\ \/ CarriedOut /\ reply' = Reply(TRUE, FALSE, "good", "none", "none", FALSE)
     \/ Untouched /\ reply' = Reply(TRUE, FALSE, "good", "none", "none", TRUE)
     \/ (CarriedOut \/ Untouched) /\ reply' = Reply(FALSE, FALSE, "good", "none", "none", FALSE)
  /\ UNCHANGED <<driver, req, try, cdb, res, regs, linuxVars>>

-----------------------------------------------------------------------------
(* ... and after it *)

BadTransport == reply.scsi = "busy" \/ reply.host \/ reply.drv = "bad"

\* (Mutant: sense data is not asked for the ATA status.)
SgOutcomeDeaf ==
  CASE ~reply.io                                  -> Result("SYS", "ioctl")
    [] reply.io /\ BadTransport                   -> Result("SYS", "EBADE")
    [] OTHER                                      -> Result("OK", "none")

\* The return value of sg16 and do_sg_ata, and errno with it.  DRIVER SENSE
\* without the descriptor for ATA makes it 1, whatever the command's fate; a
\* descriptor that is there is read, announced or not.
SgOutcome ==
  CASE ~reply.io                                  -> Result("SYS", "ioctl")
    [] reply.io /\ BadTransport                   -> Result("SYS", "EBADE")
    [] reply.io /\ ~BadTransport /\ reply.sense = "desc" /\ reply.err
                                                  -> Result("SYS", "EIO")
    [] reply.io /\ ~BadTransport /\ reply.drv = "sense" /\ reply.sense # "desc"
                                                  -> Result("ATA_FAILED", "none")
    [] OTHER                                      -> Result("OK", "none")

\* do_sg_ata looks at the same, in its own words; it has no registers.
RawOutcome == SgOutcome

\* The registers come from the descriptor, or from where it would be: bytes of
\* another meaning, or the zeros that the sense buffer was filled with.
SgRegs ==
  IF ~reply.io \/ BadTransport THEN regs
  ELSE CASE reply.sense = "desc"  -> "drive"
         [] reply.sense = "fixed" -> "junk"
         [] reply.sense = "none"  -> "zeros"

\* apt_jmicron_int_sg has no look at the SCSI status.
JMicronOutcome ==
  CASE ~reply.io                                     -> Result("SYS", "ioctl")
    [] reply.io /\ (reply.host \/ reply.drv # "none") -> Result("SYS", "EBADE")
    [] OTHER                                         -> Result("OK", "none")

SgReturn ==
  /\ driver = "sg" /\ pc = "reply"
  /\ pc' = "return"
  /\ \/ cdb.type = "jmicron" /\ res' = JMicronOutcome /\ UNCHANGED regs
     \/ cdb.type = "raw" /\ res' = RawOutcome /\ UNCHANGED regs
     \/ cdb.type = "ata16" /\ res' = SgOutcome /\ regs' = SgRegs
  /\ UNCHANGED <<driver, req, try, cdb, reply, buf, ran, linuxVars>>

NvmeReturn ==
  /\ driver = "nvme" /\ pc = "reply"
  /\ IF ~reply.io THEN Finish("IOCTL_FAILED", "ioctl")
     ELSE IF reply.err THEN Finish("NVME_FAILED", "none") ELSE Finish("OK", "none")
  /\ UNCHANGED <<driver, req, try, cdb, reply, buf, regs, ran, linuxVars>>
=============================================================================
