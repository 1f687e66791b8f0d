-------------------------------- MODULE WinIo -------------------------------
(***************************************************************************)
(* The Windows drivers around DeviceIoControl                              *)
(* (src/plat-win/drivers): SCSI and ATA pass-through, each tried with the  *)
(* caller's buffer and then with a copy, NVMe commands through a miniport  *)
(* driver, and the protocol queries of Windows' own NVMe driver.           *)
(*                                                                         *)
(* The sense data of a refusal need not have the Valid bit, which speaks   *)
(* of its INFORMATION field.                                               *)
(***************************************************************************)
EXTENDS DriverCall

WinDrivers == {"scsi", "ata", "nvmewin", "winnvme"}

\* What the drivers' handles override.
Overrides ==
  [scsi    |-> {"taskfile", "security"},
   ata     |-> {"taskfile"},
   nvmewin |-> {"admin"},
   winnvme |-> {"security", "log"}]

Scsi == driver = "scsi" \/ req.kind = "security"
Buffered == try = 1

\* SCSI commands say nothing of 48 bits, not even those that carry a taskfile.
Sent(type) ==
  /\ cdb' = [NoCdb EXCEPT !.type = type, !.ext = type # "scsi" /\ req.ext]
  /\ pc' = "ioctl"
  /\ UNCHANGED <<driver, req, try, reply, res, regs, ran>>

\* The first try of SCSI pass-through: ScsiDriver's taskfiles, and IF-SEND and
\* IF-RECV of two drivers.
ScsiCall ==
  /\ pc = "called"
  /\ \/ driver = "scsi" /\ req.kind = "taskfile"
     \/ driver \in {"scsi", "winnvme"} /\ req.kind = "security"
  /\ Sent("scsi")
  /\ buf' = Cleared

\* The first try of ATA pass-through.
AtaCall ==
  /\ pc = "called" /\ driver = "ata" /\ req.kind = "taskfile"
  /\ Sent("ata")
  /\ buf' = Cleared

\* Commands for the miniport and log queries have a buffer of their own.
NvmeWinCall ==
  /\ pc = "called" /\ driver = "nvmewin" /\ req.kind = "admin"
  /\ Sent("nvme")
  /\ UNCHANGED buf

LogCall ==
  /\ pc = "called" /\ driver = "winnvme" /\ req.kind = "log"
  /\ Sent("query")
  /\ UNCHANGED buf

WinUnsupported ==
  /\ pc = "called" /\ driver \in WinDrivers
  /\ req.kind \notin Overrides[driver]
  /\ Unsupported
  /\ UNCHANGED <<driver, req, try, cdb, reply, buf, regs, ran>>

-----------------------------------------------------------------------------
(* The kernel and the drive *)

\* The miniport is told to read, so that what the caller sends stays behind.
Reached == driver = "nvmewin" => req.dir # "out"

\* The drive's data is in the caller's buffer as soon as it is read; through
\* a copy, or out of the ioctl's own buffer, only once the ioctl returned.
Own == req.kind \in {"taskfile", "security"} /\ ~Buffered

\* ScsiDriver's taskfiles leave the fields of their command for the protocol,
\* the direction and the length empty: whoever translates it need do nothing,
\* or transfer nothing, and is content.
Explicit == ~(driver = "scsi" /\ req.kind = "taskfile")

WinKernel ==
  /\ driver \in WinDrivers /\ pc = "ioctl"
  /\ pc' = "reply"
  /\ \/ /\ Reached
        /\ ran' = ran + 1
        /\ reply' = Reply(TRUE, FALSE, "good", "none", "none", FALSE)
     \/ /\ ~Explicit
        /\ UNCHANGED ran
        /\ reply' = Reply(TRUE, FALSE, "good", "none", "none", FALSE)
     \/ /\ UNCHANGED ran
        /\ \E sense \in IF Scsi THEN {"valid", "novalid"} ELSE {"none"} :
             reply' = Reply(TRUE, FALSE, "check", "none", sense, TRUE)
     \/ /\ ran' \in {ran, IF Reached THEN ran + 1 ELSE ran}
        /\ reply' = Reply(FALSE, FALSE, "good", "none", "none", FALSE)
  /\ \/ buf' = IF Own /\ req.dir = "in" /\ ran' > ran THEN "drive" ELSE buf
     \/ ~Explicit /\ UNCHANGED buf
  /\ UNCHANGED <<driver, req, try, cdb, res, regs>>

-----------------------------------------------------------------------------
(* After the ioctl *)

\* (Mutant: nothing is copied back.)
CopiedBackNever == buf

\* The data of a buffered try, of a command, of a query.
CopiedBack ==
  IF ~reply.io \/ Own \/ req.dir = "none" THEN buf
  ELSE CASE driver = "nvmewin"                       -> IF reply.err \/ req.dir = "out" THEN "zeros"
                                                        ELSE IF req.long THEN "part" ELSE "drive"
         [] req.kind = "log"                         -> IF reply.err THEN "zeros"
                                                        ELSE IF req.long THEN "part" ELSE "drive"
         [] OTHER                                    -> IF req.dir = "out" THEN buf
                                                        ELSE IF reply.err \/ ran = 0 THEN "zeros" ELSE "drive"

\* The driver goes round once more, with everything as before.
Again ==
  /\ try' = 1
  /\ buf' = Cleared
  /\ pc' = "ioctl"
  /\ UNCHANGED res

\* The sense data counts if it is valid, and if there was data to transfer.
ScsiReturn ==
  /\ driver \in WinDrivers /\ pc = "reply" /\ Scsi
  /\ IF ~reply.io /\ ~Buffered
     THEN Again
     ELSE /\ IF ~reply.io THEN Finish("SYS", "ioctl")
             ELSE IF req.dir # "none" /\ reply.sense = "valid" THEN Finish("NOT_SUPPORTED", "none")
             ELSE Finish("OK", "none")
          /\ buf' = CopiedBack \/ (~Explicit /\ UNCHANGED buf)
          /\ UNCHANGED try
  /\ UNCHANGED <<driver, req, cdb, reply, regs, ran>>

\* Bits 0 and 3 of the byte that is the command before an ioctl, and the
\* status after a direct one that was successful.
LooksBad(byte) == byte % 2 = 1 \/ (byte \div 8) % 2 = 1
AtaStatusBad == IF reply.io /\ ~Buffered THEN reply.err ELSE LooksBad(req.op)

\* The status is looked at after each try, also one that failed.
AtaReturn ==
  /\ driver = "ata" /\ pc = "reply"
  /\ IF ~AtaStatusBad /\ ~reply.io /\ ~Buffered
     THEN Again
     ELSE /\ IF AtaStatusBad THEN Finish("ATA_FAILED", "none")
             ELSE IF reply.io THEN Finish("OK", "none") ELSE Finish("SYS", "ioctl")
          /\ buf' = CopiedBack
          /\ UNCHANGED try
  /\ UNCHANGED <<driver, req, cdb, reply, regs, ran>>

\* The completion entry of the NVMe command is not looked at, and the whole
\* length is copied, whatever the direction.
NvmeWinReturn ==
  /\ driver = "nvmewin" /\ pc = "reply"
  /\ IF reply.io THEN Finish("OK", "none") ELSE Finish("IOCTL_FAILED", "ioctl")
  /\ buf' = CopiedBack
  /\ UNCHANGED <<driver, req, try, cdb, reply, regs, ran>>

\* A query that fails in the drive fails as an ioctl.
LogReturn ==
  /\ driver = "winnvme" /\ pc = "reply" /\ req.kind = "log"
  /\ IF reply.io /\ ~reply.err THEN Finish("OK", "none") ELSE Finish("SYS", "ioctl")
  /\ buf' = IF reply.io /\ ~reply.err THEN CopiedBack ELSE buf
  /\ UNCHANGED <<driver, req, try, cdb, reply, regs, ran>>
=============================================================================
