----------------------------- MODULE DriverCall -----------------------------
(***************************************************************************)
(* A call of a driver handle (src/drive_driver_handle.h), whatever the     *)
(* driver: the request, the ioctls it takes, and what the caller gets      *)
(* back.  SgIo and WinIo add the drivers, PassThrough puts them together.  *)
(*                                                                         *)
(* A buffer and a taskfile are modelled by whose values they hold.         *)
(***************************************************************************)
EXTENDS AtaTaskfile

VARIABLES
  driver,  \* the driver that opened the handle
  pc,      \* "idle", "ioctl" (the kernel has it), "reply", "return"
  req,     \* the call under way, or the last one
  try,     \* retry_i of the drivers that try twice
  cdb,     \* what the ioctl under way carries
  reply,   \* what the last ioctl came back with
  res,     \* the call's result, its error number included
  buf,     \* whose data the buffer holds
  regs,    \* whose values *tf holds
  ran      \* history: how often the drive has carried out the call

callVars == <<driver, pc, req, try, cdb, reply, res, buf, regs, ran>>

-----------------------------------------------------------------------------
(* Requests *)

\* dma < 0 leaves the protocol to the driver.
Task(op, dir, ext, dma) ==
  [kind |-> "taskfile", op |-> op, dir |-> dir, ext |-> ext, dma |-> dma, long |-> FALSE]

Other(kind, dir, long) ==
  [kind |-> kind, op |-> 0, dir |-> dir, ext |-> FALSE, dma |-> 0, long |-> long]

IdentifyTask == Task(ATA_OP_IDENTIFY, "in", FALSE, 0)

\* The taskfiles that the library sends, and a DATA SET MANAGEMENT of the
\* program's own.
Tasks == {
  IdentifyTask,
  Task(ATA_OP_SMART, "in", FALSE, 0),
  Task(ATA_OP_TRUSTED_RECV, "in", FALSE, 0),
  Task(ATA_OP_TRUSTED_SEND, "out", FALSE, 0),
  Task(ATA_OP_DCO, "in", needs_lba48(ATA_OP_DCO, Zero, 1), -1),
  Task(ATA_OP_READ_NATIVE_MAX, "none", needs_lba48(ATA_OP_READ_NATIVE_MAX, Zero, 0), -1),
  Task(ATA_OP_READ_NATIVE_MAX_EXT, "none", needs_lba48(ATA_OP_READ_NATIVE_MAX_EXT, Zero, 0), -1),
  Task(ATA_OP_SANITIZE, "none", TRUE, -1),
  Task(ATA_OP_DSM, "out", needs_lba48(ATA_OP_DSM, Zero, 1), -1)}

\* Raw commands, IF-SEND and IF-RECV, NVMe commands and log pages; long means
\* more than the 4096 bytes the Windows drivers have room for.
Others ==
  {Other(kind, "in", FALSE) : kind \in {"cdb", "security", "admin"}}
    \cup {Other(kind, "out", FALSE) : kind \in {"cdb", "security", "admin"}}
    \cup {Other("admin", "in", TRUE), Other("admin", "none", FALSE), Other("io", "out", FALSE),
          Other("log", "in", FALSE), Other("log", "in", TRUE)}

\* What the standards say of the operations above.
StandardExt == {ATA_OP_DSM, ATA_OP_READ_NATIVE_MAX_EXT, ATA_OP_SANITIZE}
StandardProto(r) ==
  CASE r.dir = "none"       -> "nodata"
    [] r.op = ATA_OP_DSM    -> "dma"
    [] r.dir = "in"         -> "pioin"
    [] OTHER                -> "pioout"

-----------------------------------------------------------------------------
(* The steps all drivers share *)

Result(code, err) == [code |-> code, err |-> err]
NoResult == Result("none", "none")

\* An ioctl's outcome: it may fail itself; then the transport, the SCSI
\* status, the driver's status, the sense data and the ATA status in it.
Reply(io, host, scsi, drv, sense, err) ==
  [io |-> io, host |-> host, scsi |-> scsi, drv |-> drv, sense |-> sense, err |-> err]
NoReply == Reply(FALSE, FALSE, "good", "none", "none", FALSE)

NoCdb == [type |-> "none", proto |-> "none", ext |-> FALSE, check |-> FALSE]

CallInit ==
  /\ pc = "idle"
  /\ req = IdentifyTask
  /\ try = 0
  /\ cdb = NoCdb
  /\ reply = NoReply
  /\ res = NoResult
  /\ buf = "caller"
  /\ regs = "caller"
  /\ ran = 0

\* The caller has its result.
Forget ==
  /\ pc' = "idle"
  /\ req' = IdentifyTask
  /\ try' = 0
  /\ cdb' = NoCdb
  /\ reply' = NoReply
  /\ res' = NoResult
  /\ buf' = "caller"
  /\ regs' = "caller"
  /\ ran' = 0

\* A data-in buffer is cleared before it is read into.
Cleared == IF req.dir = "in" THEN "zeros" ELSE buf

\* A new call, which the driver takes up in its own first step.
Begin(r) ==
  /\ req' = r
  /\ try' = 0
  /\ cdb' = NoCdb
  /\ reply' = NoReply
  /\ res' = NoResult
  /\ buf' = "caller"
  /\ regs' = "caller"
  /\ ran' = 0
  /\ pc' = "called"

Finish(code, err) ==
  /\ res' = Result(code, err)
  /\ pc' = "return"

\* The defaults of DriveDriverHandle, for all that a driver does not override.
Unsupported ==
  Finish(IF req.kind \in {"security", "log"} THEN "NOT_IMPL" ELSE "NOT_SUPPORTED", "none")
=============================================================================
