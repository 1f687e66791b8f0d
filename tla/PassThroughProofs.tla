-------------------------- MODULE PassThroughProofs -------------------------
(***************************************************************************)
(* Proofs about PassThrough: for any drives, disks, partitions and device  *)
(* numbers, what a caller concludes from the result of any of the drivers  *)
(* is true of the drive.                                                   *)
(***************************************************************************)
EXTENDS PassThrough, SequenceTheorems, TLAPS

-----------------------------------------------------------------------------
(* The inductive invariant *)

Kinds == {"taskfile", "cdb", "security", "admin", "io", "log"}

\* What the drivers rely on in a request: a log page is always read, and what
\* goes through SCSI or ATA pass-through fits their buffers.
Sensible(r) ==
  /\ r.kind \in Kinds
  /\ r.dir \in {"in", "out", "none"}
  /\ r.ext \in BOOLEAN
  /\ r.long \in BOOLEAN
  /\ r.kind = "log" => r.dir = "in"
  /\ r.kind \in {"taskfile", "security"} => ~r.long

TypeOK ==
  /\ driver \in LinuxDrivers \cup WinDrivers
  /\ pc \in {"idle", "called", "ioctl", "reply", "return"}
  /\ try \in {0, 1}
  /\ cdb.type \in {"none", "ata16", "jmicron", "raw", "nvme", "scsi", "ata", "query"}
  /\ cdb.check \in BOOLEAN
  /\ reply.io \in BOOLEAN /\ reply.host \in BOOLEAN /\ reply.err \in BOOLEAN
  /\ reply.scsi \in {"good", "check", "busy"}
  /\ reply.drv \in {"none", "sense", "bad"}
  /\ reply.sense \in {"none", "desc", "fixed", "valid", "novalid"}
  /\ ran \in Nat
  /\ phase \in {"closed", "detect", "registers", "identify", "open"}
  /\ is_apt \in BOOLEAN
  /\ Sensible(req)

\* A call is under way only on a handle that is open or being opened; no driver
\* but SG has a bridge.
HandleInv ==
  /\ pc # "idle" => phase \in {"registers", "identify", "open"}
  /\ driver # "sg" => phase = "open" /\ ~is_apt

\* The driver has chosen its ioctl.
Chosen == pc \in {"ioctl", "reply"} \/ (pc = "return" /\ cdb.type # "none")
Answered == Chosen /\ pc # "ioctl"

\* Before the ioctl nothing has happened, and a call that gets none is refused.
EarlyInv ==
  /\ pc = "called" => cdb = NoCdb /\ try = 0 /\ ran = 0 /\ buf = "caller"
  /\ pc = "return" /\ cdb.type = "none" =>
       /\ res.code # "OK" /\ buf = "caller"
       /\ \/ res.code \in {"NOT_IMPL", "NOT_SUPPORTED"}
          \/ driver = "sg" /\ is_apt /\ req.ext

\* Who sends what.
SentInv ==
  Chosen =>
    /\ driver = "sg" =>
         /\ cdb.type \in {"ata16", "jmicron", "raw"}
         /\ cdb.type = "ata16" <=> (req.kind = "taskfile" /\ ~is_apt)
         /\ cdb.check <=> (cdb.type = "ata16" /\ req.dir = "none")
    /\ driver = "nvme" => cdb.type = "nvme" /\ req.kind \in {"admin", "io"}
    /\ driver \in WinDrivers =>
         /\ cdb.type \in {"scsi", "ata", "nvme", "query"}
         /\ req.kind \in Overrides[driver]

\* What is to be written is never touched, except by NvmeWinReturn.
KeptInv ==
  req.dir = "out" /\ ~(driver = "nvmewin" /\ pc = "return") => buf = "caller"

WentWell == reply.io /\ ~BadTransport /\ ~reply.err

\* A reply without a complaint is one of a drive that has done its work, and
\* its data is where the driver's next step looks for it.
ReplyInv ==
  Answered =>
    /\ WentWell /\ Reached /\ Explicit => ran > 0
    /\ driver \in LinuxDrivers /\ WentWell /\ req.dir = "in" => buf = "drive"
    /\ driver \in WinDrivers /\ pc = "reply" /\ WentWell /\ Own /\ Explicit /\ req.dir = "in" => buf = "drive"

\* How the complaints of a Linux ioctl are told.
SgReplyInv ==
  Answered /\ driver = "sg" =>
    /\ reply.err => reply.scsi = "check"
    /\ reply.drv = "sense" => reply.err \/ cdb.check

NvmeReplyInv ==
  Answered /\ driver = "nvme" => ~BadTransport

WinReplyInv ==
  Answered /\ driver \in WinDrivers =>
    /\ ~BadTransport
    /\ reply.err => reply.io
    /\ Scsi /\ reply.err => reply.sense \in {"valid", "novalid"}

\* A second try of ATA pass-through was not given up on account of the byte
\* that stands for the status of a failed ioctl.
TryInv == driver = "ata" /\ pc # "idle" /\ Buffered => ~LooksBad(req.op)

\* What the return value of each driver is made of.
SgResultInv ==
  pc = "return" /\ Answered /\ driver = "sg" =>
    /\ res = IF cdb.type = "jmicron" THEN JMicronOutcome ELSE SgOutcome
    /\ cdb.type = "ata16" /\ reply.io /\ ~BadTransport /\ reply.sense = "desc" => regs = "drive"

NvmeResultInv ==
  pc = "return" /\ Answered /\ driver = "nvme" =>
    /\ res.code = "OK" => reply.io /\ ~reply.err
    /\ res.code # "OK" => ~reply.io \/ reply.err

WinResultInv ==
  pc = "return" /\ Answered /\ driver \in WinDrivers =>
    /\ res.code = "OK" => reply.io
    /\ res.code = "OK" /\ Scsi => ~(req.dir # "none" /\ reply.sense = "valid" /\ reply.err)
    /\ res.code = "OK" /\ driver = "ata" /\ ~Buffered => ~reply.err
    /\ res.code = "OK" /\ req.kind = "log" => ~reply.err
    /\ res.code \in {"SYS", "ATA_FAILED", "NVME_FAILED", "IOCTL_FAILED"} => ~reply.io \/ reply.err
    /\ WentWell /\ Explicit /\ req.dir = "in" => buf = IF req.long THEN "part" ELSE "drive"

\* All that is claimed of a call, in the order in which a step makes it true.
CallInv ==
  /\ TypeOK /\ HandleInv /\ EarlyInv /\ SentInv /\ KeptInv
  /\ ReplyInv /\ SgReplyInv /\ NvmeReplyInv /\ WinReplyInv /\ TryInv
  /\ SgResultInv /\ NvmeResultInv /\ WinResultInv

-----------------------------------------------------------------------------
(* The bridge: what an attribute tells of a drive that is still there          *)

Told == IF fd.drive \in JMicron \cup Usb THEN fd.drive ELSE None
RightMajor == Number[fd.node][1] = Number[HomeOf(fd.node)][1]

\* The path that is kept is the one of its number; a descriptor that is alive is
\* on the drive behind its node; and all attributes were read from that drive.
BridgeInv ==
  /\ at \in [Disk -> Drive \cup {None}]
  /\ fd # None => fd \in [node : Node, drive : Drive \cup {None}]
  /\ prev # None => prev.path \in Node /\ prev.number = Number[prev.path]
  /\ ids \in Seq(Drive \cup {None})
  /\ Alive => fd.drive = Behind(fd.node)
  /\ phase = "detect" /\ Alive /\ RightMajor => \A i \in 1..Len(ids) : ids[i] = Told
  /\ BridgeIsRight

-----------------------------------------------------------------------------
(* Requests *)

LEMMA NeedsIsBoolean ==
  ASSUME NEW op, NEW lba, NEW n
  PROVE  needs_lba48(op, lba, n) \in BOOLEAN
BY DEF needs_lba48

LEMMA OtherSensible ==
  ASSUME NEW kind \in Kinds, NEW dir \in {"in", "out", "none"}, NEW long \in BOOLEAN,
         kind = "log" => dir = "in", kind # "taskfile", kind = "security" => ~long
  PROVE  Sensible(Other(kind, dir, long))
BY DEF Other, Sensible

LEMMA RequestsSensible ==
  ASSUME NEW r \in Tasks \cup Others
  PROVE  Sensible(r)
<1>1. CASE r \in Tasks
  <2>1. \E op, dir, ext, dma : ext \in BOOLEAN /\ dir \in {"in", "out", "none"} /\ r = Task(op, dir, ext, dma)
    BY <1>1, NeedsIsBoolean DEF Tasks, IdentifyTask
  <2> QED BY <2>1 DEF Task, Sensible, Kinds
<1>2. CASE r \in Others
  <2> DEFINE Both(dir) == {Other(kind, dir, FALSE) : kind \in {"cdb", "security", "admin"}}
             Rest == {Other("admin", "in", TRUE), Other("admin", "none", FALSE), Other("io", "out", FALSE),
                      Other("log", "in", FALSE), Other("log", "in", TRUE)}
  <2>1. ASSUME NEW dir \in {"in", "out"}, r \in Both(dir)
        PROVE  Sensible(r)
    <3>1. PICK kind \in {"cdb", "security", "admin"} : r = Other(kind, dir, FALSE)
      BY <2>1
    <3> QED BY <3>1, OtherSensible DEF Kinds
  <2>2. CASE r \in Rest
    <3>1. /\ Sensible(Other("admin", "in", TRUE)) /\ Sensible(Other("admin", "none", FALSE))
          /\ Sensible(Other("io", "out", FALSE))
          /\ Sensible(Other("log", "in", FALSE)) /\ Sensible(Other("log", "in", TRUE))
      BY OtherSensible DEF Kinds
    <3> QED BY <2>2, <3>1
  <2>3. Others = (Both("in") \cup Both("out")) \cup Rest
    BY DEF Others
  <2> HIDE DEF Both, Rest
  <2> QED BY <1>2, <2>1, <2>2, <2>3
<1> QED BY <1>1, <1>2

LEMMA IdentifySensible == Sensible(IdentifyTask)
BY DEF IdentifyTask, Task, Sensible, Kinds

-----------------------------------------------------------------------------
(* The steps of a call *)

\* CallInv speaks of the call and of the handle, never of /sys.
LEMMA CallUnchanged ==
  ASSUME CallInv, UNCHANGED <<callVars, phase, is_apt>>
  PROVE  CallInv'
<1>0. /\ driver' = driver /\ pc' = pc /\ req' = req /\ try' = try /\ cdb' = cdb /\ reply' = reply
      /\ res' = res /\ buf' = buf /\ regs' = regs /\ ran' = ran /\ phase' = phase /\ is_apt' = is_apt
  BY DEF callVars
<1> USE <1>0 DEF CallInv
<1>1. /\ (Chosen' <=> Chosen) /\ (Answered' <=> Answered) /\ (BadTransport' <=> BadTransport)
      /\ (WentWell' <=> WentWell) /\ (Reached' <=> Reached) /\ (Own' <=> Own) /\ (Scsi' <=> Scsi)
      /\ (Buffered' <=> Buffered) /\ JMicronOutcome' = JMicronOutcome /\ SgOutcome' = SgOutcome
      /\ (Explicit' <=> Explicit)
  BY DEF Chosen, Answered, WentWell, BadTransport, Reached, Own, Scsi, Buffered, JMicronOutcome, SgOutcome,
    Explicit
<1>2. TypeOK' /\ HandleInv' /\ EarlyInv'
  BY DEF TypeOK, HandleInv, EarlyInv
<1>3. SentInv' /\ KeptInv' /\ TryInv'
  BY <1>1 DEF SentInv, KeptInv, TryInv
<1>4. ReplyInv' /\ SgReplyInv' /\ NvmeReplyInv' /\ WinReplyInv'
  BY <1>1 DEF ReplyInv, SgReplyInv, NvmeReplyInv, WinReplyInv
<1>5. SgResultInv' /\ NvmeResultInv' /\ WinResultInv'
  BY <1>1 DEF SgResultInv, NvmeResultInv, WinResultInv
<1> QED BY <1>2, <1>3, <1>4, <1>5

\* Between two calls nothing is claimed of them.
LEMMA IdleStep ==
  ASSUME pc' = "idle", TypeOK', KeptInv', driver' # "sg" => phase' = "open" /\ ~is_apt'
  PROVE  CallInv'
BY DEF CallInv, HandleInv, EarlyInv, SentInv, KeptInv, ReplyInv, SgReplyInv, NvmeReplyInv, WinReplyInv,
  TryInv, SgResultInv, NvmeResultInv, WinResultInv, Chosen, Answered

LEMMA BeginStep ==
  ASSUME NEW r \in Tasks \cup Others,
         CallInv, Begin(r), phase \in {"registers", "identify", "open"},
         UNCHANGED <<driver, phase, is_apt>>
  PROVE  CallInv'
<1>1. Sensible(r)
  BY RequestsSensible
<1>2. /\ pc' = "called" /\ req' = r /\ try' = 0 /\ cdb' = NoCdb /\ reply' = NoReply
      /\ ran' = 0 /\ buf' = "caller"
  BY DEF Begin
<1>3. TypeOK'
  BY <1>1, <1>2 DEF CallInv, TypeOK, NoCdb, NoReply, Reply
<1>4. HandleInv'
  BY DEF CallInv, HandleInv
<1>5. EarlyInv' /\ KeptInv'
  BY <1>2 DEF EarlyInv, KeptInv, NoCdb
<1>6. ~Chosen'
  BY <1>2 DEF Chosen
<1>7. TryInv'
  BY <1>2 DEF TryInv, Buffered
<1> QED BY <1>3, <1>4, <1>5, <1>6, <1>7 DEF CallInv, SentInv, ReplyInv, SgReplyInv, NvmeReplyInv, WinReplyInv,
  SgResultInv, NvmeResultInv, WinResultInv, Answered

LEMMA ForgetStep ==
  ASSUME CallInv, Forget, driver' = driver, phase' \in {"closed", "identify", "open"},
         is_apt' = is_apt, driver # "sg" => phase' = phase
  PROVE  CallInv'
<1>1. TypeOK'
  BY IdentifySensible DEF CallInv, TypeOK, Forget, NoCdb, NoReply, Reply
<1>2. pc' = "idle" /\ (driver' # "sg" => phase' = "open" /\ ~is_apt')
  BY DEF Forget, CallInv, HandleInv
<1>3. req'.dir = "in"
  BY DEF Forget, IdentifyTask, Task
<1>4. KeptInv'
  BY <1>3 DEF KeptInv
<1> QED BY <1>1, <1>2, <1>4, IdleStep

LEMMA SgCallStep ==
  ASSUME CallInv, SgCall
  PROVE  CallInv'
<1> USE DEF CallInv
<1>0. /\ driver = "sg" /\ pc = "called" /\ cdb = NoCdb /\ buf = "caller" /\ ran = 0 /\ try = 0
      /\ UNCHANGED <<driver, req, try, reply, regs, ran, phase, is_apt>>
      /\ Sensible(req) /\ is_apt \in BOOLEAN /\ phase \in {"registers", "identify", "open"}
  BY DEF SgCall, EarlyInv, TypeOK, HandleInv, linuxVars, sgVars
<1>1. CASE pc' = "return" /\ UNCHANGED <<cdb, buf>> /\ res'.code # "OK"
           /\ (res'.code \in {"NOT_IMPL", "NOT_SUPPORTED"} \/ (is_apt /\ req.ext))
  <2>1. ~Chosen' /\ TypeOK' /\ HandleInv'
    BY <1>0, <1>1 DEF Chosen, NoCdb, TypeOK, HandleInv
  <2>2. EarlyInv' /\ KeptInv' /\ TryInv'
    BY <1>0, <1>1 DEF EarlyInv, KeptInv, TryInv
  <2> QED BY <2>1, <2>2 DEF SentInv, ReplyInv, SgReplyInv, NvmeReplyInv, WinReplyInv,
    SgResultInv, NvmeResultInv, WinResultInv, Answered
<1>2. CASE /\ pc' = "ioctl"
           /\ cdb'.type \in {"ata16", "jmicron", "raw"} /\ cdb'.check \in BOOLEAN
           /\ cdb'.type = "ata16" <=> (req.kind = "taskfile" /\ ~is_apt)
           /\ cdb'.check <=> (cdb'.type = "ata16" /\ req.dir = "none")
           /\ req.dir = "out" => buf' = "caller"
  <2>1. ~Answered' /\ TypeOK' /\ HandleInv'
    BY <1>0, <1>2 DEF Answered, TypeOK, HandleInv
  <2>2. EarlyInv' /\ KeptInv' /\ TryInv'
    BY <1>0, <1>2 DEF EarlyInv, KeptInv, TryInv
  <2>3. SentInv'
    BY <1>0, <1>2 DEF SentInv, WinDrivers
  <2> QED BY <2>1, <2>2, <2>3 DEF ReplyInv, SgReplyInv, NvmeReplyInv, WinReplyInv,
    SgResultInv, NvmeResultInv, WinResultInv
<1>3. CASE Served({"taskfile"}) /\ is_apt /\ req.ext
  BY <1>0, <1>1, <1>3 DEF SgCall, Served, Finish, Result
<1>4. CASE Served({"taskfile"}) /\ is_apt /\ ~req.ext
  <2>1. cdb' = [type |-> "jmicron", proto |-> "none", ext |-> FALSE, check |-> FALSE] /\ buf' = buf /\ pc' = "ioctl"
    BY <1>0, <1>4 DEF SgCall, apt_sg16, Served
  <2>2. cdb'.type = "jmicron" /\ cdb'.check = FALSE
    BY <2>1
  <2> QED BY <1>0, <1>2, <1>4, <2>1, <2>2
<1>5. CASE Served({"taskfile"}) /\ ~is_apt
  <2>1. /\ cdb' = [type |-> "ata16", proto |-> Proto, ext |-> req.ext, check |-> req.dir = "none"]
        /\ buf' = Cleared /\ pc' = "ioctl"
    BY <1>0, <1>5 DEF SgCall, sg16, Served
  <2>2. cdb'.type = "ata16" /\ cdb'.check = (req.dir = "none")
    BY <2>1
  <2>3. req.dir = "out" => buf' = "caller"
    BY <1>0, <2>1 DEF Cleared
  <2> QED BY <1>0, <1>2, <1>5, <2>1, <2>2, <2>3 DEF Served
<1>6. CASE Served({"cdb"})
  <2>1. /\ cdb' = [type |-> "raw", proto |-> "none", ext |-> FALSE, check |-> FALSE]
        /\ buf' = Cleared /\ pc' = "ioctl" /\ req.kind = "cdb"
    BY <1>0, <1>6 DEF SgCall, do_sg_ata, Served
  <2>2. cdb'.type = "raw" /\ cdb'.check = FALSE
    BY <2>1
  <2>3. req.dir = "out" => buf' = "caller"
    BY <1>0, <2>1 DEF Cleared
  <2> QED BY <1>0, <1>2, <2>1, <2>2, <2>3
<1>7. CASE ~Served({"taskfile", "cdb"})
  BY <1>0, <1>1, <1>7 DEF SgCall, Served, Unsupported, Finish, Result
<1> QED BY <1>3, <1>4, <1>5, <1>6, <1>7 DEF SgCall

LEMMA NvmeCallStep ==
  ASSUME CallInv, NvmeCall
  PROVE  CallInv'
<1> USE DEF CallInv
<1>0. /\ driver = "nvme" /\ pc = "called" /\ cdb = NoCdb /\ buf = "caller" /\ ran = 0 /\ try = 0
      /\ UNCHANGED <<driver, req, try, reply, buf, regs, ran, phase, is_apt>>
      /\ Sensible(req) /\ phase = "open" /\ ~is_apt /\ is_apt \in BOOLEAN
  BY DEF NvmeCall, EarlyInv, TypeOK, HandleInv, linuxVars, sgVars
<1>1. CASE req.kind \in {"admin", "io"}
  <2>1. pc' = "ioctl" /\ cdb'.type = "nvme" /\ cdb'.check = FALSE
    BY <1>0, <1>1 DEF NvmeCall, Served, NoCdb
  <2>2. ~Answered' /\ TypeOK' /\ HandleInv'
    BY <1>0, <2>1 DEF Answered, TypeOK, HandleInv
  <2>3. EarlyInv' /\ KeptInv' /\ TryInv'
    BY <1>0, <2>1 DEF EarlyInv, KeptInv, TryInv
  <2>4. SentInv'
    BY <1>0, <1>1, <2>1 DEF SentInv, WinDrivers
  <2> QED BY <2>2, <2>3, <2>4 DEF ReplyInv, SgReplyInv, NvmeReplyInv, WinReplyInv,
    SgResultInv, NvmeResultInv, WinResultInv
<1>2. CASE req.kind \notin {"admin", "io"}
  <2>1. pc' = "return" /\ cdb' = cdb /\ res'.code \in {"NOT_IMPL", "NOT_SUPPORTED"}
    BY <1>0, <1>2 DEF NvmeCall, Served, Unsupported, Finish, Result
  <2>2. ~Chosen' /\ TypeOK' /\ HandleInv'
    BY <1>0, <2>1 DEF Chosen, NoCdb, TypeOK, HandleInv
  <2>3. EarlyInv' /\ KeptInv' /\ TryInv'
    BY <1>0, <2>1 DEF EarlyInv, KeptInv, TryInv
  <2> QED BY <2>2, <2>3 DEF SentInv, ReplyInv, SgReplyInv, NvmeReplyInv, WinReplyInv,
    SgResultInv, NvmeResultInv, WinResultInv, Answered
<1> QED BY <1>1, <1>2

LEMMA SenseKinds == Sense \in {"desc", "fixed"}
BY DEF Sense

\* SG_IO comes back: the disjuncts of SgKernel.
LEMMA SgKernelStep ==
  ASSUME CallInv, SgKernel
  PROVE  CallInv'
<1> USE DEF CallInv
<1>0. /\ driver = "sg" /\ pc = "ioctl" /\ pc' = "reply"
      /\ UNCHANGED <<driver, req, try, cdb, res, regs, phase, is_apt>>
      /\ Sensible(req) /\ ran \in Nat /\ cdb.check \in BOOLEAN
      /\ phase \in {"registers", "identify", "open"}
  BY DEF SgKernel, TypeOK, HandleInv, linuxVars, sgVars
<1>1. SentInv /\ Chosen /\ (req.dir = "out" => buf = "caller")
  BY <1>0 DEF Chosen, KeptInv
<1>2. \A err \in BOOLEAN : Checked(err) =>
        /\ reply'.io = TRUE /\ reply'.host = FALSE /\ reply'.err = err /\ reply'.scsi = "check"
        /\ reply'.drv \in {"none", "sense"} /\ reply'.sense \in {"none", "desc", "fixed"}
  BY SenseKinds DEF Checked, Reply
\* What has to be shown of any outcome.
<1>3. SUFFICES
        /\ reply'.io \in BOOLEAN /\ reply'.host \in BOOLEAN /\ reply'.err \in BOOLEAN
        /\ reply'.scsi \in {"good", "check", "busy"}
        /\ reply'.drv \in {"none", "sense", "bad"}
        /\ reply'.sense \in {"none", "desc", "fixed"}
        /\ ran' \in Nat
        /\ req.dir = "out" => buf' = buf
        /\ WentWell' => ran' > 0 /\ (req.dir = "in" => buf' = "drive")
        /\ reply'.err => reply'.scsi = "check"
        /\ reply'.drv = "sense" => reply'.err \/ cdb.check
  <2>1. TypeOK' /\ HandleInv'
    BY <1>0, <1>3 DEF TypeOK, HandleInv
  <2>2. EarlyInv' /\ KeptInv' /\ TryInv'
    BY <1>0, <1>1, <1>3 DEF EarlyInv, KeptInv, TryInv
  <2>3. SentInv'
    BY <1>0, <1>1 DEF SentInv, Chosen
  <2>4. ReplyInv' /\ SgReplyInv' /\ NvmeReplyInv' /\ WinReplyInv'
    BY <1>0, <1>3 DEF ReplyInv, SgReplyInv, NvmeReplyInv, WinReplyInv, WinDrivers
  <2>5. SgResultInv' /\ NvmeResultInv' /\ WinResultInv'
    BY <1>0 DEF SgResultInv, NvmeResultInv, WinResultInv
  <2> QED BY <2>1, <2>2, <2>3, <2>4, <2>5
<1>4. ASSUME CarriedOut
      PROVE  ran' \in Nat /\ ran' > 0 /\ (req.dir = "in" => buf' = "drive") /\ (req.dir = "out" => buf' = buf)
  BY <1>0, <1>4 DEF CarriedOut
<1>5. ASSUME Untouched PROVE ran' \in Nat /\ buf' = buf
  BY <1>0, <1>5 DEF Untouched
<1>6. CASE CarriedOut /\ (reply' = GoodReply \/ (cdb.check /\ Checked(FALSE)))
  <2>1. CASE cdb.check /\ Checked(FALSE)
    <3>1. /\ reply'.io = TRUE /\ reply'.host = FALSE /\ reply'.err = FALSE /\ reply'.scsi = "check"
          /\ reply'.drv \in {"none", "sense"} /\ reply'.sense \in {"none", "desc", "fixed"}
      BY <1>2, <2>1
    <3> QED BY <1>4, <1>6, <2>1, <3>1
  <2>2. CASE reply' = GoodReply
    BY <1>4, <1>6, <2>2 DEF GoodReply, Reply
  <2> QED BY <1>6, <2>1, <2>2
<1>7. CASE Untouched /\ Checked(TRUE)
  <2>1. /\ reply'.io = TRUE /\ reply'.host = FALSE /\ reply'.err = TRUE /\ reply'.scsi = "check"
        /\ reply'.drv \in {"none", "sense"} /\ reply'.sense \in {"none", "desc", "fixed"}
    BY <1>2, <1>7
  <2> QED BY <1>5, <1>7, <2>1 DEF WentWell
<1>8. CASE Untouched /\ reply' = Reply(TRUE, FALSE, "busy", "none", "none", FALSE)
  BY <1>5, <1>8 DEF Reply, WentWell, BadTransport
<1>9. CASE /\ Untouched \/ CarriedOut
           /\ \/ reply' = Reply(FALSE, FALSE, "good", "none", "none", FALSE)
              \/ reply' = Reply(TRUE, TRUE, "good", "none", "none", FALSE)
              \/ reply' = Reply(TRUE, FALSE, "good", "bad", "none", FALSE)
  <2>1. ran' \in Nat /\ (req.dir = "out" => buf' = buf)
    BY <1>4, <1>5, <1>9
  <2>2. /\ reply'.io \in BOOLEAN /\ reply'.host \in BOOLEAN /\ reply'.err = FALSE
        /\ reply'.scsi = "good" /\ reply'.drv \in {"none", "bad"} /\ reply'.sense = "none"
        /\ ~reply'.io \/ reply'.host \/ reply'.drv = "bad"
    <3>1. CASE reply' = Reply(FALSE, FALSE, "good", "none", "none", FALSE)
      BY <3>1 DEF Reply
    <3>2. CASE reply' = Reply(TRUE, TRUE, "good", "none", "none", FALSE)
      BY <3>2 DEF Reply
    <3>3. CASE reply' = Reply(TRUE, FALSE, "good", "bad", "none", FALSE)
      BY <3>3 DEF Reply
    <3> QED BY <1>9, <3>1, <3>2, <3>3
  <2> QED BY <2>1, <2>2 DEF WentWell, BadTransport
<1> QED BY <1>6, <1>7, <1>8, <1>9 DEF SgKernel

LEMMA NvmeKernelStep ==
  ASSUME CallInv, NvmeKernel
  PROVE  CallInv'
<1> USE DEF CallInv
<1>0. /\ driver = "nvme" /\ pc = "ioctl" /\ pc' = "reply"
      /\ UNCHANGED <<driver, req, try, cdb, res, regs, phase, is_apt>>
      /\ Sensible(req) /\ ran \in Nat /\ phase = "open"
  BY DEF NvmeKernel, TypeOK, HandleInv, linuxVars, sgVars
<1>1. SentInv /\ Chosen /\ (req.dir = "out" => buf = "caller")
  BY <1>0 DEF Chosen, KeptInv
<1>2. \E io, err \in BOOLEAN : reply' = Reply(io, FALSE, "good", "none", "none", err)
  BY DEF NvmeKernel
<1>3. /\ reply'.io \in BOOLEAN /\ reply'.host = FALSE /\ reply'.err \in BOOLEAN
      /\ reply'.scsi = "good" /\ reply'.drv = "none" /\ reply'.sense = "none"
  BY <1>2 DEF Reply
<1>4. ran' \in Nat /\ (req.dir = "out" => buf' = buf)
  <2>1. CASE CarriedOut
    BY <1>0, <2>1 DEF CarriedOut
  <2>2. CASE Untouched
    BY <1>0, <2>2 DEF Untouched
  <2> QED BY <2>1, <2>2 DEF NvmeKernel
<1>5. reply'.io /\ ~reply'.err => ran' > 0 /\ (req.dir = "in" => buf' = "drive")
  BY <1>0 DEF NvmeKernel, CarriedOut, Reply
<1>6. TypeOK' /\ HandleInv'
  BY <1>0, <1>3, <1>4 DEF TypeOK, HandleInv
<1>7. EarlyInv' /\ KeptInv' /\ TryInv'
  BY <1>0, <1>1, <1>4 DEF EarlyInv, KeptInv, TryInv
<1>8. SentInv'
  BY <1>0, <1>1 DEF SentInv, Chosen
<1>9. ReplyInv' /\ SgReplyInv' /\ NvmeReplyInv' /\ WinReplyInv'
  BY <1>0, <1>3, <1>5 DEF ReplyInv, SgReplyInv, NvmeReplyInv, WinReplyInv, WinDrivers, WentWell, BadTransport
<1>10. SgResultInv' /\ NvmeResultInv' /\ WinResultInv'
  BY <1>0 DEF SgResultInv, NvmeResultInv, WinResultInv
<1> QED BY <1>6, <1>7, <1>8, <1>9, <1>10

LEMMA SgReturnStep ==
  ASSUME CallInv, SgReturn
  PROVE  CallInv'
<1> USE DEF CallInv
<1>0. /\ driver = "sg" /\ pc = "reply" /\ pc' = "return"
      /\ UNCHANGED <<driver, req, try, cdb, reply, buf, ran, phase, is_apt>>
      /\ phase \in {"registers", "identify", "open"}
      /\ cdb.type \in {"ata16", "jmicron", "raw"}
  BY DEF SgReturn, TypeOK, HandleInv, SentInv, Chosen, linuxVars, sgVars
<1>1. TypeOK' /\ HandleInv'
  BY <1>0 DEF TypeOK, HandleInv
<1>2. EarlyInv' /\ KeptInv' /\ TryInv'
  BY <1>0 DEF EarlyInv, KeptInv, TryInv, Buffered
<1>3. /\ (WentWell' <=> WentWell) /\ (BadTransport' <=> BadTransport) /\ (Reached' <=> Reached)
      /\ (Explicit' <=> Explicit)
  BY <1>0 DEF WentWell, BadTransport, Reached, Explicit
<1>4. SentInv'
  BY <1>0 DEF SentInv, Chosen, WinDrivers
<1>5. ReplyInv' /\ SgReplyInv' /\ NvmeReplyInv' /\ WinReplyInv'
  BY <1>0, <1>3 DEF ReplyInv, SgReplyInv, NvmeReplyInv, WinReplyInv, WinDrivers, Answered, Chosen
<1>6. JMicronOutcome' = JMicronOutcome /\ SgOutcome' = SgOutcome
  BY <1>0, <1>3 DEF JMicronOutcome, SgOutcome
<1>7. SgResultInv'
  <2>1. res' = IF cdb.type = "jmicron" THEN JMicronOutcome ELSE SgOutcome
    BY <1>0 DEF SgReturn, RawOutcome
  <2>2. cdb.type = "ata16" /\ reply.io /\ ~BadTransport /\ reply.sense = "desc" => regs' = "drive"
    BY <1>0 DEF SgReturn, SgRegs
  <2> QED BY <1>0, <1>3, <1>6, <2>1, <2>2 DEF SgResultInv
<1>8. NvmeResultInv' /\ WinResultInv'
  BY <1>0 DEF NvmeResultInv, WinResultInv, WinDrivers
<1> QED BY <1>1, <1>2, <1>4, <1>5, <1>7, <1>8

LEMMA NvmeReturnStep ==
  ASSUME CallInv, NvmeReturn
  PROVE  CallInv'
<1> USE DEF CallInv
<1>0. /\ driver = "nvme" /\ pc = "reply" /\ pc' = "return"
      /\ UNCHANGED <<driver, req, try, cdb, reply, buf, ran, phase, is_apt>>
      /\ cdb.type = "nvme"
  BY DEF NvmeReturn, Finish, SentInv, Chosen, linuxVars, sgVars
<1>1. TypeOK' /\ HandleInv'
  BY <1>0 DEF TypeOK, HandleInv
<1>2. EarlyInv' /\ KeptInv' /\ TryInv'
  BY <1>0 DEF EarlyInv, KeptInv, TryInv
<1>3. /\ (WentWell' <=> WentWell) /\ (BadTransport' <=> BadTransport) /\ (Reached' <=> Reached)
      /\ (Explicit' <=> Explicit)
  BY <1>0 DEF WentWell, BadTransport, Reached, Explicit
<1>4. SentInv'
  BY <1>0 DEF SentInv, Chosen, WinDrivers
<1>5. ReplyInv' /\ SgReplyInv' /\ NvmeReplyInv' /\ WinReplyInv'
  BY <1>0, <1>3 DEF ReplyInv, SgReplyInv, NvmeReplyInv, WinReplyInv, WinDrivers, Answered, Chosen
<1>6. (res'.code = "OK" => reply.io /\ ~reply.err) /\ (res'.code # "OK" => ~reply.io \/ reply.err)
  BY DEF NvmeReturn, Finish, Result
<1>7. SgResultInv' /\ NvmeResultInv' /\ WinResultInv'
  BY <1>0, <1>6 DEF SgResultInv, NvmeResultInv, WinResultInv, WinDrivers
<1> QED BY <1>1, <1>2, <1>4, <1>5, <1>7

-----------------------------------------------------------------------------
(* The Windows drivers *)

\* The first ioctl of a call.
LEMMA WinSentStep ==
  ASSUME CallInv, pc = "called", driver \in WinDrivers, req.kind \in Overrides[driver],
         NEW type \in {"scsi", "ata", "nvme", "query"}, Sent(type), buf' = buf \/ buf' = Cleared,
         UNCHANGED linuxVars
  PROVE  CallInv'
<1> USE DEF CallInv
<1>0. /\ try = 0 /\ buf = "caller" /\ ran = 0
      /\ UNCHANGED <<driver, req, try, reply, res, regs, ran, phase, is_apt>>
      /\ cdb' = [type |-> type, proto |-> "none", ext |-> type # "scsi" /\ req.ext, check |-> FALSE]
      /\ pc' = "ioctl"
  BY DEF Sent, EarlyInv, NoCdb, linuxVars, sgVars
<1>1. cdb'.type = type /\ cdb'.check = FALSE
  BY <1>0
<1>2. TypeOK' /\ HandleInv'
  BY <1>0, <1>1 DEF TypeOK, HandleInv
<1>3. EarlyInv' /\ KeptInv' /\ TryInv'
  BY <1>0, <1>1 DEF EarlyInv, KeptInv, TryInv, Cleared, Buffered
<1>4. SentInv'
  BY <1>0, <1>1 DEF SentInv, WinDrivers
<1> QED BY <1>0, <1>2, <1>3, <1>4 DEF ReplyInv, SgReplyInv, NvmeReplyInv, WinReplyInv, Answered,
  SgResultInv, NvmeResultInv, WinResultInv

LEMMA WinCallStep ==
  ASSUME CallInv, ScsiCall \/ AtaCall \/ NvmeWinCall \/ LogCall, UNCHANGED linuxVars
  PROVE  CallInv'
<1>1. CASE ScsiCall
  <2>1. driver \in WinDrivers /\ req.kind \in Overrides[driver]
    BY <1>1 DEF ScsiCall, WinDrivers, Overrides
  <2> QED BY <1>1, <2>1, WinSentStep DEF ScsiCall
<1>2. CASE AtaCall
  <2>1. driver \in WinDrivers /\ req.kind \in Overrides[driver]
    BY <1>2 DEF AtaCall, WinDrivers, Overrides
  <2> QED BY <1>2, <2>1, WinSentStep DEF AtaCall
<1>3. CASE NvmeWinCall
  <2>1. driver \in WinDrivers /\ req.kind \in Overrides[driver]
    BY <1>3 DEF NvmeWinCall, WinDrivers, Overrides
  <2> QED BY <1>3, <2>1, WinSentStep DEF NvmeWinCall
<1>4. CASE LogCall
  <2>1. driver \in WinDrivers /\ req.kind \in Overrides[driver]
    BY <1>4 DEF LogCall, WinDrivers, Overrides
  <2> QED BY <1>4, <2>1, WinSentStep DEF LogCall
<1> QED BY <1>1, <1>2, <1>3, <1>4

LEMMA WinUnsupportedStep ==
  ASSUME CallInv, WinUnsupported, UNCHANGED linuxVars
  PROVE  CallInv'
<1> USE DEF CallInv
<1>0. /\ pc = "called" /\ driver \in WinDrivers /\ pc' = "return"
      /\ cdb = NoCdb /\ buf = "caller" /\ try = 0
      /\ res'.code \in {"NOT_IMPL", "NOT_SUPPORTED"}
      /\ UNCHANGED <<driver, req, try, cdb, reply, buf, regs, ran, phase, is_apt>>
  BY DEF WinUnsupported, Unsupported, Finish, Result, EarlyInv, linuxVars, sgVars
<1>1. TypeOK' /\ HandleInv'
  BY <1>0 DEF TypeOK, HandleInv
<1>2. EarlyInv' /\ KeptInv' /\ TryInv'
  BY <1>0 DEF EarlyInv, KeptInv, TryInv, Buffered
<1>3. ~Chosen'
  BY <1>0 DEF Chosen, NoCdb
<1> QED BY <1>1, <1>2, <1>3 DEF SentInv, ReplyInv, SgReplyInv, NvmeReplyInv, WinReplyInv,
  SgResultInv, NvmeResultInv, WinResultInv, Answered

LEMMA WinKernelStep ==
  ASSUME CallInv, WinKernel, UNCHANGED linuxVars
  PROVE  CallInv'
<1> USE DEF CallInv
<1>0. /\ driver \in WinDrivers /\ pc = "ioctl" /\ pc' = "reply" /\ ran \in Nat
      /\ \/ buf' = IF Own /\ req.dir = "in" /\ ran' > ran THEN "drive" ELSE buf
         \/ ~Explicit /\ buf' = buf
      /\ UNCHANGED <<driver, req, try, cdb, res, regs, phase, is_apt>>
  BY DEF WinKernel, TypeOK, linuxVars, sgVars
<1>1. SentInv /\ Chosen /\ (req.dir = "out" => buf = "caller") /\ driver \notin LinuxDrivers
  BY <1>0 DEF Chosen, KeptInv, LinuxDrivers, WinDrivers
<1>2. /\ reply'.io \in BOOLEAN /\ reply'.host = FALSE /\ reply'.err \in BOOLEAN
      /\ reply'.scsi \in {"good", "check"} /\ reply'.drv = "none"
      /\ reply'.sense \in {"none", "valid", "novalid"}
      /\ ran' \in Nat
      /\ reply'.err => reply'.io /\ (Scsi => reply'.sense \in {"valid", "novalid"})
      /\ reply'.io /\ ~reply'.err /\ Explicit => Reached /\ ran' > ran
  <2>1. CASE Reached /\ ran' = ran + 1 /\ reply' = Reply(TRUE, FALSE, "good", "none", "none", FALSE)
    BY <1>0, <2>1 DEF Reply
  <2>2. ASSUME ran' = ran, NEW sense \in IF Scsi THEN {"valid", "novalid"} ELSE {"none"},
               reply' = Reply(TRUE, FALSE, "check", "none", sense, TRUE)
        PROVE  <1>2!:
    <3>1. sense \in {"none", "valid", "novalid"} /\ (Scsi => sense \in {"valid", "novalid"})
      BY <2>2
    <3> QED BY <1>0, <2>2, <3>1 DEF Reply
  <2>3. CASE /\ ran' \in {ran, IF Reached THEN ran + 1 ELSE ran}
             /\ reply' = Reply(FALSE, FALSE, "good", "none", "none", FALSE)
    <3>1. ran' \in Nat
      BY <1>0, <2>3
    <3> QED BY <2>3, <3>1 DEF Reply
  <2>4. CASE ~Explicit /\ ran' = ran /\ reply' = Reply(TRUE, FALSE, "good", "none", "none", FALSE)
    BY <1>0, <2>4 DEF Reply
  <2> QED BY <2>1, <2>2, <2>3, <2>4 DEF WinKernel
<1>3. (Reached' <=> Reached) /\ (Own' <=> Own) /\ (Scsi' <=> Scsi) /\ ~BadTransport' /\ (Explicit' <=> Explicit)
  BY <1>0, <1>2 DEF Reached, Own, Scsi, Buffered, BadTransport, Explicit
<1>4. TypeOK' /\ HandleInv'
  BY <1>0, <1>2 DEF TypeOK, HandleInv
<1>5. EarlyInv' /\ KeptInv' /\ TryInv'
  BY <1>0, <1>1 DEF EarlyInv, KeptInv, TryInv, Buffered
<1>6. SentInv'
  BY <1>0, <1>1 DEF SentInv, Chosen
<1>7. ReplyInv'
  BY <1>0, <1>1, <1>2, <1>3 DEF ReplyInv, WentWell
<1>8. SgReplyInv' /\ NvmeReplyInv' /\ WinReplyInv'
  BY <1>0, <1>1, <1>2, <1>3 DEF SgReplyInv, NvmeReplyInv, WinReplyInv, LinuxDrivers
<1>9. SgResultInv' /\ NvmeResultInv' /\ WinResultInv'
  BY <1>0 DEF SgResultInv, NvmeResultInv, WinResultInv
<1> QED BY <1>4, <1>5, <1>6, <1>7, <1>8, <1>9

\* The driver goes round once more: everything it knows of the reply is void.
LEMMA AgainStep ==
  ASSUME CallInv, pc = "reply", driver \in WinDrivers, Again,
         driver = "ata" => ~LooksBad(req.op),
         UNCHANGED <<driver, req, cdb, reply, regs, ran>>, UNCHANGED linuxVars
  PROVE  CallInv'
<1> USE DEF CallInv
<1>0. /\ pc' = "ioctl" /\ try' = 1 /\ res' = res /\ UNCHANGED <<phase, is_apt>>
      /\ req.dir = "out" => buf' = "caller"
      /\ phase \in {"closed", "detect", "registers", "identify", "open"}
  BY DEF Again, Cleared, KeptInv, TypeOK, linuxVars, sgVars
<1>1. TypeOK' /\ HandleInv'
  BY <1>0 DEF TypeOK, HandleInv
<1>2. EarlyInv' /\ KeptInv' /\ TryInv'
  BY <1>0 DEF EarlyInv, KeptInv, TryInv
<1>3. SentInv'
  BY <1>0 DEF SentInv, Chosen
<1> QED BY <1>0, <1>1, <1>2, <1>3 DEF ReplyInv, SgReplyInv, NvmeReplyInv, WinReplyInv, Answered,
  SgResultInv, NvmeResultInv, WinResultInv

\* The driver returns: what it has to have found in the reply, and to have left
\* in the buffer.
LEMMA WinReturnStep ==
  ASSUME CallInv, pc = "reply", driver \in WinDrivers, pc' = "return",
         UNCHANGED <<driver, req, try, cdb, reply, regs, ran>>, UNCHANGED linuxVars,
         res'.code = "OK" =>
           /\ reply.io
           /\ Scsi => ~(req.dir # "none" /\ reply.sense = "valid" /\ reply.err)
           /\ driver = "ata" /\ ~Buffered => ~reply.err
           /\ req.kind = "log" => ~reply.err,
         res'.code \in {"SYS", "ATA_FAILED", "NVME_FAILED", "IOCTL_FAILED"} => ~reply.io \/ reply.err,
         req.dir = "out" /\ driver # "nvmewin" => buf' = buf,
         WentWell /\ Explicit /\ req.dir = "in" => buf' = IF req.long THEN "part" ELSE "drive"
  PROVE  CallInv'
<1> USE DEF CallInv
<1>0. /\ UNCHANGED <<phase, is_apt>> /\ driver \notin LinuxDrivers /\ cdb.type # "none"
      /\ req.dir = "out" => buf = "caller"
  BY DEF linuxVars, sgVars, LinuxDrivers, WinDrivers, SentInv, Chosen, KeptInv
<1>1. TypeOK' /\ HandleInv'
  BY <1>0 DEF TypeOK, HandleInv
<1>2. EarlyInv' /\ KeptInv' /\ TryInv'
  BY <1>0 DEF EarlyInv, KeptInv, TryInv, Buffered
<1>3. SentInv'
  BY <1>0 DEF SentInv, Chosen
<1>4. /\ (WentWell' <=> WentWell) /\ (BadTransport' <=> BadTransport) /\ (Reached' <=> Reached)
      /\ (Scsi' <=> Scsi) /\ (Buffered' <=> Buffered) /\ (Explicit' <=> Explicit) /\ Answered /\ Answered'
  BY <1>0 DEF WentWell, BadTransport, Reached, Scsi, Buffered, Explicit, Answered, Chosen
<1>5. ReplyInv'
  BY <1>0, <1>4 DEF ReplyInv
<1>6. SgReplyInv' /\ NvmeReplyInv' /\ WinReplyInv'
  BY <1>0, <1>4 DEF SgReplyInv, NvmeReplyInv, WinReplyInv, LinuxDrivers
<1>7. SgResultInv' /\ NvmeResultInv'
  BY <1>0 DEF SgResultInv, NvmeResultInv, LinuxDrivers
<1>8. WinResultInv'
  BY <1>0, <1>4 DEF WinResultInv
<1> QED BY <1>1, <1>2, <1>3, <1>5, <1>6, <1>7, <1>8

\* What all the drivers' returns know.
LEMMA WinReplyFacts ==
  ASSUME CallInv, pc = "reply", driver \in WinDrivers
  PROVE  /\ Answered /\ ~BadTransport /\ (WentWell <=> reply.io /\ ~reply.err) /\ (reply.err => reply.io)
         /\ WentWell /\ Own /\ Explicit /\ req.dir = "in" => buf = "drive"
         /\ WentWell /\ Reached /\ Explicit => ran > 0
         /\ req.kind \in Overrides[driver] /\ Sensible(req) /\ try \in {0, 1}
         /\ reply.io \in BOOLEAN /\ reply.err \in BOOLEAN
BY DEF CallInv, Answered, Chosen, WinReplyInv, ReplyInv, WentWell, SentInv, TypeOK

LEMMA ScsiReturnStep ==
  ASSUME CallInv, ScsiReturn, UNCHANGED linuxVars
  PROVE  CallInv'
<1>0. /\ driver \in WinDrivers /\ pc = "reply" /\ Scsi
      /\ UNCHANGED <<driver, req, cdb, reply, regs, ran>>
  BY DEF ScsiReturn
<1>1. req.kind \in {"taskfile", "security"} /\ driver # "ata" /\ driver # "nvmewin" /\ ~req.long
  <2>1. req.kind \in Overrides[driver] /\ Sensible(req)
    BY <1>0, WinReplyFacts
  <2> QED BY <1>0, <2>1 DEF Scsi, Overrides, WinDrivers, Sensible
<1>2. CASE ~reply.io /\ ~Buffered
  BY <1>0, <1>1, <1>2, AgainStep DEF ScsiReturn
<1>3. CASE ~(~reply.io /\ ~Buffered)
  <2>1. /\ pc' = "return" /\ try' = try /\ (buf' = CopiedBack \/ (~Explicit /\ buf' = buf))
        /\ res'.code = IF ~reply.io THEN "SYS"
                       ELSE IF req.dir # "none" /\ reply.sense = "valid" THEN "NOT_SUPPORTED" ELSE "OK"
    BY <1>3 DEF ScsiReturn, Finish, Result
  <2>2. WentWell /\ Explicit /\ req.dir = "in" => buf' = "drive"
    BY <1>0, <1>1, <2>1, WinReplyFacts DEF CopiedBack, Reached
  <2>3. req.dir = "out" => buf' = buf
    BY <1>1, <2>1 DEF CopiedBack
  <2> QED BY <1>0, <1>1, <2>1, <2>2, <2>3, WinReturnStep
<1> QED BY <1>2, <1>3

LEMMA AtaReturnStep ==
  ASSUME CallInv, AtaReturn, UNCHANGED linuxVars
  PROVE  CallInv'
<1>0. /\ driver = "ata" /\ driver \in WinDrivers /\ pc = "reply"
      /\ UNCHANGED <<driver, req, cdb, reply, regs, ran>>
  BY DEF AtaReturn, WinDrivers
<1>1. req.kind = "taskfile" /\ ~req.long /\ ~Scsi
  <2>1. req.kind \in Overrides[driver] /\ Sensible(req)
    BY <1>0, WinReplyFacts
  <2> QED BY <1>0, <2>1 DEF Scsi, Overrides, Sensible
<1>2. CASE ~AtaStatusBad /\ ~reply.io /\ ~Buffered
  <2>1. ~LooksBad(req.op) /\ Again
    BY <1>2 DEF AtaReturn, AtaStatusBad
  <2> QED BY <1>0, <2>1, AgainStep
<1>3. CASE ~(~AtaStatusBad /\ ~reply.io /\ ~Buffered)
  <2>1. /\ pc' = "return" /\ try' = try /\ buf' = CopiedBack
        /\ res'.code = IF AtaStatusBad THEN "ATA_FAILED" ELSE IF reply.io THEN "OK" ELSE "SYS"
    BY <1>3 DEF AtaReturn, Finish, Result
  <2>2. WentWell /\ req.dir = "in" => buf' = "drive"
    BY <1>0, <1>1, <2>1, WinReplyFacts DEF CopiedBack, Reached, Explicit
  <2>3. req.dir = "out" => buf' = buf
    BY <1>0, <1>1, <2>1 DEF CopiedBack
  <2>4. AtaStatusBad => ~reply.io \/ reply.err
    BY <1>0 DEF CallInv, TryInv, AtaStatusBad
  <2>5. ~AtaStatusBad /\ reply.io /\ ~Buffered => ~reply.err
    BY DEF AtaStatusBad
  <2> QED BY <1>0, <1>1, <2>1, <2>2, <2>3, <2>4, <2>5, WinReturnStep
<1> QED BY <1>2, <1>3

LEMMA NvmeWinReturnStep ==
  ASSUME CallInv, NvmeWinReturn, UNCHANGED linuxVars
  PROVE  CallInv'
<1>0. /\ driver = "nvmewin" /\ driver \in WinDrivers /\ pc = "reply" /\ pc' = "return"
      /\ UNCHANGED <<driver, req, try, cdb, reply, regs, ran>>
      /\ buf' = CopiedBack
      /\ res'.code = IF reply.io THEN "OK" ELSE "IOCTL_FAILED"
  BY DEF NvmeWinReturn, WinDrivers, Finish, Result
<1>1. req.kind = "admin" /\ ~Scsi
  <2>1. req.kind \in Overrides[driver]
    BY <1>0, WinReplyFacts
  <2> QED BY <1>0, <2>1 DEF Scsi, Overrides
<1>2. WentWell /\ req.dir = "in" => buf' = IF req.long THEN "part" ELSE "drive"
  BY <1>0, <1>1, WinReplyFacts DEF CopiedBack, Own
<1> QED BY <1>0, <1>1, <1>2, WinReturnStep

LEMMA LogReturnStep ==
  ASSUME CallInv, LogReturn, UNCHANGED linuxVars
  PROVE  CallInv'
<1>0. /\ driver = "winnvme" /\ driver \in WinDrivers /\ pc = "reply" /\ pc' = "return" /\ req.kind = "log"
      /\ UNCHANGED <<driver, req, try, cdb, reply, regs, ran>>
      /\ buf' = IF reply.io /\ ~reply.err THEN CopiedBack ELSE buf
      /\ res'.code = IF reply.io /\ ~reply.err THEN "OK" ELSE "SYS"
  BY DEF LogReturn, WinDrivers, Finish, Result
<1>1. req.dir = "in" /\ ~Scsi
  <2>1. Sensible(req)
    BY <1>0, WinReplyFacts
  <2> QED BY <1>0, <2>1 DEF Scsi, Sensible
<1>2. WentWell => buf' = IF req.long THEN "part" ELSE "drive"
  BY <1>0, <1>1, WinReplyFacts DEF CopiedBack, Own
<1> QED BY <1>0, <1>1, <1>2, WinReturnStep

-----------------------------------------------------------------------------
(* CallInv is inductive *)

LEMMA CallStart == Init => CallInv
<1>1. Init => pc = "idle" /\ TypeOK /\ KeptInv /\ (driver # "sg" => phase = "open" /\ ~is_apt)
  <2> SUFFICES ASSUME Init
               PROVE  pc = "idle" /\ TypeOK /\ KeptInv /\ (driver # "sg" => phase = "open" /\ ~is_apt)
    OBVIOUS
  <2>1. /\ driver \in LinuxDrivers \cup WinDrivers /\ phase \in {"closed", "open"} /\ is_apt = FALSE
        /\ driver # "sg" => phase = "open"
        /\ pc = "idle" /\ try = 0 /\ cdb = NoCdb /\ reply = NoReply /\ ran = 0 /\ req = IdentifyTask
    BY DEF Init, CallInit
  <2>2. TypeOK
    BY <2>1, IdentifySensible DEF TypeOK, NoCdb, NoReply, Reply
  <2>3. KeptInv
    BY <2>1 DEF KeptInv, IdentifyTask, Task
  <2> QED BY <2>1, <2>2, <2>3
<1> QED BY <1>1 DEF CallInv, HandleInv, EarlyInv, SentInv, ReplyInv, SgReplyInv, NvmeReplyInv,
  WinReplyInv, TryInv, SgResultInv, NvmeResultInv, WinResultInv, Chosen, Answered

LEMMA CallStep ==
  ASSUME CallInv, [Next]_vars
  PROVE  CallInv'
<1>1. CASE \E n \in Node : SgOpen(n)
  <2>1. /\ driver = "sg" /\ pc = "idle" /\ UNCHANGED callVars
        /\ phase' = "detect" /\ is_apt' \in BOOLEAN
    BY <1>1 DEF SgOpen
  <2>2. TypeOK' /\ KeptInv'
    BY <2>1 DEF CallInv, TypeOK, KeptInv, callVars
  <2> QED BY <2>1, <2>2, IdleStep DEF callVars
<1>2. CASE Detect
  <2>1. pc = "idle" /\ driver = "sg"
    BY <1>2 DEF Detect, CallInv, HandleInv, TypeOK
  <2>2. UNCHANGED callVars /\ phase' \in {"registers", "identify"} /\ is_apt' \in BOOLEAN
    BY <1>2 DEF Detect, Known
  <2>3. TypeOK' /\ KeptInv'
    BY <2>1, <2>2 DEF CallInv, TypeOK, KeptInv, callVars
  <2> QED BY <2>1, <2>2, <2>3, IdleStep DEF callVars
<1>3. CASE Close
  <2>1. pc = "idle" /\ driver = "sg" /\ UNCHANGED callVars /\ phase' = "closed" /\ is_apt' = is_apt
    BY <1>3 DEF Close
  <2>2. TypeOK' /\ KeptInv'
    BY <2>1 DEF CallInv, TypeOK, KeptInv, callVars
  <2> QED BY <2>1, <2>2, IdleStep DEF callVars
<1>4. CASE DetectRead \/ Hotplug \/ UNCHANGED vars
  BY <1>4, CallUnchanged DEF DetectRead, Hotplug, vars, linuxVars, sgVars
<1>5. CASE OpenCall
  <2>1. IdentifyTask \in Tasks \cup Others
    BY DEF Tasks
  <2> QED BY <1>5, <2>1, BeginStep DEF OpenCall, linuxVars, sgVars
<1>6. ASSUME NEW r \in Tasks \cup Others, Call(r) PROVE CallInv'
  BY <1>6, BeginStep DEF Call, linuxVars, sgVars
<1>7. CASE RegistersRead
  <2>1. driver = "sg"
    BY <1>7 DEF RegistersRead, CallInv, HandleInv
  <2> QED BY <1>7, <2>1, ForgetStep DEF RegistersRead
<1>8. CASE Identified
  <2>1. driver = "sg" /\ phase' \in {"closed", "open"}
    BY <1>8 DEF Identified, CallInv, HandleInv
  <2> QED BY <1>8, <2>1, ForgetStep DEF Identified
<1>9. CASE Take
  BY <1>9, ForgetStep DEF Take, linuxVars, sgVars
<1>10. CASE SgCall \/ SgKernel \/ SgReturn
  BY <1>10, SgCallStep, SgKernelStep, SgReturnStep
<1>11. CASE NvmeCall \/ NvmeKernel \/ NvmeReturn
  BY <1>11, NvmeCallStep, NvmeKernelStep, NvmeReturnStep
<1>12. CASE Windows
  <2>1. UNCHANGED linuxVars
    BY <1>12 DEF Windows
  <2>2. CASE ScsiCall \/ AtaCall \/ NvmeWinCall \/ LogCall
    BY <2>1, <2>2, WinCallStep
  <2>3. CASE WinUnsupported \/ WinKernel
    BY <2>1, <2>3, WinUnsupportedStep, WinKernelStep
  <2>4. CASE ScsiReturn \/ AtaReturn \/ NvmeWinReturn \/ LogReturn
    BY <2>1, <2>4, ScsiReturnStep, AtaReturnStep, NvmeWinReturnStep, LogReturnStep
  <2> QED BY <1>12, <2>2, <2>3, <2>4 DEF Windows
<1> QED BY <1>1, <1>2, <1>3, <1>4, <1>5, <1>6, <1>7, <1>8, <1>9, <1>10, <1>11, <1>12 DEF Next

(***************************************************************************)
(* Whatever driver is behind the handle, and wherever in a call it is, the *)
(* command under way, the reply, the buffer and the result agree as        *)
(* CallInv says (sgio.cc, apt.cc and the drivers of plat-win).             *)
(***************************************************************************)
THEOREM CallCorrect == Spec => []CallInv
<1>1. CallInv /\ [Next]_vars => CallInv'
  BY CallStep
<1> QED BY <1>1, CallStart, PTL DEF Spec

\* A driver's own view of a call that ended well.
LEMMA SgOkFacts ==
  ASSUME CallInv, driver = "sg", Ok
  PROVE  /\ Answered /\ (WentWell \/ Overlooked)
         /\ cdb.type = "ata16" => reply.io /\ ~BadTransport /\ (reply.drv = "none" \/ reply.sense = "desc")
<1>1. pc = "return" /\ cdb.type # "none" /\ Answered
  BY DEF Ok, CallInv, EarlyInv, Answered, Chosen
<1>2. /\ res = IF cdb.type = "jmicron" THEN JMicronOutcome ELSE SgOutcome
      /\ reply.err => reply.scsi = "check"
      /\ reply.scsi \in {"good", "check", "busy"} /\ reply.drv \in {"none", "sense", "bad"}
      /\ reply.io \in BOOLEAN /\ reply.host \in BOOLEAN /\ reply.err \in BOOLEAN
  BY <1>1 DEF CallInv, SgResultInv, SgReplyInv, TypeOK
<1>3. CASE cdb.type = "jmicron"
  <2>1. reply.io /\ ~reply.host /\ reply.drv = "none"
    BY <1>2, <1>3 DEF JMicronOutcome, Result, Ok
  <2>2. WentWell \/ reply.scsi # "good"
    BY <1>2, <2>1 DEF WentWell, BadTransport
  <2> QED BY <1>1, <1>3, <2>2 DEF Overlooked
<1>4. CASE cdb.type # "jmicron"
  <2>1. /\ reply.io /\ ~BadTransport /\ ~(reply.sense = "desc" /\ reply.err)
        /\ reply.drv # "sense" \/ reply.sense = "desc"
    BY <1>2, <1>4 DEF SgOutcome, Result, Ok
  <2>2. reply.drv # "bad"
    BY <2>1 DEF BadTransport
  <2>3. WentWell \/ (reply.err /\ reply.drv = "none" /\ reply.sense # "desc")
    BY <1>2, <2>1, <2>2 DEF WentWell
  <2> QED BY <1>1, <1>2, <2>1, <2>2, <2>3 DEF Overlooked
<1> QED BY <1>3, <1>4

LEMMA WinOkFacts ==
  ASSUME CallInv, driver \in WinDrivers, Ok, ~Overlooked
  PROVE  Answered /\ WentWell /\ Reached /\ Explicit
<1>1. pc = "return" /\ cdb.type # "none" /\ Answered
  BY DEF Ok, CallInv, EarlyInv, Answered, Chosen
<1>2. /\ ~BadTransport /\ reply.io
      /\ Scsi /\ reply.err => reply.sense \in {"valid", "novalid"}
      /\ Scsi => ~(req.dir # "none" /\ reply.sense = "valid" /\ reply.err)
      /\ driver = "ata" /\ ~Buffered => ~reply.err
      /\ req.kind = "log" => ~reply.err
      /\ req.kind \in Overrides[driver]
  <2>1. WinResultInv /\ WinReplyInv /\ SentInv /\ pc = "return" /\ Answered /\ Chosen /\ res.code = "OK"
    BY <1>1 DEF Ok, CallInv, Answered
  <2>2. reply.io /\ (Scsi => ~(req.dir # "none" /\ reply.sense = "valid" /\ reply.err))
    BY <2>1 DEF WinResultInv
  <2>3. (driver = "ata" /\ ~Buffered => ~reply.err) /\ (req.kind = "log" => ~reply.err)
    BY <2>1 DEF WinResultInv
  <2>4. ~BadTransport /\ (Scsi /\ reply.err => reply.sense \in {"valid", "novalid"})
    BY <2>1 DEF WinReplyInv
  <2>5. req.kind \in Overrides[driver]
    BY <2>1 DEF SentInv
  <2> QED BY <2>2, <2>3, <2>4, <2>5
<1>3. Reached /\ Explicit
  BY DEF Overlooked, Reached
<1>4. ~reply.err
  <2>1. CASE Scsi
    BY <1>2, <2>1 DEF Overlooked
  <2>2. CASE driver = "ata"
    BY <1>2, <2>2 DEF Overlooked
  <2>3. CASE driver = "nvmewin"
    BY <2>3 DEF Overlooked
  <2>4. CASE driver = "winnvme" /\ ~Scsi
    BY <1>2, <2>4 DEF Scsi, Overrides
  <2> QED BY <2>1, <2>2, <2>3, <2>4 DEF WinDrivers, Scsi
<1> QED BY <1>1, <1>2, <1>3, <1>4 DEF WentWell

LEMMA NvmeOkFacts ==
  ASSUME CallInv, driver = "nvme", Ok
  PROVE  Answered /\ WentWell
BY DEF Ok, CallInv, EarlyInv, Answered, Chosen, NvmeResultInv, NvmeReplyInv, WentWell

\* However the call ended well, it did.
LEMMA OkWentWell ==
  ASSUME CallInv, Ok, ~Overlooked
  PROVE  Answered /\ WentWell /\ Reached /\ Explicit
<1>1. CASE driver = "sg"
  BY <1>1, SgOkFacts DEF Explicit, Reached
<1>2. CASE driver = "nvme"
  BY <1>2, NvmeOkFacts DEF Explicit, Reached
<1>3. CASE driver \in WinDrivers
  BY <1>3, WinOkFacts
<1> QED BY <1>1, <1>2, <1>3 DEF CallInv, TypeOK, LinuxDrivers

(***************************************************************************)
(* For every driver, request and number of tries, a call that returns      *)
(* DPARME_OK was carried out by the drive, but for what Overlooked names:  *)
(* the SCSI status behind a JMicron bridge (apt.cc), a CHECK CONDITION     *)
(* that is not announced (sgio.cc), what the Windows drivers do not look   *)
(* at (scsi_driver.cc, ata_driver.cc, nvme_win_driver.cc), and the         *)
(* taskfiles of ScsiDriver, which ask for nothing.                         *)
(***************************************************************************)
THEOREM SuccessEarned == Spec => []OkIsEarned
<1>1. CallInv => OkIsEarned
  BY OkWentWell DEF OkIsEarned, CallInv, ReplyInv
<1> QED BY <1>1, CallCorrect, PTL

(***************************************************************************)
(* With DPARME_OK a buffer that was to be read holds the drive's data,     *)
(* after a first or a second try, through a copy or without one; what was  *)
(* to be written is as the caller left it, except after the miniport       *)
(* command of nvme_win_driver.cc, which copies back whatever the           *)
(* direction.                                                              *)
(***************************************************************************)
THEOREM DataCorrect == Spec => []DataIsTheDrives
<1>1. ASSUME CallInv, Ok, req.dir = "in", ~Overlooked
      PROVE  buf = IF req.long /\ driver \in WinDrivers THEN "part" ELSE "drive"
  <2>1. Answered /\ WentWell /\ Explicit /\ pc = "return"
    BY <1>1, OkWentWell DEF Ok
  <2>2. CASE driver \in LinuxDrivers
    BY <1>1, <2>1, <2>2 DEF CallInv, ReplyInv, LinuxDrivers, WinDrivers
  <2>3. CASE driver \in WinDrivers
    BY <1>1, <2>1, <2>3 DEF CallInv, WinResultInv
  <2> QED BY <1>1, <2>2, <2>3 DEF CallInv, TypeOK
<1>2. ASSUME CallInv, Ok, req.dir = "out", driver # "nvmewin"
      PROVE  buf = "caller"
  BY <1>2 DEF CallInv, KeptInv, Ok
<1>3. CallInv => DataIsTheDrives
  <2> SUFFICES ASSUME CallInv PROVE DataIsTheDrives
    OBVIOUS
  <2>1. Ok /\ req.dir = "in" /\ ~Overlooked => buf = IF req.long /\ driver \in WinDrivers THEN "part" ELSE "drive"
    BY <1>1
  <2>2. req.dir = "out" /\ driver # "nvmewin" => buf = "caller"
    BY <1>2 DEF CallInv, KeptInv
  <2> QED BY <2>1, <2>2 DEF DataIsTheDrives
<1> QED BY <1>3, CallCorrect, PTL

(***************************************************************************)
(* When sg16 says DPARME_OK to a command without data, the registers in    *)
(* the taskfile are the drive's, unless the sense data that was demanded   *)
(* was not announced; so for any bridge, also one whose sense data has no  *)
(* room for them (sgio.cc).                                                *)
(***************************************************************************)
THEOREM RegistersCorrect == Spec => []RegistersAreTheDrives
<1>1. ASSUME CallInv, Ok, req.kind = "taskfile", req.dir = "none", driver = "sg", ~is_apt
      PROVE  regs = "drive" \/ (cdb.check /\ reply.drv = "none" /\ reply.sense # "desc")
  <2>1. Answered /\ pc = "return" /\ Chosen
    BY <1>1, SgOkFacts DEF Ok, Answered
  <2>2. cdb.type = "ata16" /\ cdb.check
    BY <1>1, <2>1 DEF CallInv, SentInv
  <2>3. reply.io /\ ~BadTransport /\ (reply.drv = "none" \/ reply.sense = "desc")
    BY <1>1, <2>2, SgOkFacts
  <2> QED BY <1>1, <2>1, <2>2, <2>3 DEF CallInv, SgResultInv
<1>2. CallInv => RegistersAreTheDrives
  BY <1>1 DEF RegistersAreTheDrives
<1> QED BY <1>2, CallCorrect, PTL

(***************************************************************************)
(* An error that a driver returns is one of the ioctl, the transport, the  *)
(* bridge or the drive; in particular the byte of the command that         *)
(* AtaDriver reads as a status makes no failure of a command that went     *)
(* well (ata_driver.cc), because a second try is only made when it looks   *)
(* harmless.                                                               *)
(***************************************************************************)
THEOREM FailureHasCause == Spec => []FailureIsReal
<1>1. ASSUME CallInv, pc = "return", res.code \in {"SYS", "ATA_FAILED", "NVME_FAILED", "IOCTL_FAILED"}
      PROVE  \/ cdb.type # "none" /\ (~reply.io \/ BadTransport \/ reply.err)
             \/ is_apt /\ req.ext /\ cdb.type = "none"
             \/ reply.drv = "sense" /\ reply.sense # "desc" /\ req.dir = "none"
  <2>1. CASE cdb.type = "none"
    BY <1>1, <2>1 DEF CallInv, EarlyInv
  <2>2. CASE cdb.type # "none" /\ driver = "sg"
    <3>1. Answered /\ Chosen
      BY <1>1, <2>2 DEF Answered, Chosen
    <3>2. /\ res = IF cdb.type = "jmicron" THEN JMicronOutcome ELSE SgOutcome
          /\ reply.drv = "sense" => reply.err \/ cdb.check
          /\ cdb.check <=> (cdb.type = "ata16" /\ req.dir = "none")
          /\ reply.drv \in {"none", "sense", "bad"}
      BY <1>1, <2>2, <3>1 DEF CallInv, SgResultInv, SgReplyInv, SentInv, TypeOK
    <3>3. CASE cdb.type = "jmicron"
      <4>1. ~reply.io \/ reply.host \/ reply.drv # "none"
        BY <1>1, <3>2, <3>3 DEF JMicronOutcome, Result
      <4> QED BY <2>2, <3>2, <3>3, <4>1 DEF BadTransport
    <3>4. CASE cdb.type # "jmicron"
      <4>1. ~reply.io \/ BadTransport \/ reply.err \/ (reply.drv = "sense" /\ reply.sense # "desc")
        BY <1>1, <3>2, <3>4 DEF SgOutcome, Result
      <4> QED BY <2>2, <3>2, <3>4, <4>1 DEF WentWell
    <3> QED BY <3>3, <3>4
  <2>3. CASE cdb.type # "none" /\ driver = "nvme"
    BY <1>1, <2>3 DEF CallInv, NvmeResultInv, Answered, Chosen
  <2>4. CASE cdb.type # "none" /\ driver \in WinDrivers
    BY <1>1, <2>4 DEF CallInv, WinResultInv, Answered, Chosen
  <2> QED BY <1>1, <2>1, <2>2, <2>3, <2>4 DEF CallInv, TypeOK, LinuxDrivers
<1>2. CallInv => FailureIsReal
  BY <1>1 DEF FailureIsReal
<1> QED BY <1>2, CallCorrect, PTL

-----------------------------------------------------------------------------
(* What is found in /sys *)

LEMMA HomeIsDisk ==
  ASSUME NEW n \in Node
  PROVE  HomeOf(n) \in Disk
BY SysfsAssumption DEF HomeOf, Node

\* The entry with the number of a node is the node's own.
LEMMA NumberIsOwn ==
  ASSUME NEW n \in Node, NEW m \in Node, Number[n] = Number[m]
  PROVE  n = m
BY SysfsAssumption

LEMMA FoundIsOwn ==
  ASSUME NEW n \in Node, Behind(n) # None, Number[n][1] = Number[HomeOf(n)][1]
  PROVE  sysfs_find_dev(n) = {n}
<1>1. n \in sysfs_find_dev(n)
  BY DEF sysfs_find_dev
<1>2. ASSUME NEW m \in sysfs_find_dev(n) PROVE m = n
  BY <1>2, NumberIsOwn DEF sysfs_find_dev
<1> QED BY <1>1, <1>2

\* A path that is found has the number that it was looked for.
LEMMA FoundPath ==
  ASSUME NEW n, sysfs_find_dev(n) # {}
  PROVE  LET m == CHOOSE m \in sysfs_find_dev(n) : TRUE
         IN  m \in sysfs_find_dev(n) /\ m \in Node /\ Number[m] = Number[n]
<1>1. (CHOOSE m \in sysfs_find_dev(n) : TRUE) \in sysfs_find_dev(n)
  OBVIOUS
<1> QED BY <1>1 DEF sysfs_find_dev

LEMMA ReadStep ==
  ASSUME BridgeInv, ReadAttr
  PROVE  /\ prev' # None => prev'.path \in Node /\ prev'.number = Number[prev'.path]
         /\ ids' = Append(ids, sysfs_get_attr_recursive) /\ sysfs_get_attr_recursive \in Drive \cup {None}
         /\ Alive /\ RightMajor => sysfs_get_attr_recursive = Told
<1>0. /\ prev # None => prev.path \in Node /\ prev.number = Number[prev.path]
      /\ ids' = Append(ids, sysfs_get_attr_recursive)
  BY DEF BridgeInv, ReadAttr
<1>1. prev' # None => prev'.path \in Node /\ prev'.number = Number[prev'.path]
  <2>1. CASE UNCHANGED prev
    BY <1>0, <2>1
  <2>2. CASE /\ sysfs_find_dev(fd.node) # {}
             /\ prev' = [number |-> Number[fd.node], path |-> CHOOSE m \in sysfs_find_dev(fd.node) : TRUE]
    BY <2>2, FoundPath
  <2>3. CASE prev' = None
    BY <2>3
  <2> QED BY <2>1, <2>2, <2>3 DEF ReadAttr, sysfs_find_fd
<1>2. sysfs_get_attr_recursive \in Drive \cup {None}
  <2>1. CASE prev' # None /\ sysfs_find_attr_file_path(prev'.path)
    BY <2>1 DEF sysfs_get_attr_recursive, sysfs_find_attr_file_path, Drive
  <2>2. CASE ~(prev' # None /\ sysfs_find_attr_file_path(prev'.path))
    BY <2>2 DEF sysfs_get_attr_recursive
  <2> QED BY <2>1, <2>2
<1>3. ASSUME Alive, RightMajor
      PROVE  sysfs_get_attr_recursive = Told
  <2>1. /\ fd.node \in Node /\ fd.drive = Behind(fd.node) /\ fd.drive # None
        /\ Number[fd.node][1] = Number[HomeOf(fd.node)][1]
    BY <1>3 DEF BridgeInv, Alive, RightMajor
  <2>2. prev' # None /\ prev'.path = fd.node
    <3>1. CASE prev # None /\ prev.number = Number[fd.node]
      <4>1. prev' = prev
        BY <3>1 DEF ReadAttr, sysfs_find_fd
      <4> QED BY <1>0, <2>1, <3>1, <4>1, NumberIsOwn
    <3>2. CASE ~(prev # None /\ prev.number = Number[fd.node])
      <4>1. sysfs_find_dev(fd.node) = {fd.node}
        BY <2>1, FoundIsOwn
      <4>2. (CHOOSE m \in {fd.node} : TRUE) = fd.node
        OBVIOUS
      <4>3. prev' = [number |-> Number[fd.node], path |-> fd.node]
        BY <3>2, <4>1, <4>2 DEF ReadAttr, sysfs_find_fd
      <4> QED BY <2>1, <4>3, SysfsAssumption
    <3> QED BY <3>1, <3>2
  <2> QED BY <2>1, <2>2 DEF sysfs_get_attr_recursive, sysfs_find_attr_file_path, Told
<1> QED BY <1>0, <1>1, <1>2, <1>3

LEMMA AppendToAll ==
  ASSUME NEW S, NEW s \in Seq(S), NEW e \in S, \A i \in 1..Len(s) : s[i] = e
  PROVE  Append(s, e) \in Seq(S) /\ \A i \in 1..Len(Append(s, e)) : Append(s, e)[i] = e
<1>1. /\ Append(s, e) \in Seq(S) /\ Len(Append(s, e)) = Len(s) + 1 /\ Len(s) \in Nat
      /\ \A i \in 1..Len(s) : Append(s, e)[i] = s[i]
      /\ Append(s, e)[Len(s) + 1] = e
  BY AppendProperties, LenProperties
<1>2. ASSUME NEW i \in 1..Len(Append(s, e)) PROVE Append(s, e)[i] = e
  BY <1>1, <1>2
<1> QED BY <1>1, <1>2

\* Nothing is learnt of a bridge while a handle is open, and /sys stays as it is.
LEMMA BridgeUnchanged ==
  ASSUME BridgeInv, UNCHANGED <<driver, at, fd, prev, ids, is_apt>>,
         phase' = phase \/ (phase' # "detect" /\ (phase \in {"registers", "identify", "open"} \/ fd' = None))
  PROVE  BridgeInv'
<1>1. (Alive' <=> Alive) /\ Told' = Told /\ (RightMajor' <=> RightMajor)
      /\ (Alive => Behind(fd.node)' = Behind(fd.node))
  BY DEF Alive, Told, RightMajor, Behind
<1>2. BridgeIsRight'
  BY <1>1 DEF BridgeInv, BridgeIsRight, Alive
<1> QED BY <1>1, <1>2 DEF BridgeInv, Alive

\* Without a descriptor nothing is claimed but of the path and the machine.
LEMMA BridgeClosed ==
  ASSUME BridgeInv, fd' = None, UNCHANGED <<at, prev, ids>>
  PROVE  BridgeInv'
<1>1. ~Alive'
  BY DEF Alive
<1> QED BY <1>1 DEF BridgeInv, BridgeIsRight

LEMMA SgOpenBridge ==
  ASSUME BridgeInv, NEW n \in Node, SgOpen(n)
  PROVE  BridgeInv'
<1>1. /\ fd' = [node |-> n, drive |-> Behind(n)] /\ at' = at /\ prev' = prev
      /\ ids' = <<>> /\ phase' = "detect" /\ Behind(n) # None
  BY DEF SgOpen
<1>2. Behind(n) \in Drive \cup {None}
  BY HomeIsDisk DEF BridgeInv, Behind
<1>3. fd' \in [node : Node, drive : Drive \cup {None}] /\ fd'.node = n /\ fd'.drive = Behind(n)
  BY <1>1, <1>2
<1>4. Behind(n)' = Behind(n)
  BY <1>1 DEF Behind
<1>5. ids' \in Seq(Drive \cup {None}) /\ \A i \in 1..Len(ids') : ids'[i] = Told'
  BY <1>1
<1>6. Alive' => fd'.drive = Behind(fd.node)'
  BY <1>1, <1>3 DEF Behind
<1>7. BridgeIsRight'
  BY <1>1 DEF BridgeIsRight
<1> QED BY <1>1, <1>3, <1>5, <1>6, <1>7 DEF BridgeInv

LEMMA DetectReadBridge ==
  ASSUME BridgeInv, DetectRead
  PROVE  BridgeInv'
<1>0. ReadAttr /\ phase = "detect" /\ phase' = "detect" /\ at' = at /\ fd' = fd
  BY DEF DetectRead, ReadAttr, sgVars
<1>1. /\ prev' # None => prev'.path \in Node /\ prev'.number = Number[prev'.path]
      /\ ids' = Append(ids, sysfs_get_attr_recursive) /\ sysfs_get_attr_recursive \in Drive \cup {None}
      /\ Alive /\ RightMajor => sysfs_get_attr_recursive = Told
  BY <1>0, ReadStep
<1>2. ids \in Seq(Drive \cup {None})
  BY DEF BridgeInv
<1>3. ids' \in Seq(Drive \cup {None})
  BY <1>1, <1>2, AppendProperties
<1>4. (Alive' <=> Alive) /\ Told' = Told /\ (RightMajor' <=> RightMajor)
  BY <1>0 DEF Alive, Told, RightMajor
<1>5. ASSUME Alive', RightMajor' PROVE \A i \in 1..Len(ids') : ids'[i] = Told'
  <2>1. (\A i \in 1..Len(ids) : ids[i] = Told) /\ sysfs_get_attr_recursive = Told
    BY <1>0, <1>1, <1>4, <1>5 DEF BridgeInv
  <2>2. Told \in Drive \cup {None} /\ ids' = Append(ids, Told)
    BY <1>1, <2>1
  <2> QED BY <1>2, <1>4, <2>1, <2>2, AppendToAll
<1>6. Alive' => fd'.drive = Behind(fd.node)'
  BY <1>0, <1>4 DEF BridgeInv, Behind
<1>7. BridgeIsRight'
  BY <1>0 DEF BridgeIsRight
<1> QED BY <1>0, <1>1, <1>3, <1>5, <1>6, <1>7 DEF BridgeInv

\* apt_detect knows the bridge exactly if it is JMicron's: an attribute read
\* from it is the same each time.
LEMMA DetectBridge ==
  ASSUME BridgeInv, Detect
  PROVE  BridgeInv'
<1>0. /\ phase = "detect" /\ AllRead /\ (is_apt' <=> Known) /\ phase' \in {"registers", "identify"}
      /\ ids' = <<>> /\ at' = at /\ fd' = fd /\ prev' = prev
  BY DEF Detect
<1>1. (Alive' <=> Alive) /\ (RightMajor' <=> RightMajor)
  BY <1>0 DEF Alive, RightMajor
<1>2. Alive' => fd'.drive = Behind(fd.node)'
  BY <1>0, <1>1 DEF BridgeInv, Behind
<1>3. ASSUME Alive, RightMajor PROVE Known <=> fd.drive \in JMicron
  <2>1. \A i \in 1..Len(ids) : ids[i] = Told
    BY <1>0, <1>3 DEF BridgeInv
  <2>2. fd.drive \in Drive /\ Len(ids) \in Nat /\ Len(ids) >= 1
    BY <1>0, <1>3, EmptySeq, LenProperties DEF BridgeInv, Alive, AllRead
  <2>3. CASE fd.drive \in JMicron
    <3>1. Told = fd.drive /\ Told # None
      BY <2>2, <2>3, SysfsAssumption DEF Told
    <3>2. Len(ids) = 3
      BY <1>0, <2>1, <2>2, <3>1 DEF AllRead
    <3> QED BY <2>1, <2>3, <3>1, <3>2 DEF Known
  <2>4. CASE fd.drive \notin JMicron
    <3>1. Told \notin JMicron
      BY <2>4, SysfsAssumption DEF Told, Drive
    <3> QED BY <2>1, <2>2, <2>4, <3>1 DEF Known
  <2> QED BY <2>3, <2>4
<1>4. BridgeIsRight'
  BY <1>0, <1>1, <1>3 DEF BridgeIsRight, RightMajor
<1> QED BY <1>0, <1>1, <1>2, <1>4 DEF BridgeInv

LEMMA HotplugBridge ==
  ASSUME BridgeInv, Hotplug
  PROVE  BridgeInv'
<1>0. UNCHANGED <<prev, ids, phase, is_apt, driver>>
  BY DEF Hotplug, Unplug, Plug, sgVars, callVars
<1>1. ASSUME NEW k \in Disk, Unplug(k) PROVE BridgeInv'
  <2>1. at' = [at EXCEPT ![k] = None] /\ at' \in [Disk -> Drive \cup {None}]
    BY <1>1 DEF Unplug, BridgeInv
  <2>2. CASE fd # None /\ HomeOf(fd.node) = k
    <3>1. fd' = [fd EXCEPT !.drive = None] /\ fd \in [node : Node, drive : Drive \cup {None}]
      BY <1>1, <2>2 DEF Unplug, BridgeInv
    <3>2. fd' \in [node : Node, drive : Drive \cup {None}] /\ fd'.drive = None
      BY <3>1
    <3>3. ~Alive'
      BY <3>2 DEF Alive
    <3> QED BY <1>0, <2>1, <3>2, <3>3 DEF BridgeInv, BridgeIsRight
  <2>3. CASE ~(fd # None /\ HomeOf(fd.node) = k)
    <3>1. fd' = fd
      BY <1>1, <2>3 DEF Unplug
    <3>2. (Alive' <=> Alive) /\ (RightMajor' <=> RightMajor) /\ Told' = Told
      BY <3>1 DEF Alive, RightMajor, Told
    <3>3. Alive => HomeOf(fd.node) \in Disk /\ HomeOf(fd.node) # k
      BY <2>3, HomeIsDisk DEF Alive, BridgeInv
    <3>4. Alive' => fd'.drive = Behind(fd.node)'
      BY <2>1, <3>1, <3>2, <3>3 DEF BridgeInv, Behind
    <3>5. BridgeIsRight'
      BY <1>0, <3>1, <3>2 DEF BridgeInv, BridgeIsRight
    <3> QED BY <1>0, <2>1, <3>1, <3>2, <3>4, <3>5 DEF BridgeInv
  <2> QED BY <2>2, <2>3
<1>2. ASSUME NEW k \in Disk, NEW d \in Drive, Plug(k, d) PROVE BridgeInv'
  <2>1. /\ at' = [at EXCEPT ![k] = d] /\ at' \in [Disk -> Drive \cup {None}] /\ fd' = fd /\ at[k] = None
    BY <1>2 DEF Plug, BridgeInv
  <2>2. (Alive' <=> Alive) /\ (RightMajor' <=> RightMajor) /\ Told' = Told
    BY <2>1 DEF Alive, RightMajor, Told
  <2>3. Alive => HomeOf(fd.node) \in Disk /\ HomeOf(fd.node) # k
    BY <2>1, HomeIsDisk DEF Alive, BridgeInv, Behind
  <2>4. Alive' => fd'.drive = Behind(fd.node)'
    BY <2>1, <2>2, <2>3 DEF BridgeInv, Behind
  <2>5. BridgeIsRight'
    BY <1>0, <2>1, <2>2 DEF BridgeInv, BridgeIsRight
  <2> QED BY <1>0, <2>1, <2>2, <2>4, <2>5 DEF BridgeInv
<1> QED BY <1>1, <1>2 DEF Hotplug

LEMMA BridgeStart == Init => BridgeInv
<1> SUFFICES ASSUME Init PROVE BridgeInv
  OBVIOUS
<1>1. /\ fd = None /\ prev = None /\ ids = <<>> /\ phase \in {"closed", "open"}
      /\ at \in [Disk -> Drive \cup {None}]
  BY DEF Init
<1> QED BY <1>1 DEF BridgeInv, BridgeIsRight, Alive

LEMMA BridgeStep ==
  ASSUME BridgeInv, [Next]_vars
  PROVE  BridgeInv'
<1>1. ASSUME NEW n \in Node, SgOpen(n) PROVE BridgeInv'
  BY <1>1, SgOpenBridge
<1>2. CASE DetectRead \/ Detect \/ Hotplug
  BY <1>2, DetectReadBridge, DetectBridge, HotplugBridge
<1>3. CASE Close
  BY <1>3, BridgeClosed DEF Close
<1>4. CASE Identified
  <2>1. phase = "identify" /\ UNCHANGED <<driver, at, prev, ids, is_apt>>
    BY <1>4 DEF Identified
  <2>2. CASE fd' = None
    BY <2>1, <2>2, BridgeClosed
  <2>3. CASE fd' = fd /\ phase' = "open"
    BY <2>1, <2>3, BridgeUnchanged
  <2> QED BY <1>4, <2>2, <2>3 DEF Identified
<1>5. CASE RegistersRead
  <2>1. UNCHANGED <<driver, at, fd, prev, ids, is_apt>> /\ phase = "registers" /\ phase' = "identify"
    BY <1>5 DEF RegistersRead, sysfsVars
  <2> QED BY <2>1, BridgeUnchanged
<1>6. CASE UNCHANGED <<driver, linuxVars>>
  BY <1>6, BridgeUnchanged DEF linuxVars, sysfsVars, sgVars
<1>7. OpenCall \/ SgCall \/ SgKernel \/ SgReturn \/ NvmeCall \/ NvmeKernel \/ NvmeReturn \/ Take
      \/ (\E r \in Tasks \cup Others : Call(r)) => UNCHANGED <<driver, linuxVars>>
  BY DEF OpenCall, Call, SgCall, SgKernel, SgReturn, NvmeCall, NvmeKernel, NvmeReturn, Take
<1>8. Windows => UNCHANGED <<driver, linuxVars>>
  BY DEF Windows, ScsiCall, AtaCall, NvmeWinCall, LogCall, Sent, WinUnsupported, WinKernel,
    ScsiReturn, AtaReturn, NvmeWinReturn, LogReturn
<1>9. UNCHANGED vars => UNCHANGED <<driver, linuxVars>>
  BY DEF vars, callVars
<1> QED BY <1>1, <1>2, <1>3, <1>4, <1>5, <1>6, <1>7, <1>8, <1>9 DEF Next

(***************************************************************************)
(* apt_detect takes a drive for one behind a JMicron bridge exactly if it  *)
(* is, for any disks and partitions, although it reads three attributes    *)
(* one by one, by a path that may have been kept from another descriptor   *)
(* (sysfs_utils.cc), while drives come and go.                             *)
(***************************************************************************)
THEOREM BridgeKnown == Spec => []BridgeIsRight
<1>1. BridgeInv /\ [Next]_vars => BridgeInv'
  BY BridgeStep
<1>2. BridgeInv => BridgeIsRight
  BY DEF BridgeInv
<1> QED BY <1>1, <1>2, BridgeStart, PTL DEF Spec

=============================================================================
