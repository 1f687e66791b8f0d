------------------------------ MODULE Queries -------------------------------
(***************************************************************************)
(* What DriveHandleBase asks of a drive, beyond TCG                        *)
(* (src/drive_handle_ata.cc, drive_handle_sanitize.cc,                     *)
(* drive_handle_base.cc): what it finds out after an open (Identify,       *)
(* Discovery), sanitize commands and their status, estimates, capacities,  *)
(* SMART data, and log pages (NvmeLogPage) below some of them; and the     *)
(* volumes of a drive on Linux (LinuxVolumes).                             *)
(*                                                                         *)
(* A behaviour is one call.  The driver may return the drive's registers,  *)
(* leave the caller's, or make registers of sense data that hold none      *)
(* (see PassThrough).                                                      *)
(***************************************************************************)
EXTENDS NvmeLogPage, AtaTaskfile, Identify, Discovery, LinuxVolumes,
        Sequences, SequencesExt, FiniteSetsExt

CONSTANTS
  PageLen,  \* the length of a page read by the library itself
  Slots,    \* ATA_SMART_ATTRIBUTES_NUMBER: 30
  Ids,      \* what identifiers a slot may hold, 0 if it is not used
  Word32,   \* 2^32, for the estimates of NVMe drives
  Replies,  \* what drives answer to Level 0 Discovery
  Bytes,    \* what a byte of sense data may be that is no register
  Rooms,    \* the room for it behind the first aligned byte of the buffer
  MaxMounts \* bound: the lines of /proc/mounts

ASSUME QueriesAssumption ==
  /\ PageLen \in Lens \ {0} /\ PageLen % 4 = 0 /\ PageLen <= Room
  /\ Bytes \subseteq 0 .. 255
  /\ Slots \in Nat /\ Ids \subseteq Nat
  /\ Word32 \in Nat /\ Word32 > 5  \* the estimates a call tries are words
  /\ Replies # {} /\ \A r \in Replies : IsReply(r)
  /\ Rooms \subseteq Nat /\ \A room \in Rooms : room >= MIN_BUFFER_LENGTH
  /\ MaxMounts \in Nat

VARIABLES
  call,    \* the method, its parameters and the drive_info_ it goes by
  truth,   \* what the drive would have to say
  step,    \* "called", "sent", "sent2", "back", "told"; of an open "parsed", "inquired"
  code,    \* the outcome of the driver's call
  tf,      \* the taskfile, or the NVMe command
  whose,   \* whose registers are in it: "caller", "drive", or "stray" bytes
  answer   \* what the program is told

queryVars == <<call, truth, step, code, tf, whose, answer>>
allVars == <<vars, queryVars>>

-----------------------------------------------------------------------------
(* Calls *)

Features == {"status", "antifreeze", "freeze", "crypto", "block", "overwrite"}
Patterns == {Zero, Lba(171, 12356812)}

Methods ==
  {"page", "smart_log", "smart", "sanitize", "estimates", "native", "dco", "capacity", "taskfile", "open",
   "volumes"}

\* A capacity below and above what 28 bits address.
Sizes == {Lba(0, 1), Lba(15, Lo - 2), Lba(15, Lo - 1), Lba(16, 0), Lba(9000, 77)}
Times == {0, 1, 254, 255, 32766, 32767}

\* Serial numbers in their fields: padded with blanks or ended by a NUL.
Texts == {<<>>, <<"a">>, <<"a", "b">>, <<"a", Space, "b">>}
Field(text, left, end) ==
  [i \in 1 .. 6 |-> IF i <= left THEN Space
                   ELSE IF i - left \in DOMAIN text THEN text[i - left]
                   ELSE IF i - left = Len(text) + 1 THEN end ELSE Space]
\* None is told, an SSD, revolutions per minute.
Rotations == {0, 1, 5400}

\* What an identification may say, its field but for the padding.
Descriptions ==
  [field : {<<>>}, text : Texts, left : 0 .. 2, end : {Space, NUL}, rotation : {1}, smart : {{}},
    sanitize : {TRUE}, security : {TRUE}, kinds : {{}}, whole : BOOLEAN]
  \cup
  [field : {<<>>}, text : {<<"a">>}, left : {0}, end : {Space}, rotation : Rotations,
    smart : SUBSET {"supported", "active"}, sanitize : BOOLEAN,
    security : BOOLEAN, kinds : SUBSET {"crypto", "block", "overwrite"}, whole : {TRUE}]
Stored(driving, f) == IF driving = "ata" THEN Swapped(f) ELSE f
Identification(driving) ==
  {[id EXCEPT !.field = Stored(driving, Field(id.text, id.left, id.end))] : id \in Descriptions}

\* A drive to open: any identification with one reply to discovery, and any
\* reply with one identification.
Openings(driving) ==
  LET one(S) == {CHOOSE e \in S : TRUE}
  IN  [id : Identification(driving), reply : one(Replies)]
        \cup [id : one(Identification(driving)), reply : Replies]

\* By method: the parameters, and what the drive has to say.
Parameters(method, driving) ==
  CASE method = "sanitize"  -> [feature : Features, pass : {0, 1, 15, 16, 17},
                                pattern : Patterns, keep : BOOLEAN]
    [] method = "estimates" -> IF driving = "ata"
                               THEN [supported : BOOLEAN, time : Times, extended : BOOLEAN]
                               ELSE [time : {0, 5, (Word32 \div 2) - 1, Word32 \div 2, Word32 - 1}]
    [] method = "native"    -> [ext : BOOLEAN]
    [] method = "capacity"  -> [lba : BOOLEAN, ext : BOOLEAN]
    [] method = "taskfile"  -> [op : {ATA_OP_DSM, 200, ATA_OP_SMART}, nsect : {0, 1, 2, 255, 256, 65535}]
    [] method = "open"      -> [inquiry : {<<>>, <<"S">>}]
    [] method = "volumes"   -> [drive : {<<"a">>, <<"a", "a">>}, readable : BOOLEAN]
    [] OTHER                -> [none : {0}]

\* Lines of /proc/mounts: partitions of sda and sdaa, mounted in
\* places of their own and bound to others.
Mounts ==
  [device : {<<"a", "1">>, <<"a", "2">>, <<"a", "a", "1">>},
    dir : {"/data"}, filesystem : {"ext4"}, rest : {0}]
  \cup [device : {<<"a", "1">>, <<"a", "a", "1">>}, dir : {"/mnt"}, filesystem : {"none"}, rest : 0 .. 3]

Flags == {"succeeded", "in_progress", "frozen", "antifreeze"}
Slot == 1 .. Slots

Truths(method, driving) ==
  CASE method = "sanitize" /\ driving = "ata"  -> [flags : SUBSET Flags, progress : {0, 258, 65535}]
    [] method = "sanitize" /\ driving = "nvme" -> [sstat : 0 .. 7, progress : {0, 258, 65535}]
    [] method = "native"                       ->
           {Lba(0, 255), Lba(0, 511), Lba(3, 66), Lba(15, Lo - 1), Lba(700, 66047)}
    [] method \in {"capacity", "taskfile"}     -> Sizes
    [] method = "smart"                        -> [values : [Slot -> Ids], thresholds : [Slot -> Ids]]
    [] method = "open"                         -> Openings(driving)
    [] method = "volumes"                      -> BoundedSeq(Mounts, MaxMounts)
    [] OTHER                                   -> {0}

\* A call begins; what is no log page begins with the reading of none.
QInit ==
  \E method \in Methods, driving \in {"ata", "nvme", "unknown"} :
    /\ \E p \in Parameters(method, driving) : call = [method |-> method, driving |-> driving, p |-> p]
    /\ truth \in Truths(method, driving)
    /\ call.method = "volumes" => driving = "unknown"
    /\ call.method = "native" => (call.p.ext \/ truth.hi < 16)
    /\ step = "called" /\ code = "none" /\ tf = NoBank /\ whose = "caller" /\ answer = [code |-> "none"]
    /\ Init
    /\ IF method = "page" THEN driving = "nvme" ELSE dataLen = PageLen
    /\ special => driving = "nvme"

Tell(a) == step' = "told" /\ answer' = a

\* A method and a drive that do not go together.
Refuse ==
  /\ step = "called"
  /\ \/ call.driving = "unknown" /\ call.method \notin {"capacity", "taskfile", "open", "volumes"}
     \/ call.driving = "nvme" /\ call.method \in {"native", "dco", "smart"}
     \/ call.driving = "ata" /\ call.method = "smart_log"
     \/ call.driving = "nvme" /\ call.method = "sanitize" /\ call.p.feature \in {"freeze", "antifreeze"}
  /\ Tell([code |-> IF call.method \in {"smart", "smart_log"} THEN "NOT_IMPL" ELSE "NOT_SUPPORTED"])
  /\ UNCHANGED <<vars, call, truth, code, tf, whose>>

IsAta(method) == step = "called" /\ call.driving = "ata" /\ call.method = method

-----------------------------------------------------------------------------
(* After an open *)

\* parseIdentifyDevice
ParseIdentify ==
  /\ step = "called" /\ call.method = "open"
  /\ answer' = [code |-> "OK", info |-> parseIdentifyDevice(call.driving, truth.id)]
  /\ step' = "parsed"
  /\ UNCHANGED <<vars, call, truth, code, tf, whose>>

\* Without a serial number the inquiry is asked for one; it may fail.
Inquire ==
  /\ step = "parsed"
  /\ \/ answer.info.serial = <<>> /\ answer' = [answer EXCEPT !.info.serial = call.p.inquiry]
     \/ UNCHANGED answer
  /\ step' = "inquired"
  /\ UNCHANGED <<vars, call, truth, code, tf, whose>>

\* tcgDiscovery0
DiscoverTcg ==
  /\ step = "inquired"
  /\ \E status \in {"OK", "NOT_SUPPORTED", "FAILED"}, room \in Rooms :
       /\ code' = status
       /\ Tell([code |-> "OK", info |-> answer.info,
                tcg |-> Discovered(status, truth.reply, room), device |-> "none"])
  /\ UNCHANGED <<vars, call, truth, tf, whose>>

\* getTcgDevice makes the device once, and drive_info_ changes no more.
GetTcgDevice ==
  /\ step = "told" /\ call.method = "open"
  /\ answer.device = "none"
  /\ answer' = [answer EXCEPT !.device = DeviceOf(answer.tcg)]
  /\ UNCHANGED <<vars, call, truth, step, code, tf, whose>>

-----------------------------------------------------------------------------
(* Sanitize *)

\* Feature register and key of each.
SanitizeFeat == [status |-> 0, crypto |-> 17, block |-> 18, overwrite |-> 20,
                 freeze |-> 32, antifreeze |-> 64]
SanitizeKey ==
  [status |-> Zero, antifreeze |-> Lba(65, 7238761), freeze |-> Lba(70, 7490667),
   crypto |-> Lba(67, 7502192), block |-> Lba(66, 7030130)]

\* (Mutant: the pattern has no key before it.)
OverwriteLbaKeyless(pattern) == pattern

\* The key of an overwrite is followed by the pattern.
OverwriteLba(pattern) == Lba((256 * 20311) + pattern.hi, pattern.lo)

\* The taskfile, with INVERT PATTERN and, to keep the data allocated, ZONED NO
\* RESET in the count register.
SanitizeTf ==
  LET p == call.p
      lba == IF p.feature = "overwrite" THEN OverwriteLba(p.pattern) ELSE SanitizeKey[p.feature]
      init == tf_init(ATA_OP_SANITIZE, Zero, 0)
  IN [init EXCEPT
        !.ext = TRUE,
        !.lob = [feat |-> SanitizeFeat[p.feature],
                 nsect |-> IF p.feature = "overwrite" THEN 128 + (p.pass % 16) ELSE 0,
                 lbal |-> Byte0(lba.lo), lbam |-> Byte1(lba.lo), lbah |-> Byte2(lba.lo)],
        !.hob = [feat |-> 0, nsect |-> IF p.keep THEN 128 ELSE 0,
                 lbal |-> Byte0(lba.hi), lbam |-> Byte1(lba.hi), lbah |-> Byte2(lba.hi)]]

AskSanitize ==
  /\ IsAta("sanitize")
  /\ tf' = SanitizeTf
  /\ step' = "sent"
  /\ UNCHANGED <<vars, call, truth, code, whose, answer>>

\* Dwords 10 and 11 of the NVMe command.
SanitizeNvme ==
  LET p == call.p
      act == CASE p.feature = "crypto" -> 4 [] p.feature = "block" -> 2 [] p.feature = "overwrite" -> 3
      passes == IF p.feature # "overwrite" THEN 0 ELSE IF p.pass > 0 THEN p.pass % 16 ELSE 1
  IN [cdw10 |-> (IF p.keep THEN 512 ELSE 0) + act + (16 * passes),
      cdw11 |-> IF p.feature = "overwrite" THEN p.pattern ELSE Zero]

AskSanitizeNvme ==
  /\ step = "called" /\ call.driving = "nvme" /\ call.method = "sanitize"
  /\ call.p.feature \in {"crypto", "block", "overwrite"}
  /\ tf' = SanitizeNvme
  /\ step' = "sent"
  /\ UNCHANGED <<vars, call, truth, code, whose, answer>>

\* The states that follow from the count register, and the progress, of which
\* there is none if all bits are set.
State == [succeeded |-> {"Idle", "Succeeded"}, in_progress |-> {"InProgress"},
          frozen |-> {"InFrozen"}, antifreeze |-> {"AntiFreezed"}]
FlagBit == [succeeded |-> 128, in_progress |-> 64, frozen |-> 32, antifreeze |-> 16]

\* (Mutant: the bits of the state before the shift.)
SanitizeStatesShifted(nsect) == UNION {State[f] : f \in {g \in Flags : (nsect \div (2 * FlagBit[g])) % 2 = 1}}

SanitizeStates(nsect) == UNION {State[f] : f \in {g \in Flags : (nsect \div FlagBit[g]) % 2 = 1}}
Progress(lba_progress) == IF lba_progress # 65535 THEN lba_progress ELSE -1

SanitizeBack ==
  /\ step = "back" /\ call.method = "sanitize"
  /\ Tell(IF code # "OK" THEN [code |-> code]
          ELSE IF call.driving = "nvme" THEN [code |-> "OK"]
          ELSE [code |-> "OK", states |-> SanitizeStates(tf.hob.nsect),
                progress |-> Progress(tf.lob.lbal + (256 * tf.lob.lbam))])
  /\ UNCHANGED <<vars, call, truth, code, tf, whose>>

-----------------------------------------------------------------------------
(* Taskfiles to the drive and back *)

InBank(n, bank) == [bank EXCEPT !.lbal = Byte0(n), !.lbam = Byte1(n), !.lbah = Byte2(n)]
Bit(f, flags) == IF f \in flags THEN FlagBit[f] ELSE 0
BitSum(flags) == Bit("succeeded", flags) + Bit("in_progress", flags) + Bit("frozen", flags) + Bit("antifreeze", flags)

\* The drive's registers after the command.
Registers ==
  CASE call.method = "sanitize" ->
         [tf EXCEPT !.hob = [InBank(0, @) EXCEPT !.nsect = BitSum(truth.flags)],
                     !.lob = InBank(truth.progress, @)]
    [] call.method = "native"   ->
         [tf EXCEPT !.lob = InBank(truth.lo, @), !.hob = IF tf.ext THEN InBank(truth.hi, @) ELSE NoBank,
                    !.dev = IF tf.ext THEN ATA_USING_LBA ELSE truth.hi]
    [] OTHER                    -> tf

\* Without an ATA descriptor in the sense data its bytes count as registers all
\* the same; they are zeros if there is no sense data at all.  (The bound: all
\* are alike.)
Stray(b) ==
  LET bank == [nsect |-> b, lbal |-> b, lbam |-> b, lbah |-> b, feat |-> 0]
  IN  [tf EXCEPT !.ext = (b % 2 = 1), !.dev = b, !.lob = [bank EXCEPT !.feat = tf.lob.feat],
                 !.hob = IF b % 2 = 1 THEN bank ELSE NoBank]

\* What is in an ATA drive's taskfile when the driver returns; after an error
\* the registers say something else than after a success.
Returned ==
  \/ call.driving # "ata" /\ UNCHANGED <<tf, whose>>
  \/ call.driving = "ata" /\ whose' = "caller" /\ UNCHANGED tf
  \/ call.driving = "ata" /\ whose' = "drive" /\ tf' = Registers /\ code' = "OK"
  \/ call.driving = "ata" /\ whose' = "stray" /\ \E b \in Bytes : tf' = Stray(b)

SmartTf(feat) ==
  [tf_init(ATA_OP_SMART, Zero, 0) EXCEPT
     !.lob = [feat |-> feat, nsect |-> 1, lbal |-> 0, lbam |-> 79, lbah |-> 194], !.dev = 0]

\* doTaskfileCmd or doNvmeAdminPassthru; the thresholds of SMART are asked for
\* with a taskfile of their own.
Driver ==
  /\ step \in {"sent", "sent2"}
  /\ code' \in {"OK", "FAILED"}
  /\ IF step = "sent" /\ call.method = "smart" /\ code' = "OK"
     THEN step' = "sent2" /\ tf' = SmartTf(209) /\ UNCHANGED whose
     ELSE step' = "back" /\ Returned
  /\ UNCHANGED <<vars, call, truth, answer>>

-----------------------------------------------------------------------------
(* Capacities *)

AskNative ==
  /\ IsAta("native")
  /\ tf' = IF call.p.ext THEN [tf_init(ATA_OP_READ_NATIVE_MAX_EXT, Zero, 0) EXCEPT !.dev = 64]
           ELSE [tf_init(ATA_OP_READ_NATIVE_MAX, Zero, 0) EXCEPT !.dev = 1]
  /\ step' = "sent"
  /\ UNCHANGED <<vars, call, truth, code, whose, answer>>

\* (Mutant: the high registers are read as if they were the low ones.)
NativeMaxSwapped ==
  Lba(IF tf.command = ATA_OP_READ_NATIVE_MAX THEN tf.dev % 16 ELSE Whole(tf.lob), Whole(tf.hob) + 1)

\* A carry out of the low register is lost in a bit that is set.
OrLow(high, low) == IF low = 256 /\ (high \div 256) % 2 = 1 THEN high ELSE high + low

\* The one is added to the lowest register alone, before the or.
NativeMax ==
  Lba(IF tf.command = ATA_OP_READ_NATIVE_MAX THEN tf.dev % 16 ELSE Whole(tf.hob),
      OrLow(Whole(tf.lob) - tf.lob.lbal, tf.lob.lbal + 1))

\* The number is computed and returned whether the command succeeded or not.
NativeBack ==
  /\ step = "back" /\ call.method = "native"
  /\ Tell([code |-> code, sectors |-> NativeMax])
  /\ UNCHANGED <<vars, call, truth, code, tf, whose>>

AskDco ==
  /\ IsAta("dco")
  /\ tf' = [tf_init(ATA_OP_DCO, Zero, 1) EXCEPT !.lob.feat = 194]
  /\ step' = "sent"
  /\ UNCHANGED <<vars, call, truth, code, whose, answer>>

DcoBack ==
  /\ step = "back" /\ call.method = "dco"
  /\ Tell([code |-> code])
  /\ UNCHANGED <<vars, call, truth, code, tf, whose>>

\* What a drive of this size says of it in IDENTIFY DEVICE.
Max28 == Lba(15, Lo - 1)
Exceeds28(size) == size.hi > 15
User28 == IF Exceeds28(truth) THEN Max28 ELSE truth

\* user_addressable_sectors, max48bit_lba with the 48-bit feature set active,
\* or current_sector_capacity.
Capacity ==
  IF ~call.p.lba THEN truth
  ELSE IF call.p.ext THEN truth ELSE User28

AskCapacity ==
  /\ step = "called" /\ call.method = "capacity"
  /\ Tell([code |-> "OK", sectors |-> IF call.driving = "ata" THEN Capacity ELSE Zero])
  /\ UNCHANGED <<vars, call, truth, code, tf, whose>>

\* A taskfile for a place on the drive.
AskTaskfile ==
  /\ step = "called" /\ call.method = "taskfile"
  /\ tf' = tf_init(call.p.op, truth, call.p.nsect)
  /\ Tell([code |-> "OK"])
  /\ UNCHANGED <<vars, call, truth, code, whose>>

\* The volumes of a drive; /proc/mounts may be missing, or end the program.
AskVolumes ==
  /\ step = "called" /\ call.method = "volumes"
  /\ Tell(IF ~call.p.readable
          THEN [code |-> "SYS", volumes |-> findVolumesByDrive(NoVolumes, call.p.drive)]
          ELSE IF Crashes(truth) THEN [code |-> "CRASH"]
          ELSE [code |-> "OK", volumes |-> findVolumesByDrive(VolumeList(truth), call.p.drive)])
  /\ UNCHANGED <<vars, call, truth, code, tf, whose>>

-----------------------------------------------------------------------------
(* SMART *)

AskSmart ==
  /\ IsAta("smart")
  /\ tf' = SmartTf(208)
  /\ step' = "sent"
  /\ UNCHANGED <<vars, call, truth, code, whose, answer>>

\* (Mutant: the thresholds are taken slot by slot.)
SmartBySlot(values, thresholds) ==
  LET used == SelectSeq([i \in Slot |-> i], LAMBDA i : values[i] # 0)
  IN [n \in DOMAIN used |-> [id |-> values[used[n]], from |-> used[n], threshold |-> used[n]]]

\* The used slots in order: the list after each slot.  An attribute is named
\* by the slot it comes from.
Used(values) ==
  LET list[i \in 0 .. Slots] ==
        IF i = 0 THEN <<>>
        ELSE IF values[i] = 0 THEN list[i - 1]
        ELSE Append(list[i - 1], [id |-> values[i], from |-> i, threshold |-> 0])
  IN  list

\* A used threshold goes to the first attribute of its id.
SetThreshold(list, id, i) ==
  [n \in DOMAIN list |->
     IF id # 0 /\ list[n].id = id /\ (\A l \in 1 .. n - 1 : list[l].id # id)
     THEN [list[n] EXCEPT !.threshold = i] ELSE list[n]]

Compared(values, thresholds) ==
  LET list[i \in 0 .. Slots] ==
        IF i = 0 THEN Used(values)[Slots] ELSE SetThreshold(list[i - 1], thresholds[i], i)
  IN  list

SmartAttributes(values, thresholds) == Compared(values, thresholds)[Slots]

SmartBack ==
  /\ step = "back" /\ call.method = "smart"
  /\ Tell([code |-> code,
           attributes |-> IF code = "OK" THEN SmartAttributes(truth.values, truth.thresholds) ELSE <<>>])
  /\ UNCHANGED <<vars, call, truth, code, tf, whose>>

-----------------------------------------------------------------------------
(* Log pages and estimates *)

\* doNvmeGetLogPage runs for these.
Logged ==
  /\ call.driving = "nvme"
  /\ \/ call.method \in {"page", "smart_log", "estimates"}
     \/ call.method = "sanitize" /\ call.p.feature = "status"

LogStep ==
  /\ step = "called" /\ Logged
  /\ Query \/ Issue \/ Answer \/ Fail
  /\ UNCHANGED queryVars

ataEstToSeconds(time, extended) ==
  IF time = 0 THEN -1
  ELSE IF extended THEN (IF time < 32767 THEN time * 2 ELSE -3)
  ELSE IF time < 255 THEN time * 2 * 60 ELSE -2

nvmeEstToSeconds(value) ==
  IF value = Word32 - 1 THEN -1 ELSE IF value < Word32 \div 2 THEN value ELSE value - Word32

AskEstimates ==
  /\ IsAta("estimates")
  /\ Tell([code |-> "OK",
           seconds |-> IF call.p.supported THEN ataEstToSeconds(call.p.time, call.p.extended) ELSE -1])
  /\ UNCHANGED <<vars, call, truth, code, tf, whose>>

\* doNvmeGetSanitizeStatus; the states stay zero for any other status.
SanitizeStatus ==
  [states |-> CASE truth.sstat = 0 -> {"Idle"} [] truth.sstat = 1 -> {"Idle", "Succeeded"}
                [] truth.sstat = 2 -> {"InProgress"} [] truth.sstat = 3 -> {"Idle", "Failed"} [] OTHER -> {},
   progress |-> IF truth.sstat = 2 THEN truth.progress ELSE 0]

LogBack ==
  /\ step = "called" /\ Logged /\ pc = "done"
  /\ Tell(IF ~ok THEN [code |-> "FAILED"]
          ELSE CASE call.method = "sanitize"  -> [code |-> "OK", states |-> SanitizeStatus.states,
                                                  progress |-> SanitizeStatus.progress]
                 [] call.method = "estimates" -> [code |-> "OK", seconds |-> nvmeEstToSeconds(call.p.time)]
                 [] OTHER                     -> [code |-> "OK"])
  /\ UNCHANGED <<vars, call, truth, code, tf, whose>>

-----------------------------------------------------------------------------
(* The specification *)

Over == step = "told" /\ UNCHANGED allVars

QNext ==
  \/ AskSanitize \/ AskSanitizeNvme \/ SanitizeBack
  \/ AskNative \/ NativeBack \/ AskDco \/ DcoBack \/ AskCapacity \/ AskTaskfile
  \/ AskSmart \/ SmartBack \/ AskVolumes
  \/ Driver \/ LogStep \/ LogBack \/ AskEstimates
  \/ ParseIdentify \/ Inquire \/ DiscoverTcg \/ GetTcgDevice
  \/ Refuse \/ Over

QSpec == QInit /\ [][QNext]_allVars

-----------------------------------------------------------------------------
(* Properties *)

\* The serial number is the drive's, of a drive that has one and told it whole,
\* without the padding around it (an NVMe drive's keeps the blanks before it),
\* else the one of the inquiry, if that has one; and the sanitize commands that
\* are told to be supported are those the drive has.
IdentityTold ==
  step = "told" /\ call.method = "open" /\ call.driving # "unknown" =>
    LET id == truth.id
        before == [i \in 1 .. (IF call.driving = "nvme" THEN id.left ELSE 0) |-> Space]
        has == id.whole /\ id.text # <<>>
    IN  /\ has => answer.info.serial = before \o id.text
        /\ ~has /\ (call.driving = "ata" \/ id.left = 0 \/ ~id.whole) =>
             answer.info.serial \in {<<>>, call.p.inquiry}
        /\ has => \A kind \in {"crypto", "block", "overwrite"} :
             answer.info.sanitize[kind] > 0 <=>
               kind \in id.kinds /\ (call.driving = "ata" => id.sanitize)

\* What drive_info_ and the TCG device say of features, lock state and ComID is
\* what the drive said in its discovery, if that was well-formed, wherever the
\* buffer was aligned.
DiscoveryTold ==
  step = "told" /\ call.method = "open" =>
    /\ code = "OK" /\ WellFormed(truth.reply) => Tells(answer.tcg, answer.device, truth.reply)
    /\ code # "OK" => answer.device \notin Ssc

\* A sanitize command, as the drive reads it.
AtaReads ==
  LET lba == tf_to_lba(tf)
      overwrite == tf.lob.feat = 20 /\ lba.hi \div 256 = 20311
  IN [feature |-> IF overwrite THEN {"overwrite"}
                  ELSE {f \in Features \ {"overwrite"} : SanitizeFeat[f] = tf.lob.feat /\ SanitizeKey[f] = lba},
      passes |-> IF tf.lob.nsect % 16 = 0 THEN 16 ELSE tf.lob.nsect % 16,
      pattern |-> IF overwrite THEN Lba(lba.hi % 256, lba.lo) ELSE Zero,
      keep |-> tf.hob.nsect >= 128]

NvmeReads ==
  LET passes == (tf.cdw10 \div 16) % 16
  IN [feature |-> CASE tf.cdw10 % 8 = 4 -> {"crypto"} [] tf.cdw10 % 8 = 2 -> {"block"} [] tf.cdw10 % 8 = 3 -> {"overwrite"},
      passes |-> IF passes = 0 THEN 16 ELSE passes,
      pattern |-> tf.cdw11,
      keep |-> (tf.cdw10 \div 512) % 2 = 1]

\* What the drive is told to sanitize is what the program asked for: the kind,
\* the pattern, one to sixteen passes, and whether to keep the data allocated,
\* over either protocol.
SanitizeAsAsked ==
  step = "sent" /\ call.method = "sanitize" =>
    LET read == IF call.driving = "ata" THEN AtaReads ELSE NvmeReads
        p == call.p
    IN /\ read.feature = {p.feature} /\ read.keep = p.keep
       /\ p.feature = "overwrite" =>
            read.pattern = p.pattern /\ (p.pass \in 1 .. 16 => read.passes = p.pass)

\* The state of a sanitize operation is the drive's, if the driver returned the
\* drive's registers.  Where it returns none the state is made of the command's
\* own, and there keeping the data allocated looks like success; where it returns
\* bytes that are no registers, zeros are no state, and others are any.  Over
\* NVMe, statuses above 3 (4: succeeded, data kept allocated) are no state at all.
StatusIsTheDrives ==
  step = "told" /\ answer.code = "OK" /\ "states" \in DOMAIN answer =>
    IF call.driving = "ata"
    THEN /\ whose = "drive" => /\ answer.states = UNION {State[f] : f \in truth.flags}
                              /\ answer.progress = IF truth.progress = 65535 THEN -1 ELSE truth.progress
         /\ whose = "caller" => answer.states = IF call.p.keep THEN {"Idle", "Succeeded"} ELSE {}
         /\ whose = "stray" /\ tf.hob.nsect = 0 => answer.states = {}
    ELSE /\ "InProgress" \in answer.states <=> truth.sstat = 2
         /\ "Succeeded" \in answer.states <=> truth.sstat = 1
         /\ "Failed" \in answer.states <=> truth.sstat = 3
         /\ "Idle" \in answer.states <=> truth.sstat \in {0, 1, 3}

\* An estimate is -1 exactly if the drive has none, and the time in seconds
\* otherwise; but there are two kinds of estimates that are neither, in spite of
\* types.h (see EstimatesDocumented): what ATA calls longer than it can tell, and
\* NVMe times of 2^31 seconds and more, are negative.  No others are.
EstimatesTold ==
  step = "told" /\ call.method = "estimates" /\ answer.code = "OK" =>
    LET p == call.p
    IN IF call.driving = "nvme"
       THEN /\ answer.seconds = -1 <=> p.time = Word32 - 1
            /\ answer.seconds < 0 <=> p.time >= Word32 \div 2
            /\ answer.seconds >= 0 => answer.seconds = p.time
       ELSE /\ answer.seconds = -1 <=> ~p.supported \/ p.time = 0
            /\ answer.seconds < -1 <=> p.supported /\ p.time >= (IF p.extended THEN 32767 ELSE 255)
            /\ answer.seconds >= 0 => answer.seconds = p.time * (IF p.extended THEN 2 ELSE 120)

\* types.h says of estimates: "Seconds unit", "-1 = No reported".
EstimatesDocumented ==
  step = "told" /\ call.method = "estimates" /\ answer.code = "OK" => answer.seconds >= -1

\* What a program is told of sanitizing, but for the exceptions named there, is
\* what the drive says: the state of the operation, and before it how long it
\* will take.
SanitizeTold == StatusIsTheDrives /\ EstimatesTold

\* IDENTIFY DEVICE gives a drive's size on both sides of 28 bits, and READ
\* NATIVE MAX, if its registers are returned, gives the last address plus one:
\* 256 too few exactly where adding the one carries out of the low register into
\* a bit that is set.
CapacityTold ==
  step = "told" /\ answer.code = "OK" /\ call.driving = "ata" =>
    /\ call.method = "capacity" /\ (call.p.ext \/ ~Exceeds28(truth)) => answer.sectors = truth
    /\ call.method = "native" /\ whose = "drive" =>
         answer.sectors = Lba(truth.hi, truth.lo + 1 - (IF truth.lo % 512 = 511 THEN 256 ELSE 0))

\* The registers hold the address and the count of a taskfile, in 28 bits only
\* if its last sector is within them.
TaskfileAddresses ==
  step = "told" /\ call.method = "taskfile" /\ call.p.op \notin ShortOps =>
    /\ tf_to_lba(tf) = truth
    /\ Sectors(tf) = call.p.nsect
    /\ ~tf.ext /\ call.p.nsect > 0 => ~Exceeds28(LastSector(truth, call.p.nsect))

Distinct(table) == \A i, j \in Slot : table[i] = table[j] /\ table[i] # 0 => i = j

\* Of two tables that both must have been read, each used attribute is told in
\* order, with its own threshold, wherever in the other table that is.
SmartTold ==
  step = "told" /\ call.method = "smart" /\ answer.code \notin {"NOT_IMPL", "FAILED"}
  /\ Distinct(truth.values) /\ Distinct(truth.thresholds) =>
    LET list == answer.attributes
    IN /\ {list[n].from : n \in DOMAIN list} = {i \in Slot : truth.values[i] # 0}
       /\ \A n, l \in DOMAIN list : n < l => list[n].from < list[l].from
       /\ \A n \in DOMAIN list :
            /\ list[n].id = truth.values[list[n].from]
            /\ \A i \in Slot : truth.thresholds[i] = list[n].id <=> list[n].threshold = i

\* Each mounted partition of a drive is told, with all its mount points in their
\* order, and whatever long lines there are; what else is told is mounted too,
\* and of a drive whose name goes on with letters (sdaa beside sda).  But nothing
\* is told, and the program may end, if what a long line leaves has one word or
\* two; only then does it.
VolumesTold ==
  step = "told" /\ call.method = "volumes" /\ answer.code # "SYS" =>
    LET drive == call.p.drive
        mounted == {truth[i].device : i \in DOMAIN truth}
    IN IF answer.code = "CRASH" THEN \E i \in DOMAIN truth : truth[i].rest \in {1, 2}
       ELSE
       /\ {d \in mounted : IsPartition(d, drive)} \subseteq DOMAIN answer.volumes
       /\ \A d \in DOMAIN answer.volumes :
            /\ d \in mounted
            /\ answer.volumes[d].mount_points = MountPoints(truth, d)
            /\ IsPartition(d, drive) \/ (drive = <<"a">> /\ IsPartition(d, <<"a", "a">>))

=============================================================================
