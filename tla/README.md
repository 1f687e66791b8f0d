# jcu-dparm in TLA+

jcu-dparm is a C++11 library that talks to ATA, NVMe and TCG (self-encrypting)
drives on Linux and Windows. This directory holds a TLA+ model of it, the TLC
configurations that check the model on small instances, and proofs that TLAPS
checks for every instance. Paths below are relative to the repository.

## The system

The library has no threads of its own and its handles are not thread safe
(`include/jcu-dparm/drive_handle.h`): one program thread calls into a
`DriveHandle`, which calls a platform driver, which calls `ioctl` or
`DeviceIoControl`. What runs concurrently is the drive, and the machine. A drive
keeps state of its own (a TPer's queue and its sessions, a sanitize in
progress), it answers late, and it does not forget a command because the host
gave up on it. The machine exchanges drives, gives their names and numbers to
others, and gives out closed descriptors again.

| Component | State it keeps | Operations | What is hard | What makes it correct | Modules |
|---|---|---|---|---|---|
| TCG command execution (`src/tcg/tcg_device_general.cc`, `doSecurityCommand` in `src/drive_handle_base.cc`) | none between calls; the TPer keeps commands and answers | `exec` | a polling loop against a clock, retries over several transports, answers that arrive after the call gave up | it returns; it sends once per transport; what one call leaves behind is known | TcgRpc, TcgExec |
| TCG sessions (`src/tcg/tcg_session_impl.cc`, `revertTPer` and `getDefaultPassword` of the devices) | session numbers, open flag, auto-close flag | `start`, `authenticate`, `sendCommand`, `close`, destructor, `dontAutoClose` | the open flag and the TPer's session table drift apart; error paths that must still close | no session is left in the TPer; no object works in another's session; a success happened | TcgSession |
| TCG response and tokens (`tcg_response_impl.cc`, `tcg_token.h`) | the 2048-byte buffer, the tokens of the last commit | `reset`, `commit`, `getToken`, conversions | lengths chosen by the drive | tokens start inside the buffer; no missing token is looked into; a status is reported as what it is | TcgResponse |
| TCG command builder (`tcg_command_impl.cc`) | a 61440-byte buffer and a position | `reset`, `add...Token`, `complete`, setters | results that callers ignore | the position stays inside the buffer; header lengths match the payload; what is sent holds nothing of an earlier command | TcgCommand |
| Discovery 0 and TCG devices (`drive_handle_base.cc`, `tcg_device_*.cc`) | the raw features, a device made once | `tcgDiscovery0`, `getTcgDevice`, getters | a walk that ends before the data does; devices that assert the features they were chosen by | device, features, lock state and ComID are those the drive told | Discovery, Queries |
| NVMe log pages, SMART (`drive_handle_base.cc`) | none | `doNvmeGetLogPage`, `readAtaSmartStatus`, `readNvmeSmartLogPage` | offsets and dword counts; two tables that need not match | each byte is read from its place; each attribute has its own threshold | NvmeLogPage, Queries |
| Sanitize (`drive_handle_sanitize.cc`) | none; the drive runs for hours | start, status, estimates | a pattern that shares registers with a key; a state read from registers that may not have come back | the command issued is the one asked for; the state told is the drive's | Queries |
| ATA queries and taskfiles (`drive_handle_ata.cc`, `ata_utils.cc`, `intl_utils.cc`) | none | capacity, native max, DCO, strings of an identification | 28- and 48-bit arithmetic, byte order | results agree with the drive's registers | AtaTaskfile, Identify, Queries |
| Linux factory and drivers (`plat-linux/drive_factory.cc`, `drivers`) | file descriptors | `open`, `enumDrives`, `close` | descriptors on failing paths, names that change hands | every descriptor has an owner, an object its own drive | LinuxDrive, SgIo |
| SG pass-through, APT bridges (`sgio.cc`, `apt.cc`) | the bridge that was detected | `sg16`, `do_sg_ata`, `apt_detect` | four places that report failure, registers that come only with sense data | success was the drive's, and so is a failure | SgIo, PassThrough |
| sysfs (`sysfs_utils.cc`) and volumes (`volume_finder.cc`) | a static path; the list of mounts | attribute look-up; `init`, `findVolumesByDrive` | staleness of the path; names that begin alike | a bridge is taken for one exactly if it is; a drive's volumes are told | Sysfs, LinuxVolumes |
| Windows factory and drivers (`plat-win/drive_factory.cc`, `drivers`) | handles, disk numbers | `open` through five drivers, `close`, pass-through with a direct and a buffered try | five failing paths, a number taken from a path, a second try after a first that half worked | as on Linux; the number is the drive's | WinDrive, WinIo |
| Windows enumeration (`physical_drive_finder.cc`, `volume_finder.cc`) | lists of disks and volumes | `enumDrives`, `findVolumesByDrive` | numbers that changed since they were listed | no drive is missed; the volumes are those that begin on the drive | WinDrive |
| Crypto (`src/crypto`, password hashing in `tcg_intl.cc`) | SHA-1 block and bit count | update, final, HMAC, PBKDF2 | buffering at block boundaries, a bit count that wraps, loops that make more than they are asked for | streaming gives the digest of the standard, keys and password atoms are those of the standards | Crypto |

`PROJECT.json` lists the same components with their status, and under `hazards`
the places in the code where something could go wrong that a test would hardly
reach.

## Modules

    TcgRpc        what exec promises                    TcgExecProofs
      ^  implemented by
    TcgExec       exec itself                           TcgExecProofs
      |
    TcgSession    sessions on top of TcgRpc             TcgSessionProofs
    TcgCommand    building a command                    TcgMessageProofs
    TcgResponse   cutting and judging an answer         TcgMessageProofs

    AtaTaskfile <- DriverCall <- SgIo (with Sysfs) and WinIo <- PassThrough
                  a driver handle's commands            PassThroughProofs
                  on both platforms

    NvmeLogPage   reading a log page in pieces          QueriesProofs
    Queries       what a program asks of an open drive: QueriesProofs
                  composes NvmeLogPage, AtaTaskfile, Identify,
                  Discovery and LinuxVolumes

    LinuxDrive    drives and descriptors on Linux       LinuxDriveProofs
    WinDrive      drives and handles on Windows         WinDriveProofs
    Crypto        digests, derived keys, passwords      CryptoProofs

An `MC` module extends the module it is named for with values or symmetry for
TLC; `MCTcgMessage` extends both halves of a message, to check them in one run. `TcgSession` uses the modules beside it at a coarser grain: its `Send` is a
command built and completed, its `SendCode` the verdict of `TcgResponse`. In the
same way the transports of `TcgExec` are the tries of `WinIo`, and the driver of
`Queries`, which returns the drive's registers, leaves the caller's or makes some of
sense data that holds none, stands for those of `PassThrough`.

**TcgRpc** is the abstract specification of a TCG command: a caller hands over
one command at a time, the command reaches the drive at most once per transport,
the TPer (the security processor of the drive) works through what it received
and queues an answer for each, and the call comes back with the oldest queued
answer, with nothing or with an error. It may come back with `DPARME_OK` for a
command that never arrived, or from an IF-RECV that brought nothing
(`ReturnUnheard`; `heard` tells the two apart in the history). A packet carries no
serial number, so nothing says that the answer belongs to the command. Answers carry the command
they answer (`to`) only so that properties can speak of it; no action of the
host looks at it.

**TcgExec** is `TcgDeviceGeneric::exec` line by line: the guard (`RejectNoSSC`),
the IF-SEND and its tries (`StartSend`, `SendSucceeds`, `SendFails`, `GiveUp`),
and the loop (`LoopTop`, `RecvSucceeds`, `RecvFails`, `LoopAgain`, `TimeOut`,
`Commit`). `pc` is the place in the function, `now` and `spent` are the clock
in pauses of 25 ms, `resp` is what the response header says. `Attempts` is the
number of transports `DriveHandleBase::doSecurityCommand` can try in turn:
one on Linux, whose drivers have no security command of their own; two for the
Windows ATA and NVMe drivers and four for the SCSI driver, each try being a
direct or a buffered ioctl. A try that reports failure may have moved the data,
and one that reports success may not have: a send may be `Swallowed` and an
IF-RECV `Dropped`, which leaves the `Cleared` buffer, the header of an empty
ComPacket. These are the cases that `PassThrough` calls `Overlooked`, seen from
above: sense data without the Valid bit (`scsi_driver.cc:272-278`), the vendor's
NVMe driver (`nvme_win_driver.cc:223`), BUSY behind a JMicron bridge
(`apt.cc:209-214`). `TcgExec` implements `TcgRpc` (`RpcRefined`): an answer exec has fetched and not
yet returned counts as still queued.

**TcgSession** is every operation of `TcgSessionImpl` that changes its state,
`revertTPer` and `getDefaultPassword`, which own a session object each, and a
TPer with its table of open sessions. It reuses the actions of `TcgRpc` for exec.
`pc` is the C++ function the thread is in; a call is split at its `exec`, so the
TPer works while the thread waits and also after the call has come back. The
program calls the operations in any order it likes, including the orders nobody
intended: `start` on an open object, commands on a closed one. An answer is cut
down to what the code reads of it: whether there is a status, and tokens 1, 4
and 5. The TPer and the transport are external; what may go wrong there is
switched on by `faults`, which a behaviour takes from `FaultSets` and keeps:

| Fault | Meaning |
|---|---|
| `resend` | the second and later transports may deliver the command again |
| `lose` | a transfer takes an answer from the drive and then fails |
| `giveup` | exec returns an error or its timeout, with the TPer still at work |
| `swallow` | a driver reports a transfer as done that was not: the command never reached the TPer, or the IF-RECV brought nothing |
| `odd` | the TPer answers with something it should not |
| `abort` | the TPer closes a session of its own accord |

`trouble[s]` remembers which of these met object `s`, and what the program itself
did to it (`restart`, `kept`), so that the properties can say exactly who is
excused. It is history: no action reads it.

**TcgCommand** is `TcgCommandImpl` with its bytes counted instead of written:
`body.pos` is `cmd_pos_`, `body.lost` is what was refused since the last reset,
because the callers ignore the results of `add...Token` and send what they have;
`body.long` is the part of it that strings of 2048 bytes and more asked for, which
`addStringToken` has no form for and passes over (`PassedOver`).
A step that writes a tag and then finds no room for the rest (`PutNumber`) keeps
the tag, as the code does. `sub`, `pkt` and `com` are the lengths in the headers,
`dirty` is the end of what earlier commands may have left. `complete` is `Seal`,
with or without the status list.

**TcgResponse** follows an answer from `commit` to the verdict of `sendCommand`.
`length` is what the sub-packet's header says, and the drive chooses each token
as it is cut (`Cut`), by its size and by what `type()` and `getUint8()` make of
it. Of the tokens only the last five are kept: `sendCommand` looks at the last,
the fourth and the fifth from the end. `Exists(k)` is the unsigned index
arithmetic of `getToken(getTokenCount() - k)`; `null` says that a pointer was
dereferenced that `getToken` would have returned null.

**NvmeLogPage** is `doNvmeGetLogPage`. A driver that has a read of its own (`special`,
that of Windows' own NVMe driver) is asked once (`Query`) and fills no more than the
`Room` of its buffer, with `DPARME_OK`. For the others it is the loop (`Issue`,
`Answer`, `Fail`) and the dword count of `doNvmeGetLogPageCmd` (`Dwords`), with its
unsigned wrap. `own`
is the set of bytes of the caller's buffer that hold their byte of the log; the
drive fills the less of what the command says and what the ioctl maps. A length
below 4 makes the dword count wrap to 2^32 - 1, and one that is no multiple of 4
leaves a rest unread: both are the caller's, and `WholeDwords` excludes them.

**AtaTaskfile** has `needs_lba48`, `is_dma`, `tf_init` and `tf_to_lba` of
`ata_utils.cc` and `sgio.cc`. An address is a pair of its 24 low bits and the rest, so that the
48-bit sums stay within TLC's integers; the tables of operations are the code's.

**DriverCall** is one call of a driver handle, whatever the driver: `req` the
request, `cdb` what the ioctl under way carries, `reply` what it came back with,
`res` the result. Of the caller's buffer and taskfile it keeps whose values they
hold (the caller's, zeros, the drive's, part of the drive's, junk). `ran` counts
how often the drive carried the command out; it is history. The requests are
those the library itself sends, with the protocol and width it asks for, and a
DATA SET MANAGEMENT of the program's own.

**Sysfs** and **SgIo** are the Linux side. `Sysfs` is the search below
`/sys/block`: three attributes are read one after the other, and the path of a
device is kept in static variables under its number (`prev`), while drives come
and go between any two reads. `SgIo` is `SgDriver::open` with the detection of
JMicron bridges and the read of their registers, then `sg16` (SCSI-ATA
pass-through), `apt_jmicron_int_sg` and `do_sg_ata`, each up to its ioctl and
behind it, and the NVMe driver's two commands. `SgKernel` lists what SG_IO may
come back with: the command done or refused, the device busy, the transport or
the ioctl failing before or after the drive was done. A command that demands sense
data may come back with it, without it, or with GOOD, and a CHECK CONDITION
may come unannounced (`Checked`): `sg16` then says "results may be incorrect" and
goes on.

**WinIo** is the Windows side: SCSI and ATA pass-through, each tried with the
caller's buffer and, if that ioctl fails, with a copy; NVMe commands through a
vendor's miniport driver; the protocol queries of Windows' own. The CDB that the
SCSI driver makes of a taskfile leaves protocol, direction, length and the 48-bit
flag empty (`Explicit` is false), so that it may come back GOOD with nothing
done, or done with nothing transferred. `LooksBad`
is the test of the status byte, which is still the command byte where no ioctl
overwrote it.

**PassThrough** puts the six drivers behind one promise and states what a caller
may conclude from a result. `Overlooked` lists what the drivers leave out of
account, and `OkIsEarned` says that there is nothing else.

`NvmeLogPage` is also the lower half of **Queries**, where a behaviour is one
call of a method of `DriveHandle` with one set of parameters (`call`), and
`truth` is what the drive would have to say: flags, sizes, tables, an
identification, a reply to discovery. An `Ask...` action is the method up to its
first command, `Driver` the command (which may fail), a `...Back` action the rest.
`whose` says what is in the taskfile then: the caller's registers, the drive's, or
bytes of sense data that are none (`Stray`: zeros, or anything). An open is `ParseIdentify` (**Identify**),
`Inquire`, `DiscoverTcg` and `GetTcgDevice` (**Discovery**): a reply to
discovery is the header's length and a sequence of descriptors, and `Walked` is
the walk over them, which takes the length for the end of the response. The
volumes of a drive on Linux come from **LinuxVolumes**: a list made of the lines
of `/proc/mounts` (the rest of a line of 512 characters or more is taken for
another line), and a search by the beginning of a path. The rest may have fewer
words than a mount; a `std::string` is then made of a null pointer (`Crashes`).

**LinuxDrive** is the Linux factory's `open` and `enumDrives`, the `open` of its
two drivers, and `DriveHandle::close` and destruction. `open[f]` is the kernel's
descriptor table: a descriptor is bound to a drive, names are not, and the lowest
free number is given out. `open` is split at each system call, so drives can be
exchanged in between; the objects are those of the program and one of
`enumDrives` (`Scratch`). `SgDriver::open` takes every result of `IDENTIFY DEVICE` but
-1 for an identification, so that any disk, or its bridge, that refuses the command
without an ATA status gets a driver handle, with the zeros of the buffer (`blank`);
`Scsi` are the disks that are neither ATA nor NVMe. `leaked` is history: descriptors whose holder was
destroyed. No destructor closes one, so the code leaks a descriptor for each drive
that `enumDrives` opens, for each object destroyed before `close`, and for each
NVMe drive that fails its identification; `Accounted` says that it leaks no
others. Methods called after `close` dereference the driver handle that `close`
dropped; the model ends an object's use there.

**WinDrive** is the same for Windows: the factory tries five drivers in turn
(`try`), one of which works on the adapter's port instead of the disk, and each
closes its handle in the failures it has (`NextDriver`). `at` and `behind` say
which drive has which number and sits behind which port, `open[w]` on which drive
a handle is open. After an open the identification and the number are merged into
`drive_info_` (`Merge`), where the port driver has no handle to ask for a number
and takes that of the path. `enumDrives` reads the disk interfaces one at a time
(`FindDevice`, `Found`), then opens each number (`OpenDevice`, `List`), and never
closes what it opened. `enumVolumes` reads one volume after the other
(`EnumVolumes`, `OpenVolume`, `ReadExtents`, `VolumesEnd`) while drives are moved: the
extents of each are in the numbers of its own moment, and `then[v]` remembers what
these meant. `calm`, `stayed` and `leaked` are history.

**Crypto** treats the compression function of SHA-1 as one without collisions: a
state is the sequence of the blocks it took in, and a byte is the set of the
unknowns that are xored in it. Around it, the buffering, the counter of bits in
two words, the padding, HMAC, PBKDF2 and `tcgHashPassword` are the code's, and are
compared with the definitions of FIPS 180, RFC 2104 and RFC 8018. The loops of the
code (the zeros of the padding, the rounds and the blocks of PBKDF2) are recursive
functions from the number of turns to what is made by then.

Definitions whose comment begins with "(Mutant" stand beside the action they
vary; they show that the properties can fail, and nothing uses them.

## Runs

| Run | Instance | What it shows |
|---|---|---|
| `exec` | 2 commands, 3 kinds of answer (fits, oversized, garbled), 2 transports, timeout of 2 ticks, weak fairness of the host; 798,868 states | a call that ended well leaves nothing behind (`SyncKept`), exec implements `TcgRpc` although commands arrive twice or never and fetched answers get lost (`RpcRefined`), every `exec` returns (`ExecReturns`) |
| `session_calm` | 2 objects, 4 commands of the program, no faults, weak fairness of library and TPer | every call returns (`CallsReturn`), the sessions of destroyed objects are released (`Released`) |
| `session_faults` | 2 objects, 2 commands; `lose`, `giveup` and `abort`, or `resend` over 2 transports, or `swallow`, or `odd`; 1,135,488 states | no session is left in the TPer (`NoSessionLeft`), success is real (`SuccessIsReal`), what an object believes is right (`BeliefRight`), it works in its own session only (`OwnSession`), it ends each session once (`EndOnce`) |
| `session_enterprise` | 1 object | **violated**: see Findings |
| `message` | a command in a buffer of 512 bytes, with strings of 0, 15, 16, 2047 and 2048 bytes and raw tokens of 1, 18 and 200; or an answer of 8 bytes of tokens (they share nothing, so a behaviour is that of one of them) | the three lengths agree (`Framed`), nothing stale is sent (`CleanTail`), nothing but strings of 2048 bytes and more is refused while all would fit (`NothingLost`); no token that is not there is looked into (`NoStrayToken`), a status is told as what it is (`StatusTold`) |
| `response_status` | the answer alone | **violated**: see Findings |
| `linux_drive` | 2 names, an ATA drive, an NVMe drive and one that is neither, 2 objects and that of `enumDrives`, 3 descriptors; 7.5 million states | an open object has a descriptor of its own, open on its drive (`OwnDescriptor`), every descriptor is accounted for (`Accounted`), `enumDrives` misses no drive that was there and takes none for another (`Enumerates`) |
| `pass_through` | 6 drivers, 2 disks with 2 partitions, 2 JMicron bridges, another USB bridge and a SATA drive, every request; 96,757 states | success was the drive's (`OkIsEarned`), so are data and registers (`DataIsTheDrives`, `RegistersAreTheDrives`) and failures (`FailureIsReal`), a bridge is taken for one if it is (`BridgeIsRight`) |
| `queries` | 11 methods, on both sides of each boundary of their numbers; log pages of 17 lengths in pieces of 8 bytes with half words of 4 bits, or by a driver with room for 8 (`Room`); four values of a byte that is no register (`Bytes`); replies to discovery of up to 4 descriptors in any order; 3 SMART slots (`Slots`), unused or with one of 2 identifiers (`Ids`); up to 3 mounts (`MaxMounts`), with 0 to 3 words left of a long line; 284,874 states | `ReadsAll`, `IdentityTold`, `DiscoveryTold`, `SanitizeAsAsked`, `SanitizeTold` (status and estimates), `CapacityTold`, `TaskfileAddresses`, `SmartTold`, `VolumesTold`: what is sent is what was asked, what is told is what the drive said |
| `queries_estimates` | the same | **violated**: see Findings |
| `crypto` | blocks of 5 bytes, digests of 2, words of 2 bytes and 80 values, messages of up to 42 bytes in 9 sizes of chunk; 21,290 states | digests, derived keys and password atoms are those of the standards (`DigestIsStandard`, `DerivedIsStandard`, `PasswordIsAtom`) |
| `windows_drive` | 2 numbers, 2 ports, an NVMe drive for each of two drivers, an ATA drive, 1 object and that of `enumDrives`, 4 handles, 2 moves, a volume over two drives and another on the third; 3.7 million states | an open object has a handle of its own on its drive (`OwnHandle`), each handle is accounted for (`Accounted`), a number is the drive's (`NumberIsTheDrives`), `enumDrives` misses none (`Enumerates`), volumes are those of the drive (`VolumesAreTheDrives`) |

Bounds. Two commands and two objects are enough for one call or object to be
hurt by what another left behind, which is what the properties are about; the
queue of two holds the late answer and the new one. `MaxCalls` bounds the
commands the program sends by itself; the closing commands and the second command
of a device function come on top, so with `MaxCalls` 2 up to six commands run. A
timeout of two ticks lets the loop turn, time out, and time out late. `polls`
stops counting at `MaxPolls`, one beyond what `PollBound` allows.

The string lengths of `message` are those at the borders of the three encodings,
and a buffer of one sector is filled from every side; `MaxLost` ends a run of
refused tokens once they are more than `NothingLost` can excuse, and `MaxLong` one of
strings without a form after the second. Eight bytes hold
more tokens than the five `sendCommand` looks back at, and a token that reaches
over the end. In `queries` the halves and the piece of a log page are scaled down
together, and the lengths lie around the multiples of both; so is `Room`. `Bytes` are
zeros, which are no state, and bytes that look like one. `Word32` is scaled
to 2^16 for NVMe's estimates, whose arithmetic is relative to it. The numbers of
ATA are not scaled: sizes lie on both sides of 2^28, times at 254, 255, 32766 and
32767, the native maximum where a carry leaves the low byte. Two rooms for a reply
to discovery are those of a buffer that is and is not aligned. Three slots of
SMART attributes are enough for two tables in different orders with a gap, three
mounts for one device mounted twice beside another. What is left of a long line
comes in one piece, and the line is cut behind its file system. In
`crypto` the block, the digest and the words are scaled down together, so
that messages end at each place in a block and the bit counter wraps (`MaxLen` 42
bytes are 336 bits, more than four times a word of 80 values). Keys are shorter
than a block, as long, longer, and as long as more than two; passwords are cut
(`MaxPassword`) or not; keys of up to two digests and a byte are derived in up to
three rounds.

Three descriptors (3 to `MaxFd`) are one more than the names need and fewer than objects,
lost ones and an `open` under way can hold, so both reuse and exhaustion happen; on Windows
four handles are as many as an enumeration can lose twice. `MaxMoves` 2 is an
exchange: a drive that goes and another that comes in its place. Two volumes on
different drives can be read on either side of it.

Deadlock is not checked for `TcgSession`, where a program that has used up its
objects and commands stops, nor for `TcgResponse`, which stops with its verdict (so not in `message` either, where
`TcgCommand` could always be reset).

Fairness. `WF_vars(Host)` and `WF_vars(Library)`: the calling thread keeps
running, and each ioctl returns because it carries a timeout. Of the drive
`ExecReturns` assumes nothing. `Released` needs a TPer that answers
(`WF_vars(TPer)`), and says nothing of objects that met any fault. The other
modules have loops over finite data only, and no liveness is claimed of them.

## What the checks show

* A timeout or a failed transfer leaves an answer behind and the next call takes
  it for its own. `SyncKept` says when this cannot happen, and the session
  properties carry the exception `unclean` for objects whose `start` met
  something pending; without it they are false.
* `start` marks the object open before it reads the session numbers. If it cannot
  read them the object later ends session 0, and the TPer keeps the one it opened
  (`odd` in `NoSessionLeft`).
* `close` does nothing after `dontAutoClose`, also when it is called explicitly,
  and `start` on an open object forgets its session: both are exceptions of
  `NoSessionLeft` (`kept`, `restart`).
* `DPARME_OK` can come back for a command that was not carried out in the cases of
  `Overlooked`. On Linux: the SCSI status behind a JMicron bridge, and a CHECK
  CONDITION that is not announced as DRIVER SENSE and brings no ATA status. On
  Windows: sense data without the Valid bit, sense data of a command without data,
  every taskfile of the SCSI driver, whose CDB asks for no protocol, the ATA status of
  a buffered try, and, with a vendor's NVMe miniport, the completion status and every
  command that writes.
* An `IF-SEND` can be among them. `exec` then polls for the answer to a command that
  never arrived, and returns an empty one, or one left by an earlier call. An
  EndOfSession that was swallowed so leaves its session in the TPer, since `close`
  looks at no result: `swallowed` and `unheard` are exceptions of `NoSessionLeft`.
  What an object believes, whose session it uses and what a success means do not
  suffer (`BeliefRight`, `OwnSession`, `SuccessIsReal`).
* The registers that `readNativeMaxSectors` and the sanitize status go by are the
  drive's on Linux with SAT only, and there not if the sense data that was demanded is
  missing (`RegistersAreTheDrives`). Elsewhere the status is made of the command that
  was sent (`StatusIsTheDrives`): a request that keeps the data allocated then
  looks like a success.
* Of a log page longer than 4096 bytes Windows' own NVMe driver reads the beginning,
  and says it was all (`ReadsAll`).
* A string of 2048 bytes or more is not in the command, whatever room there is, and
  nobody is told (`NothingLost`).
* `readNativeMaxSectors` adds one to the low register before it or-s the others to
  it, and is 256 too low exactly where that carries into a bit that is set
  (`CapacityTold`).
* NVMe serial numbers keep their leading blanks; NVMe sanitize status 4 (done, data
  kept allocated) is no state; NVMe estimates of 2^31 seconds or more are negative.
* Linux `findVolumesByDrive` gives sda also the volumes of sdaa. The rest of a long line
  of `/proc/mounts` with one word, or two the first time, ends the program
  (`Crashes`).
* A disk on Linux that is neither ATA nor NVMe is opened and listed without an error,
  with an identification of zeros (`OwnDescriptor`, `Enumerates`).
* The volumes found for one object on Windows may begin on two drives, if drives were
  exchanged while they were read (`VolumesAreTheDrives`).
* `enumDrives` loses a descriptor or handle per drive on both platforms, and
  objects destroyed before `close` lose theirs; no failing `open` does on Windows,
  one does on Linux (the identification of an NVMe drive).
* The disk number of a drive behind a vendor's miniport is the one in the path,
  which may be another drive's if disks were exchanged during the open
  (`NumberIsTheDrives`).
* The password key does not depend on the salt that is made of the serial number.
* HMAC keys longer than a block are not treated as RFC 2104 says, and so the keys that
  PBKDF2 derives of such passwords are not RFC 8018's. `DigestIsStandard` and
  `DerivedIsStandard` say so (`KeyTaken`); the library itself has no keys so long.

These are limits the properties state. Where a line of the repository says
otherwise, there is a finding.

### Findings

`session_enterprise`: `TcgDeviceEnterprise` does not override `isAnySSC`, which
`TcgDeviceGeneric` answers with false, so `exec` refuses every command of an
Enterprise drive with `DPARME_NOT_SUPPORTED` although the class implements
`revertTPer`, `enterpriseGetTable` and `getDefaultPassword`, and
`tcg_types.h:195` calls the feature the device is chosen by an SSC feature.

`response_status`: before it reads the method status, `sendCommand` rejects an
answer if its last token is not `ENDLIST` *and* the fifth from the end is
`STARTLIST`, under the comment "No method status". An answer without either passes
this test and is read at the place where the status would be: five zeros are a
success.

`queries_estimates`: `types.h:221-224` says of the sanitize estimates "Seconds unit",
"-1 = No reported". `ataEstToSeconds` also returns -2 and -3, for times longer than ATA
can tell, and `nvmeEstToSeconds` makes negative numbers of 2^31 seconds and more.
`EstimatesTold` says that there are no others.

## Proofs

TLAPS checks, for every value of the constants:

| Theorem | Statement |
|---|---|
| `TcgExecProofs!ExecImplementsRpc` | `Spec => RpcRefined` |
| `TcgExecProofs!ExecKeepsSync` | `Spec => []SyncKept` |
| `TcgExecProofs!TypeCorrect`, `PollsBounded`, `CommandSentOncePerTry` | `[]TypeOK`, `[]PollBound`, `[]SentOncePerTry` |
| `TcgExecProofs!TimeoutEarned` | `Spec => TimeoutIsEarned` |
| `TcgExecProofs!CallsKeepSync` | `RpcSpec => []SyncKept` |
| `TcgSessionProofs!SuccessReal`, `OwnSessions`, `BeliefsRight`, `NoneLeft`, `EndedOnce` | `Spec => []SuccessIsReal`, `[]OwnSession`, `[]BeliefRight`, `[]NoSessionLeft`, `[]EndOnce` |
| `TcgSessionProofs!SessionsUseRpc` | `Spec => Rpc!RpcSpec` |
| `TcgSessionProofs!TypeCorrect`, `CallsCorrect`, `OwnCorrect`, `HoldCorrect`, `BeliefCorrect`, `ClaimCorrect` | `[]TypeOK`, and the inductive invariants |
| `TcgMessageProofs!CommandTypes`, `StaysInside`, `WellFramed`, `SentInside`, `TailIsClean`, `LosesNothing` | `CommandSpec => []CommandTypeOK`, `[]PosInside`, `[]Framed`, `[]SendFits`, `[]CleanTail`, `[]NothingLost` |
| `TcgMessageProofs!ResponseTypes`, `CutsInside`, `StatusTokenIsThere`, `StatusIsTold` | `ResponseSpec => []ResponseTypeOK`, `[]StartsInside`, `[]NoStrayToken`, `[]StatusTold` |
| `QueriesProofs!ReadIsWhole`, `TellsItsRoom` | `Spec` (of `NvmeLogPage`) `=> []ReadsAll`, `[]ToldItsRoom` |
| `QueriesProofs!PagesAreWhole`, `IdentitiesTold`, `SanitizedAsAsked`, `SanitizingTold`, `CapacitiesTold`, `TaskfilesAddress` | `QSpec => []ReadsAll`, `[]IdentityTold`, `[]SanitizeAsAsked`, `[]SanitizeTold`, `[]CapacityTold`, `[]TaskfileAddresses` |
| `QueriesProofs!DiscoveriesTold`, `AttributesTold`, `VolumesOfDriveTold` | `QSpec => []DiscoveryTold`, `[]SmartTold`, `[]VolumesTold` |
| `QueriesProofs!CallsKnown` | `QSpec => []QInv` |
| `PassThroughProofs!SuccessEarned`, `DataCorrect`, `RegistersCorrect`, `FailureHasCause`, `BridgeKnown` | `Spec => []OkIsEarned`, `[]DataIsTheDrives`, `[]RegistersAreTheDrives`, `[]FailureIsReal`, `[]BridgeIsRight` |
| `PassThroughProofs!CallCorrect` | `Spec => []CallInv` |
| `LinuxDriveProofs!TypeCorrect`, `DescriptorIsOwn`, `AllAccounted`, `ErrorsAgree`, `AllEnumerated` | `[]TypeOK`, `[]OwnDescriptor`, `[]Accounted`, `[]ErrorAgrees`, `[]Enumerates` |
| `WinDriveProofs!TypeCorrect`, `HandleIsOwn`, `AllAccounted`, `ErrorsAgree`, `AllEnumerated`, `VolumesFound` | `[]TypeOK`, `[]OwnHandle`, `[]Accounted`, `[]ErrorAgrees`, `[]Enumerates`, `[]VolumesAreTheDrives` |
| `WinDriveProofs!NumberIsRight` | `Spec => NumberIsTheDrives` |
| `CryptoProofs!DigestsStandard`, `KeysStandard`, `PasswordsAtoms` | `Spec => []DigestIsStandard`, `[]DerivedIsStandard`, `[]PasswordIsAtom` |

Some of these invariants (`TypeOK`, `CommandTypeOK`, `ResponseTypeOK`, `PollBound`,
`SentOncePerTry`, `TimeoutIsEarned`, `PosInside`, `SendFits`, `StartsInside`,
`ToldItsRoom`, `ErrorAgrees`) no run checks any more: they are proved.

*Exec.* The inductive invariant `IInv` strengthens the properties by what links
the program counter to the rest: `ClockInv` (at each place in the loop, the polls
so far are bounded by the clock, because each turn sleeps one tick before it
polls and reads the clock before it sleeps), `SendInv` (the count of deliveries
is below the number of the try), `BusyInv` and `WaitInv` (a header that says "not
ready" came without an answer). Nothing in them counts on a reported success: only the
upper bound on deliveries is kept. The refinement needs one more, `FetchInv`: the
reason for which an IF-RECV brought nothing still holds when exec looks at the
header, because the TPer can only have added answers. `RefineStep` then maps each
action to an action of `TcgRpc` or to a stutter; the lemmas `PushFront` and
`HeadThenTail` move an answer between the queue and the response buffer.

*Rpc.* `SyncInv`: a caller that found nothing pending finds no more pending than
it sent. `ExecKeepsSync` carries the result over to exec along the refinement.
`SessionsUseRpc` is the other half: whatever the sessions do, what they ask of exec
is a behaviour of `TcgRpc`.

*Session.* The properties speak of the TPer's table, of the objects and of all that
is in flight between them, and the invariant is built in stages, each proved from
those before it:

1. `CallsInv`: where the thread is says what exec was asked (`CallInv`); a call that
   found nothing pending sees no packet but its own (`CleanInv`); and an answer that
   is pending says what the TPer did (`AnswerInv`). `SuccessIsReal` follows: the
   success was read from an answer that is the call's own.
2. `OwnInv`: objects and packets name sessions the TPer gave out, and their own
   unless the object was started with an answer pending. It holds beside `CallsInv`
   because the answer to a `StartSession` is taken by an object whose own it is.
   `OwnSession` is one of its parts.
3. `HoldInv`: the number of a session is known to one holder, the answer that
   announces it or the object that took it (`HeldInv`), always with the host's
   number (`NumbersInv`), so that a packet for a session reaches it.
4. `BeliefInv`: an open object's session is open, also while calls are under way and
   commands of calls that timed out are still waiting in the TPer: none of these
   will close the session of an object that was opened again since. Between calls
   this is `BeliefRight`.
5. `ClaimInv`: a session of an object that had no fault of its own is claimed, at
   each step of the call that opens, closes or reverts it (`StartInv`, `RevertInv`),
   and `DeviceInv`: a drive without an SSC is never asked anything. `NoSessionLeft`
   is what they say at any moment.

`EndOnce` needs none of these: by `CountInv`, an open object has one EndOfSession to
its credit, which `start` grants and `close` takes.

*Command.* The invariant is the conjunction of the six. The arithmetic is in
lemmas of its own: what each kind of token does to the position and to what was
lost, that padding ends at a multiple of 4 within the buffer (its size is one of
512), and that rounding to sectors stays inside it.

*Response.* `OnlyFitting` adds that only a sub-packet that fits is cut, so there
are fewer tokens than an unsigned integer counts; `Wraps` then says that
`getToken(getTokenCount() - k)` finds a token exactly if there are `k`.

*Log pages.* In the loop the bytes read so far are those below the offset, the offset
is a multiple of 4, and what the drive is told is what `xfer_len` says; the query of a
driver's own fills what it has room for (`LogInv`).

*Queries.* `QInv` says of each method what is in the taskfile at each step and what
the answer is made of, given what the drive would have to say (`truth`). The
properties then are lemmas about operators: the bits of the sanitize status and of
the command's count register, the bytes of an address in the registers, the
seconds an estimate is converted to, and a field of an identification that is
swapped, cut at the first NUL and trimmed (`SwappedTwice`, `FieldRead`,
`TextTrimmed`), where the text is of any length that a field holds.

Three of the answers are computed by walking over data of any length: the
descriptors of a reply, two SMART tables, the lines of `/proc/mounts`. `ToldInv`
says that the answer is what the walk makes of the drive's or the kernel's data, and
what the walk makes is an induction over what was read. The walks are recursive
functions from the number of entries read to the result so far (`Ends`, `Used`,
`Compared`, `VolumeLists`). The induction theorems of the library take the
predicate as a parameter, which no installed prover can instantiate, so the
induction runs on a set: `AllNumbers` says that a set with 0 and the successor of
each of its members has all numbers, because `<` is well-founded on them, and
`AllMade` from it that such a function satisfies its own equation. What holds of each
prefix is then a lemma: the descriptors before the end of the response are all of a
well-formed reply's, each found under its code (`WalkIsWhole`, `FeaturesRight`); the
list has the used slots in order and, after each threshold, the thresholds so far
where they belong (`UsedRight`, `ThresholdsGrow`, `SmartRight`); the list of volumes
has the devices of the lines so far with their mount points in order
(`ListIsRight`).

*Pass-through.* `CallInv` follows one command: what `cdb` the ioctl carries for each
request and try (`SentInv`, `TryInv`), what each kind of reply implies for the
drive's having done it (`ReplyInv` and its cases for the three kinds of driver),
and what each driver makes of it (`SgResultInv`, `NvmeResultInv`, `WinResultInv`).
`BridgeInv` adds to `BridgeIsRight` that the kept path belongs to its number, that
a descriptor whose drive is still there is on the drive behind its node, and that
all attributes read so far are that drive's.

*Linux drives.* The inductive invariant is `Core`, what holds of the descriptor
table and the objects, and `Frame`, what the program counter says of the object
and the descriptor under way. `ByDescriptor` restates `Accounted` for each
descriptor by itself. What a step can do to the table is one of few things, each
with a lemma: open one, close one, hand one over to an object, drop an object; the
actions are then cases of these. `Enumerates` needs `EnumInv`: while `enumDrives` runs,
a name that kept its drive is still to be read, is the one being opened or is
listed, and what the `open()` under way has learnt of it is true.

*Windows drives.* The same, with a lemma `NextDriverStep` for the five drivers
that fail. `NumberIsTheDrives` is about a step: it follows from `IInv` and a
second invariant, `CalmInv`, which says that as long as no drive was moved during
an open, the port that the path was resolved to leads to the drive with the
number in the path. `EnumInv` has one more place where a drive can be than on Linux,
the numbers that were found and are not opened yet; `VolumeInv` says that a drive
has one number, now and at the moment each volume was read, and that the extents of
a volume begin with the one that its drive had then.

*Crypto.* The invariant is the three properties and `ObjectHolds`: an object that was
reset holds what was fed to it, behind the inner pad if it has a key. To hold a
message (`Holds`) is to have taken in its whole blocks (`InBlocks`), to have the rest at
the front of the buffer and eight times its length in the two words of the counter.
`Updated` is the heart of the proof: `sha1Update` of any data turns an object that
holds `m` into one that holds `m \o data`, whether the data stays in the buffer, fills
it, or goes on for any number of blocks, and whether the low word wraps or not
(`WordsAdd`). The padding is appended byte by byte until the place of the length is
reached; `OnePadding` says that there is one number of zeros with which it is, so that
the loop stops where FIPS 180 wants (`FinalIs`), although it looks at the wrapped
counter only: a word is a whole number of blocks. HMAC and PBKDF2 follow from this
(`StdHmacIs`, `DigestStandard`, `RoundIs`): each loop has a lemma for its first value
and its step, proved with `AllNumbers` as those of `Queries` are, and `NumbersUpTo`
carries a fact over the turns of a loop that is bounded (`LengthenedSized`,
`RoundsStandard`, `BlocksStandard`). `BlocksStandard` says that byte `n` of what was made
is that of block `(n - 1) \div DigestSize + 1`, so the blocks too many do no harm. The
key is that of RFC 2104 up to the length of a block (`TakenIs`).

The assumptions say what the constants are: `ExecAssumption` (`NoCmd` is no
command, the bounds are numbers), `BufferAssumption` (the buffer is a number of
whole sectors), `ResponseAssumption` (an unsigned integer counts more than the
buffer holds), `LogPageAssumption` (a piece is a multiple of 4 below a half word).
`QueriesAssumption` says that a SMART log page is a whole number of dwords among the
lengths and that a word holds the estimates that are asked for, which all are
below 6 or relative to the word; further, that identifiers of SMART slots and the
number of mounts are numbers, that a reply is a length and a sequence of
descriptors, and that the buffer has room for the smallest response there may be
behind its first aligned byte. `SysfsAssumption` says that node numbers are
unique and that `None` is no kept path.
`CryptoAssumption` says that a block has room for the two words of the length, that
a word counts a whole number of blocks (2^32 is a multiple of 512), and that a
password does not exceed a block; `LengthAssumption` that the lengths asked for are
those at which the code's 32-bit sums and products do not wrap and the length in a
password's atom is a byte. No proof uses the latter: it says where the model, which
adds lengths without a width, is that of the code.
`LinuxAssumption` and `WinAssumption` say that `None`, `Blank` and `Scratch` are
no drives, descriptors or objects, that disk numbers are numbers, and that a volume
or a port is no place of the thread.
TLC evaluates each in the runs of its module.

The invariants the proofs add were checked by TLC first, each on the instance of
its run.

Only model-checked: the liveness properties `ExecReturns`, `CallsReturn` and
`Released` (TLAPS does not do fairness). Every other property of a passing run is
proved.

## Not modelled

* The rounds of SHA-1; SetupAPI, which lists the disk interfaces on Windows; `/sys`
  beyond the entries that are searched.
* `do_drive_cmd`, `do_taskfile_cmd`, `init_hdio_taskfile` and the sector helpers at
  the end of `sgio.cc`, and `reopenWritable`: nothing in the library calls them. The
  two INQUIRY commands of the drivers; `Queries!Inquire` has their result.
* `getString`, `getBytes` and the wider integers of a token; `setNoHashPassword` and
  `setTimeout` of a session, which nobody reads or which only change a payload.
* What a token holds that was copied from behind its buffer
  (`tcg_response_impl.cc:74`), a `DriveHandle` used after `close`
  (`drive_factory.cc:35`) and a session that outlives its drive handle
  (`tcg_device_general.cc:97`): the behaviour is undefined and nothing says what
  should happen. The models end an object's use there.
* On Windows, a failing `FindFirstVolume` (`volume_finder.cc:47` tests its result for null,
  which is not what it returns then) and a disk that is there and cannot be opened
  while the interfaces are listed (`physical_drive_finder.cc:111-124`).
* The layout of identification data beyond the fields that properties speak of;
  the words of DCO IDENTIFY, which are handed on as they come; `test/`.

## Plan

All components are modelled, four of them in part (see above). What could still be
added: a composition of `TcgSession` with the life cycle of the drive handle, once
the library says what it should be.
