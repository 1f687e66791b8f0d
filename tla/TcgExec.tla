------------------------------ MODULE TcgExec -------------------------------
(***************************************************************************)
(* TcgDeviceGeneric::exec (src/tcg/tcg_device_general.cc) on top of        *)
(* DriveHandleBase::doSecurityCommand (src/drive_handle_base.cc): the      *)
(* IF-SEND of a command, the loop of IF-RECVs 25 ms apart that waits for   *)
(* its answer, and the ten-second limit on that loop.                      *)
(*                                                                         *)
(* doSecurityCommand hands a transfer to the platform driver and, whatever *)
(* the driver's complaint, again to an NVMe or ATA pass-through; on        *)
(* Windows each of the two tries a direct and then a buffered ioctl.       *)
(* Attempts is the number of tries a platform makes: 1 on Linux, 2 for the *)
(* Windows ATA and NVMe drivers, 4 for the Windows SCSI driver.  A try     *)
(* that reports failure may still have moved the data, and one that        *)
(* reports success need not have: the SCSI driver overlooks an error whose *)
(* sense data is not valid (scsi_driver.cc:272-278), the vendor's NVMe     *)
(* driver never looks at the completion (nvme_win_driver.cc:223), and so   *)
(* on (Overlooked in PassThrough).                                         *)
(*                                                                         *)
(* Time is counted in pauses of 25 ms.  TcgExec implements TcgRpc.         *)
(***************************************************************************)
EXTENDS Naturals, Sequences

CONSTANTS
  Cmd, NoCmd, Body, Oversize, Garbled, Attempts, Capacity,   \* as in TcgRpc
  Timeout,    \* timeout_duration, in ticks
  MaxLag      \* the longest one transfer takes, in ticks

ASSUME ExecAssumption ==
  /\ NoCmd \notin Cmd
  /\ NoCmd \notin Body
  /\ Oversize \subseteq Body
  /\ Garbled \subseteq Body
  /\ Attempts \in Nat
  /\ Capacity \in Nat
  /\ Timeout \in Nat
  /\ MaxLag \in Nat

VARIABLES
  anySSC,     \* what isAnySSC() says of this device
  pc,         \* where the calling thread is
  cmd,        \* the command being executed, or NoCmd
  attempt,    \* the try doSecurityCommand makes next
  now,        \* ticks since begin_at
  spent,      \* spent_time
  resp,       \* what the IF-RECV left in the response buffer
  ret,        \* what the last exec returned
  inbox,      \* commands the TPer has received and not yet worked on
  outbox,     \* answers the TPer has ready, oldest first
  sent,       \* history: how often cmd has reached the drive
  clean,      \* history: nothing was pending when exec was entered
  polls       \* history: IF-RECVs that found the answer outstanding, as far
              \*   as MaxPolls

tperVars == <<inbox, outbox>>
clockVars == <<now, spent, polls>>
hostVars == <<pc, cmd, attempt, clockVars, resp, ret, sent, clean, anySSC>>
vars == <<hostVars, tperVars>>

Answer == [to : Cmd, body : Body]

\* A ComPacket without payload: all the lengths in its header are zero.
Nothing == [to |-> NoCmd, body |-> NoCmd]

\* The headers a TPer sends; heard is a history: the buffer was read from the
\* drive.
Header(outstanding, minTransfer, ans) ==
  [outstanding |-> outstanding, minTransfer |-> minTransfer, ans |-> ans, heard |-> TRUE]

\* The response buffer after reset(), as an IF-RECV that brings nothing leaves it.
Cleared == [outstanding |-> FALSE, minTransfer |-> FALSE, ans |-> Nothing, heard |-> FALSE]

Init ==
  /\ anySSC \in BOOLEAN
  /\ pc = "idle"
  /\ cmd = NoCmd
  /\ attempt = 1
  /\ now = 0
  /\ spent = 0
  /\ resp = Cleared
  /\ ret = [cmd |-> NoCmd, code |-> "OK", ans |-> Nothing, sent |-> 0, clean |-> TRUE,
            heard |-> TRUE]
  /\ inbox = <<>>
  /\ outbox = <<>>
  /\ sent = 0
  /\ clean = TRUE
  /\ polls = 0

MaxPolls == Timeout + 3

Elapse(least) == \E lag \in least..(least + MaxLag) : now' = now + lag

Goto(from, to) == pc = from /\ pc' = to

Return(code, ans, heard) ==
  /\ pc' = "idle"
  /\ cmd' = NoCmd
  /\ ret' = [cmd |-> cmd, code |-> code, ans |-> ans, sent |-> sent, clean |-> clean,
             heard |-> heard]
  /\ UNCHANGED <<attempt, clockVars, resp, sent, clean, anySSC>>

-----------------------------------------------------------------------------

\* A session enters exec, which takes the time.
Enter(c) ==
  /\ Goto("idle", "begin")
  /\ cmd' = c
  /\ now' = 0
  /\ polls' = 0
  /\ sent' = 0
  /\ clean' = (inbox = <<>> /\ outbox = <<>>)
  /\ UNCHANGED <<attempt, spent, resp, ret, anySSC, tperVars>>

RejectNoSSC ==
  /\ pc = "begin"
  /\ ~anySSC
  /\ Return("NOT_SUPPORTED", Nothing, TRUE)
  /\ UNCHANGED tperVars

StartSend ==
  /\ anySSC
  /\ Goto("begin", "send")
  /\ attempt' = 1
  /\ UNCHANGED <<cmd, clockVars, resp, ret, sent, clean, anySSC, tperVars>>

\* The command reaches the drive, if that has room; it may drop the answers
\* nobody fetched.
Delivered ==
  /\ Len(inbox) + Len(outbox) < Capacity
  /\ sent' = sent + 1
  /\ inbox' = Append(inbox, cmd)
  /\ outbox' \in {outbox, <<>>}

Swallowed == UNCHANGED <<sent, tperVars>>

\* A driver reports success, whether or not the command reached the drive.
SendSucceeds ==
  /\ attempt <= Attempts
  /\ Goto("send", "loop")
  /\ Delivered \/ Swallowed
  /\ Elapse(0)
  /\ UNCHANGED <<cmd, attempt, spent, polls, resp, ret, clean, anySSC>>

\* A try fails, before or after the command reached the drive.
SendFails ==
  /\ pc = "send"
  /\ attempt <= Attempts
  /\ attempt' = attempt + 1
  /\ Delivered \/ Swallowed
  /\ Elapse(0)
  /\ UNCHANGED <<pc, cmd, spent, polls, resp, ret, clean, anySSC>>

\* (Mutant: the clock is read anew in every turn.)
LoopTopNewClock ==
  /\ Goto("loop", "recv")
  /\ spent' = 0
  /\ now' = 1
  /\ resp' = Cleared
  /\ attempt' = 1
  /\ UNCHANGED <<cmd, ret, sent, clean, polls, anySSC, tperVars>>

\* One turn of the loop begins: the time is taken, the thread sleeps 25 ms and
\* clears the buffer.
LoopTop ==
  /\ Goto("loop", "recv")
  /\ spent' = now
  /\ now' = now + 1
  /\ resp' = Cleared
  /\ attempt' = 1
  /\ UNCHANGED <<cmd, ret, sent, clean, polls, anySSC, tperVars>>

Fits == outbox # <<>> /\ Head(outbox).body \notin Oversize

\* Nothing is brought to the host, whether or not an answer left the drive.
Dropped ==
  \/ UNCHANGED outbox
  \/ Fits /\ outbox' = Tail(outbox)

\* A try fails, before or after it took an answer from the drive.
RecvFails ==
  /\ pc = "recv"
  /\ attempt <= Attempts
  /\ attempt' = attempt + 1
  /\ Dropped
  /\ Elapse(0)
  /\ UNCHANGED <<pc, cmd, spent, polls, resp, ret, sent, clean, anySSC, inbox>>

\* (Mutant: the last error is swallowed.)
GiveUpQuietly ==
  /\ pc \in {"send", "recv"}
  /\ attempt > Attempts
  /\ Return("OK", Nothing, TRUE)
  /\ UNCHANGED tperVars

\* No try is left: the error of the last one is returned.  A drive that is
\* neither NVMe nor ATA leaves none to begin with.
GiveUp ==
  /\ pc \in {"send", "recv"}
  /\ attempt > Attempts
  /\ Return(IF Attempts = 0 THEN "NOT_SUPPORTED" ELSE "IOCTL_FAILED", Nothing, TRUE)
  /\ UNCHANGED tperVars

\* A driver reports the IF-RECV as done.  It brought the oldest answer; or the
\* header of an answer that does not fit, which stays with the drive; or word
\* that the TPer is still at work; or an empty ComPacket when nothing is
\* pending; or nothing at all, and the buffer is as reset() left it.
RecvSucceeds ==
  /\ attempt <= Attempts
  /\ Goto("recv", "check")
  /\ \/ Fits /\ resp' = Header(FALSE, FALSE, Head(outbox)) /\ outbox' = Tail(outbox)
     \/ /\ ~Fits
        /\ resp' = Header(outbox # <<>> \/ inbox # <<>>, outbox # <<>>, Nothing)
        /\ UNCHANGED outbox
     \/ resp' = Cleared /\ Dropped
  /\ polls' = IF resp'.outstanding /\ ~resp'.minTransfer /\ polls < MaxPolls
              THEN polls + 1 ELSE polls
  /\ Elapse(0)
  /\ UNCHANGED <<cmd, attempt, spent, ret, sent, clean, anySSC, inbox>>

NotReady == resp.outstanding /\ ~resp.minTransfer

\* The end of the loop's body and its condition: time is tested first.
LoopAgain ==
  /\ Goto("check", "loop")
  /\ ~(spent > Timeout)
  /\ NotReady
  /\ UNCHANGED <<cmd, attempt, clockVars, resp, ret, sent, clean, anySSC, tperVars>>

TimeOut ==
  /\ pc = "check"
  /\ spent > Timeout
  /\ NotReady
  /\ Return("OPERATION_TIMEOUT", Nothing, TRUE)
  /\ UNCHANGED tperVars

\* (Mutant: the answer is not waited for.)
CommitAtOnce ==
  /\ pc = "check"
  /\ IF resp.ans.body \in Garbled
     THEN Return("ILLEGAL_DATA", Nothing, resp.heard)
     ELSE Return("OK", resp.ans, resp.heard)
  /\ UNCHANGED tperVars

\* commit() parses what came, in time or not.
Commit ==
  /\ pc = "check"
  /\ ~NotReady
  /\ IF resp.ans.body \in Garbled
     THEN Return("ILLEGAL_DATA", Nothing, resp.heard)
     ELSE Return("OK", resp.ans, resp.heard)
  /\ UNCHANGED tperVars

\* The TPer works on the oldest command and answers it, or ignores it
\* (external: the drive).
Answered(b) == outbox' = Append(outbox, [to |-> Head(inbox), body |-> b])

TPer ==
  /\ inbox # <<>>
  /\ inbox' = Tail(inbox)
  /\ UNCHANGED outbox \/ \E b \in Body : Answered(b)
  /\ UNCHANGED hostVars

Host ==
  \/ RejectNoSSC
  \/ StartSend
  \/ SendSucceeds
  \/ SendFails
  \/ LoopTop
  \/ RecvFails
  \/ GiveUp
  \/ RecvSucceeds
  \/ LoopAgain
  \/ TimeOut
  \/ Commit

Next ==
  \/ \E c \in Cmd : Enter(c)
  \/ Host
  \/ TPer

Spec == Init /\ [][Next]_vars

\* The calling thread keeps running and every ioctl comes back (each carries a
\* timeout of its own); the drive owes nothing.
FairSpec == Spec /\ WF_vars(Host)

-----------------------------------------------------------------------------

TypeOK ==
  /\ anySSC \in BOOLEAN
  /\ pc \in {"idle", "begin", "send", "loop", "recv", "check"}
  /\ cmd \in Cmd \cup {NoCmd}
  /\ attempt \in 1..(Attempts + 1)
  /\ now \in Nat
  /\ spent \in Nat
  /\ resp \in [outstanding : BOOLEAN, minTransfer : BOOLEAN, ans : Answer \cup {Nothing},
               heard : BOOLEAN]
  /\ ret \in [cmd : Cmd \cup {NoCmd},
              code : {"OK", "NOT_SUPPORTED", "IOCTL_FAILED", "ILLEGAL_DATA", "OPERATION_TIMEOUT"},
              ans : Answer \cup {Nothing}, sent : Nat, clean : BOOLEAN, heard : BOOLEAN]
  /\ inbox \in Seq(Cmd)
  /\ outbox \in Seq(Answer)
  /\ sent \in Nat
  /\ clean \in BOOLEAN
  /\ polls \in Nat

(***************************************************************************)
(* The loop is bounded: however slow the drive, at most Timeout + 2        *)
(* IF-RECVs find the answer outstanding (tcg_device_general.cc:124-136).   *)
(* Each turn sleeps a tick, and the limit is tested on the time before it. *)
(***************************************************************************)
PollBound == polls <= Timeout + 2

(***************************************************************************)
(* exec returns a timeout only when the limit had passed before the last   *)
(* IF-RECV and that IF-RECV still found no answer; so the command's answer *)
(* is not lost by giving up: whatever arrived in the very last IF-RECV is  *)
(* still taken (tcg_device_general.cc:132-142).                            *)
(***************************************************************************)
TimeoutIsEarned ==
  [][ret'.code = "OPERATION_TIMEOUT" /\ ret' # ret
       => spent > Timeout /\ polls > 0 /\ resp.ans = Nothing]_vars

(***************************************************************************)
(* A command is with the drive at most once for every transport tried; the *)
(* polling loop never repeats the IF-SEND, and a device without an SSC is  *)
(* never touched (tcg_device_general.cc:114-128).  It need not be with the *)
(* drive at all when its answer is asked for: see SendSucceeds.            *)
(***************************************************************************)
SentOncePerTry ==
  /\ sent <= Attempts
  /\ pc = "send" => sent < attempt
  /\ ~anySSC => inbox = <<>> /\ outbox = <<>>

(***************************************************************************)
(* Every exec returns, even from a drive that never answers: the loop of   *)
(* tcg_device_general.cc:124-136 ends by its own clock.                    *)
(***************************************************************************)
ExecReturns == pc # "idle" ~> pc = "idle"

(***************************************************************************)
(* exec keeps the promise TcgSession is built on.  An answer fetched and   *)
(* not yet returned still counts as queued.                                *)
(***************************************************************************)
Queued == IF pc = "check" /\ resp.ans # Nothing THEN <<resp.ans>> \o outbox ELSE outbox

Rpc == INSTANCE TcgRpc WITH busy <- cmd, outbox <- Queued

RpcRefined == Rpc!RpcSpec

(***************************************************************************)
(* What one call leaves pending for the next (SyncKept of TcgRpc, read     *)
(* through the mapping): nothing, unless it ended with an error or a       *)
(* timeout, its command arrived twice, its answer did not fit or its last  *)
(* IF-RECV was only reported as done (tcg_device_general.cc:118-147).      *)
(***************************************************************************)
SyncKept == Rpc!SyncKept

=============================================================================
