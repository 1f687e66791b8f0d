------------------------------- MODULE TcgRpc -------------------------------
(***************************************************************************)
(* What TcgDeviceGeneric::exec promises to the sessions built on it: one   *)
(* command at a time is handed to the drive, the drive's TPer works        *)
(* through the commands it received and queues an answer for each, and the *)
(* call comes back with the oldest queued answer, with nothing, or with an *)
(* error.  Nothing ties the answer to the command: there is no serial      *)
(* number in a packet, so an answer left over by a call that gave up is    *)
(* handed to the next one.  Nor does success mean that anything was moved: *)
(* a transport may report a transfer as done that never reached the drive. *)
(*                                                                         *)
(* How the call polls, retries and watches the clock is in TcgExec, which  *)
(* implements this module; the sessions of TcgSession are built on it.     *)
(***************************************************************************)
EXTENDS Naturals, Sequences

CONSTANTS
  Cmd,        \* the commands a caller may hand over
  NoCmd,      \* no command is being executed
  Body,       \* the contents an answer may have
  Oversize,   \* contents that do not fit the 2048-byte response buffer
  Garbled,    \* contents TcgResponseImpl::commit refuses
  Attempts,   \* transports doSecurityCommand tries in turn for one transfer
  Capacity    \* commands and answers the TPer can hold

VARIABLES
  busy,       \* the command exec is working on, or NoCmd
  sent,       \* how often that command has reached the drive
  clean,      \* no command or answer was pending when exec was entered
  inbox,      \* commands the TPer has received and not yet worked on
  outbox,     \* answers the TPer has ready, oldest first
  ret         \* what the last exec returned

rpcVars == <<busy, sent, clean, inbox, outbox, ret>>

Answer == [to : Cmd, body : Body]

\* A ComPacket without payload: all the lengths in its header are zero.
Nothing == [to |-> NoCmd, body |-> NoCmd]

Errors == {"IOCTL_FAILED", "NOT_SUPPORTED"}

Codes == Errors \cup {"OK", "ILLEGAL_DATA", "OPERATION_TIMEOUT"}

\* heard: the last IF-RECV was not merely reported as done.
Return(code, ans, heard) ==
  /\ busy # NoCmd
  /\ ret' = [cmd |-> busy, code |-> code, ans |-> ans, sent |-> sent, clean |-> clean,
             heard |-> heard]
  /\ busy' = NoCmd
  /\ UNCHANGED <<sent, clean, inbox>>

Quiet == inbox = <<>> /\ outbox = <<>>

Oversized == outbox # <<>> /\ Head(outbox).body \in Oversize

-----------------------------------------------------------------------------

RpcInit ==
  /\ busy = NoCmd
  /\ sent = 0
  /\ clean = TRUE
  /\ inbox = <<>>
  /\ outbox = <<>>
  /\ ret = [cmd |-> NoCmd, code |-> "OK", ans |-> Nothing, sent |-> 0, clean |-> TRUE,
            heard |-> TRUE]

\* A caller enters exec with command c.
Call(c) ==
  /\ busy = NoCmd
  /\ busy' = c
  /\ sent' = 0
  /\ clean' = Quiet
  /\ UNCHANGED <<inbox, outbox, ret>>

\* The command reaches the drive, if it has room.  Each transport may deliver
\* it once more.  The drive may drop the answers nobody fetched when a new
\* command arrives.
Deliver ==
  /\ busy # NoCmd
  /\ sent < Attempts
  /\ Len(inbox) + Len(outbox) < Capacity
  /\ sent' = sent + 1
  /\ inbox' = Append(inbox, busy)
  /\ outbox' \in {outbox, <<>>}
  /\ UNCHANGED <<busy, clean, ret>>

\* The TPer works on the oldest command and answers it, or ignores it.
Process(bodies) ==
  /\ inbox # <<>>
  /\ inbox' = Tail(inbox)
  /\ outbox' = outbox \o [i \in 1..Len(bodies) |-> [to |-> Head(inbox), body |-> bodies[i]]]
  /\ UNCHANGED <<busy, sent, clean, ret>>

\* A transfer fetched an answer and dropped it: nobody will see that answer.
Lose ==
  /\ busy # NoCmd
  /\ outbox # <<>>
  /\ ~Oversized
  /\ outbox' = Tail(outbox)
  /\ UNCHANGED <<busy, sent, clean, inbox, ret>>

\* The command itself need not have arrived for any of what follows.
ReturnAnswer ==
  /\ outbox # <<>>
  /\ ~Oversized
  /\ IF Head(outbox).body \in Garbled
     THEN Return("ILLEGAL_DATA", Nothing, TRUE)
     ELSE Return("OK", Head(outbox), TRUE)
  /\ outbox' = Tail(outbox)

\* Nothing is pending, or the oldest answer does not fit and stays where it is.
ReturnNothing ==
  /\ Quiet \/ Oversized
  /\ Return("OK", Nothing, TRUE)
  /\ UNCHANGED outbox

\* The transport reports an IF-RECV as done that brought nothing: the cleared
\* buffer reads as an empty ComPacket, whatever the drive has pending.
ReturnUnheard ==
  /\ Return("OK", Nothing, FALSE)
  /\ UNCHANGED outbox

\* The TPer was still at work when it was asked for the last time; it may have
\* finished since.
ReturnTimeout ==
  /\ Return("OPERATION_TIMEOUT", Nothing, TRUE)
  /\ UNCHANGED outbox

ReturnError ==
  /\ \E code \in Errors : Return(code, Nothing, TRUE)
  /\ UNCHANGED outbox

RpcNext ==
  \/ \E c \in Cmd : Call(c)
  \/ Deliver
  \/ \E b \in Body : Process(<<b>>)
  \/ Process(<<>>)
  \/ Lose
  \/ ReturnAnswer
  \/ ReturnNothing
  \/ ReturnUnheard
  \/ ReturnTimeout
  \/ ReturnError

RpcSpec == RpcInit /\ [][RpcNext]_rpcVars

-----------------------------------------------------------------------------

RpcTypeOK ==
  /\ busy \in Cmd \cup {NoCmd}
  /\ sent \in 0..Attempts
  /\ clean \in BOOLEAN
  /\ inbox \in Seq(Cmd)
  /\ outbox \in Seq(Answer)
  /\ ret \in [cmd : Cmd \cup {NoCmd}, code : Codes, ans : Answer \cup {Nothing},
              sent : 0..Attempts, clean : BOOLEAN, heard : BOOLEAN]

(***************************************************************************)
(* A caller that found nothing pending leaves nothing pending to the next, *)
(* provided its command reached the drive at most once and exec fetched an *)
(* answer (or none was due), garbled or not, but not oversized: of all the *)
(* ways exec can end (tcg_device_general.cc:119-147) only an error, a      *)
(* timeout, a second delivery, an IF-RECV wrongly reported as done or an   *)
(* oversized answer leaves something behind.  A command that never arrived *)
(* although its IF-SEND was reported as done leaves nothing.               *)
(***************************************************************************)
SyncKept ==
  /\ busy = NoCmd
  /\ ret.clean
  /\ ret.heard
  /\ ret.sent <= 1
  /\ ret.code \in {"OK", "ILLEGAL_DATA"}
  /\ ~Oversized
  => Quiet

=============================================================================
