----------------------------- MODULE TcgCommand -----------------------------
(***************************************************************************)
(* The builder of TCG commands (TcgCommandImpl,                            *)
(* src/tcg/tcg_command_impl.cc): a buffer of MAX_BUFFER_LENGTH bytes whose *)
(* first 56 bytes are three nested headers, and a position behind the last *)
(* byte written.  A program resets it, adds tokens, completes it and hands *)
(* it to exec, which sends getCmdSize() bytes.  It may do so in any order  *)
(* and as often as it likes, and nobody looks at what the add functions    *)
(* return.                                                                 *)
(*                                                                         *)
(* Bytes are not modelled, only how many there are, and how many there     *)
(* should be: the calls since the last reset asked for bytes up to pos and *)
(* lost more, long of which are strings that addStringToken has no form    *)
(* for.                                                                    *)
(***************************************************************************)
EXTENDS Integers

CONSTANTS
  MaxBuffer,  \* MAX_BUFFER_LENGTH, 61440 in the code
  RawSizes,   \* lengths of the byte strings the program adds raw
  TextSizes,  \* lengths of the strings it adds as tokens
  MaxLost,    \* bound on the bytes that the program goes on to lose for want of room
  MaxLong     \* bound on those of strings without a form

Sector == 512

\* sizeof opal_com_packet_t, opal_packet_t and opal_data_sub_packet_t.
ComHeader == 20
PacketHeader == 24
SubHeader == 12
HeaderSize == ComHeader + PacketHeader + SubHeader

ASSUME BufferAssumption ==
  /\ MaxBuffer \in Nat /\ MaxBuffer > 0 /\ MaxBuffer % Sector = 0
  /\ RawSizes \subseteq Nat /\ TextSizes \subseteq Nat

\* The bytes of a number token behind its tag; none if the value is below 64.
NumberSizes == {0, 1, 2, 4, 8}

VARIABLES
  body,     \* pos is cmd_pos_, lost and long count bytes asked for but not written
  sub,      \* subpkt.length
  pkt,      \* pkt.length
  com,      \* cp.length
  sealed,   \* complete() has returned true, no add or reset was called since
  dirty     \* behind the last byte of the buffer that may not be zero

commandVars == <<body, sub, pkt, com, sealed, dirty>>
commandHeaders == <<sub, pkt, com>>

Empty == [pos |-> HeaderSize, lost |-> 0, long |-> 0]

CommandInit ==
  /\ body = Empty
  /\ sub = 0 /\ pkt = 0 /\ com = 0
  /\ sealed = FALSE
  /\ dirty = HeaderSize

-----------------------------------------------------------------------------
(* Writing *)

\* (Mutant: one byte is kept free.)
checkCmdBufWriteStrict(b, n) == MaxBuffer - b.pos > n

\* The subtraction is unsigned; it does not wrap as long as PosInside holds.
checkCmdBufWrite(b, n) == MaxBuffer - b.pos >= n

Written(b, n) == [b EXCEPT !.pos = @ + n]
Refused(b, n) == [b EXCEPT !.lost = @ + n]

\* addByteToken and addRawToken.
Put(b, n) ==
  IF checkCmdBufWrite(b, n) THEN Written(b, n) ELSE Refused(b, n)

\* A string of 2048 bytes or more takes a long atom, with four bytes before it,
\* which addStringToken does not know: there is nothing of it in the command.
PassedOver(b, n) == [b EXCEPT !.lost = @ + (4 + n), !.long = @ + (4 + n)]

\* addStringToken: one tag byte, or two.
PutString(b, n) ==
  IF n = 0 THEN Put(b, 2)
  ELSE IF n < 16 THEN Put(b, 1 + n)
  ELSE IF n < 2048 THEN Put(b, 2 + n)
  ELSE PassedOver(b, n)

\* addNumberToken writes the tag before it knows whether the value fits.
PutNumber(b, n) ==
  IF ~checkCmdBufWrite(b, 1) THEN Refused(b, 1 + n)
  ELSE IF checkCmdBufWrite(Written(b, 1), n) THEN Written(Written(b, 1), n)
  ELSE Refused(Written(b, 1), n)

\* The body is now b, which writes only zeros and payload behind the old one.
Become(b) ==
  /\ body' = b
  /\ dirty' = IF b.pos > dirty THEN b.pos ELSE dirty

-----------------------------------------------------------------------------
(* Operations *)

Bounded == body.lost - body.long <= MaxLost

Add(b) ==
  /\ Bounded /\ b.long <= MaxLong
  /\ Become(b)
  /\ sealed' = FALSE
  /\ UNCHANGED commandHeaders

AddRaw == \E n \in RawSizes : Add(Put(body, n))
AddString == \E n \in TextSizes : Add(PutString(body, n))
AddNumber == \E n \in NumberSizes : Add(PutNumber(body, n))

\* (Mutant: the position goes back, the bytes stay.)
CleanPosition ==
  /\ sub' = 0 /\ pkt' = 0 /\ com' = 0
  /\ sealed' = FALSE
  /\ dirty' = dirty

\* The memset of reset().
Clean ==
  /\ sub' = 0 /\ pkt' = 0 /\ com' = 0
  /\ sealed' = FALSE
  /\ dirty' = body'.pos

Reset ==
  /\ body' = Empty
  /\ Clean

\* reset(uid, method): CALL, the object and the method.  An OpalUID is a
\* string token of 8 bytes, a vector is added raw.
ResetCall ==
  /\ \E object \in {PutString(Written(Empty, 1), 8)}
                     \cup {Put(Written(Empty, 1), n) : n \in RawSizes} :
       body' = PutString(object, 8)
  /\ Clean

StatusList == 6    \* F9 F0 00 00 00 F1
Padding(b) == (4 - (b.pos % 4)) % 4

\* (Mutant: the lengths are taken before the padding.)
SealUnpadded(b) ==
  /\ Become(Written(b, Padding(b)))
  /\ sub' = b.pos - HeaderSize
  /\ pkt' = b.pos - ComHeader - PacketHeader
  /\ com' = b.pos - ComHeader
  /\ sealed' = TRUE

\* The part of complete() behind the status list.  Its ELSE is the padding loop
\* running into the end of the buffer.
Seal(b) ==
  /\ sub' = b.pos - HeaderSize
  /\ IF checkCmdBufWrite(b, Padding(b))
     THEN LET padded == Written(b, Padding(b))
          IN /\ Become(padded)
             /\ pkt' = padded.pos - ComHeader - PacketHeader
             /\ com' = padded.pos - ComHeader
             /\ sealed' = TRUE
     ELSE /\ Become(Refused([b EXCEPT !.pos = MaxBuffer], Padding(b)))
          /\ sealed' = FALSE
          /\ UNCHANGED <<pkt, com>>

CompleteWithStatus ==
  /\ Bounded
  /\ IF checkCmdBufWrite(body, StatusList)
     THEN Seal(Written(body, StatusList))
     ELSE /\ Become(Refused(body, StatusList))
          /\ UNCHANGED <<sealed, commandHeaders>>

CompleteBare ==
  /\ Bounded
  /\ Seal(body)

CommandNext == AddRaw \/ AddString \/ AddNumber \/ Reset \/ ResetCall
          \/ CompleteWithStatus \/ CompleteBare

CommandSpec == CommandInit /\ [][CommandNext]_commandVars

-----------------------------------------------------------------------------
(* What is sent *)

getCmdSize ==
  IF body.pos % Sector = 0 THEN body.pos ELSE body.pos + Sector - (body.pos % Sector)

-----------------------------------------------------------------------------
(* Properties *)

\* The position and the history have their types.
CommandTypeOK ==
  /\ body \in [pos : Nat, lost : Nat, long : Nat]
  /\ sub \in Nat /\ pkt \in Nat /\ com \in Nat
  /\ sealed \in BOOLEAN
  /\ dirty \in Nat

\* No sequence of calls moves the position out of the buffer: the assertion of
\* complete() holds at every moment, and the unsigned subtraction in
\* checkCmdBufWrite never wraps.
PosInside == HeaderSize <= body.pos /\ body.pos <= MaxBuffer

\* What complete() finds to be complete is framed: each length stops where
\* the length around it stops, save for at most three bytes of padding, and
\* all of them where the position is.
Framed ==
  sealed =>
    /\ com = body.pos - ComHeader
    /\ com = PacketHeader + pkt
    /\ pkt % 4 = 0
    /\ SubHeader + sub <= pkt /\ pkt <= SubHeader + sub + 3

\* getCmdSize() bytes lie in the buffer, are whole sectors, and hold what the
\* headers announce, also when the command was changed after complete() or
\* never completed.
SendFits ==
  /\ getCmdSize % Sector = 0
  /\ getCmdSize <= MaxBuffer
  /\ ComHeader + com <= getCmdSize
  /\ sealed => getCmdSize - (ComHeader + com) < Sector

\* Behind the position the buffer is zero: nothing of an earlier command, a
\* password say, is sent again with a later one.
CleanTail == dirty <= body.pos

\* But for strings of 2048 bytes and more, which are never written, bytes are
\* lost, whole tokens or the value of a number whose tag was written, only when
\* there is no room for everything: a command whose other tokens fit into the
\* buffer has all of those in it.
NothingLost ==
  body.lost = body.long \/ body.pos + (body.lost - body.long) > MaxBuffer
=============================================================================
