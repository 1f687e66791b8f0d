---------------------------- MODULE NvmeLogPage ----------------------------
(***************************************************************************)
(* Reading a log page of an NVMe drive (doNvmeGetLogPage and               *)
(* doNvmeGetLogPageCmd, src/drive_handle_base.cc).  The page is read in    *)
(* pieces of 4096 bytes; a command names the offset of its piece in bytes  *)
(* but its size in dwords, less one, in two half words of the command.     *)
(* A driver may have a way of its own instead, as that for the NVMe drives *)
(* of Windows has: one query, with room for 4096 bytes.                    *)
(*                                                                         *)
(* The drive may fail any command.  The buffer is modelled by the set of   *)
(* its bytes that hold their own byte of the log.                          *)
(***************************************************************************)
EXTENDS Integers

CONSTANTS
  Lens,   \* the lengths the program asks for
  Piece,  \* 4096
  Room,   \* 4096, the buffer of the driver with a way of its own
  Half    \* 2^16, the values of a half word

ASSUME LogPageAssumption ==
  /\ Lens \subseteq 0 .. Half * Half - 1
  /\ Piece \in Nat /\ Piece > 0 /\ Piece % 4 = 0
  /\ Half \in Nat /\ Piece < Half
  /\ Room \in Nat /\ Room > 0

Word == Half * Half

VARIABLES
  special,  \* driverHasSpecificNvmeGetLogPage
  pc,       \* "loop" before a command, "drive" during it, "done" behind the loop
  dataLen,  \* data_len
  offset,   \* offset; ptr is data + offset all along
  xferLen,  \* xfer_len
  numd,     \* cdw10 and cdw11 of the command under way, its halves put together
  ok,       \* ret
  own       \* the bytes of the buffer that hold their own byte of the log

vars == <<special, pc, dataLen, offset, xferLen, numd, ok, own>>

Init ==
  /\ special \in BOOLEAN
  /\ pc = "loop"
  /\ dataLen \in Lens
  /\ offset = 0
  /\ xferLen = dataLen
  /\ numd = 0
  /\ ok = TRUE
  /\ own = {}

\* numd of doNvmeGetLogPageCmd as the drive puts it together from numdl and
\* numdh.  The subtraction is unsigned: it wraps for less than four bytes.
Dwords(len) ==
  LET n == ((len \div 4) - 1) % Word
  IN Half * ((n \div Half) % Half) + (n % Half)

NextPiece == IF dataLen - offset > Piece THEN Piece ELSE dataLen - offset

\* The driver's own query, with no offset; what it has no room for is left out.
Query ==
  /\ pc = "loop" /\ special
  /\ pc' = "done"
  /\ \/ own' = 0 .. (IF Room > dataLen THEN dataLen ELSE Room) - 1 /\ UNCHANGED ok
     \/ ok' = FALSE /\ UNCHANGED own
  /\ UNCHANGED <<special, dataLen, offset, xferLen, numd>>

Issue ==
  /\ pc = "loop" /\ ~special
  /\ xferLen' = NextPiece
  /\ numd' = Dwords(NextPiece)
  /\ pc' = "drive"
  /\ UNCHANGED <<special, dataLen, offset, ok, own>>

\* The bytes the drive is told to read.
Told == 4 * (numd + 1)

\* As much is transferred as the drive was told to, and the host lets it.
Filled == offset .. (offset + (IF Told < xferLen THEN Told ELSE xferLen) - 1)

\* (Mutant: the last piece is left out.)
AnswerLast ==
  /\ pc = "drive"
  /\ own' = own \cup Filled
  /\ offset' = offset + xferLen
  /\ pc' = IF offset' + Piece < dataLen THEN "loop" ELSE "done"
  /\ UNCHANGED <<special, dataLen, xferLen, numd, ok>>

\* The drive does what it was told.
Answer ==
  /\ pc = "drive"
  /\ own' = own \cup Filled
  /\ offset' = offset + xferLen
  /\ pc' = IF offset' < dataLen THEN "loop" ELSE "done"
  /\ UNCHANGED <<special, dataLen, xferLen, numd, ok>>

\* The command fails and the loop with it.
Fail ==
  /\ pc = "drive"
  /\ ok' = FALSE
  /\ pc' = "done"
  /\ UNCHANGED <<special, dataLen, offset, xferLen, numd, own>>

Stop == pc = "done" /\ UNCHANGED vars

Next == Query \/ Issue \/ Answer \/ Fail \/ Stop

Spec == Init /\ [][Next]_vars

-----------------------------------------------------------------------------
(* Properties *)

\* The numbers are unsigned, as those of the code.
TypeOK ==
  /\ special \in BOOLEAN /\ pc \in {"loop", "drive", "done"}
  /\ dataLen \in Nat /\ offset \in Nat /\ xferLen \in Nat /\ numd \in Nat
  /\ ok \in BOOLEAN
  /\ own \in SUBSET Nat

\* A length that consists of dwords.
WholeDwords == dataLen > 0 /\ dataLen % 4 = 0

\* The drive is told to read as many bytes as the command has room for, in
\* spite of the detour over dwords, less one, in two halves.
ToldItsRoom == WholeDwords /\ pc = "drive" => Told = xferLen

\* A read that succeeds has filled the whole buffer, each byte from its own
\* place in the log, however many pieces it took; but of a page longer than its
\* room, the driver with a way of its own reads the beginning, and says it was
\* all.
ReadsAll ==
  pc = "done" /\ ok =>
    IF special THEN own = 0 .. (IF dataLen <= Room THEN dataLen ELSE Room) - 1
    ELSE WholeDwords => own = 0 .. dataLen - 1
=============================================================================
