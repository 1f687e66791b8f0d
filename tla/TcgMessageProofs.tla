-------------------------- MODULE TcgMessageProofs --------------------------
(***************************************************************************)
(* What the host sends to a TPer, and what it reads in the answer.         *)
(*                                                                         *)
(* The command builder, for every buffer size that is a multiple of a      *)
(* sector and every sequence of calls.  CommandInv is proved in one piece, *)
(* since its parts need each other: the lengths fit the sectors sent       *)
(* because they never pass the position, which stays inside because every  *)
(* write is checked.                                                       *)
(*                                                                         *)
(* The verdict on an answer, for a response buffer of any size: no token   *)
(* that is not there is looked into, and a method status is reported as    *)
(* what it is.                                                             *)
(***************************************************************************)
EXTENDS TcgCommand, TcgResponse, TLAPS

-----------------------------------------------------------------------------
(* The command *)

Bodies == [pos : Nat, lost : Nat, long : Nat]

\* A body that lies in the buffer and has lost something only for want of room,
\* or of a form.
Sane(b) ==
  /\ b \in Bodies
  /\ HeaderSize <= b.pos /\ b.pos <= MaxBuffer
  /\ b.long <= b.lost
  /\ b.lost = b.long \/ b.pos + (b.lost - b.long) > MaxBuffer

Lengths ==
  /\ sub \in Nat /\ pkt \in Nat /\ com \in Nat
  /\ ComHeader + com <= body.pos

CommandInv ==
  /\ Sane(body)
  /\ Lengths
  /\ sealed \in BOOLEAN
  /\ Framed
  /\ sealed => ComHeader + com = body.pos
  /\ dirty \in Nat /\ dirty <= body.pos

USE DEF Sector, ComHeader, PacketHeader, SubHeader, HeaderSize

LEMMA MaxBufferFacts == MaxBuffer \in Nat /\ MaxBuffer % 4 = 0 /\ MaxBuffer >= 512
BY BufferAssumption

\* What the two ways out of a write make of a body.
LEMMA WrittenFields ==
  ASSUME NEW b \in Bodies, NEW n \in Nat
  PROVE  /\ Written(b, n) \in Bodies
         /\ Written(b, n).pos = b.pos + n
         /\ Written(b, n).lost = b.lost
         /\ Written(b, n).long = b.long
BY DEF Bodies, Written

LEMMA RefusedFields ==
  ASSUME NEW b \in Bodies, NEW n \in Nat
  PROVE  /\ Refused(b, n) \in Bodies
         /\ Refused(b, n).pos = b.pos
         /\ Refused(b, n).lost = b.lost + n
         /\ Refused(b, n).long = b.long
BY DEF Bodies, Refused

LEMMA PassedOverFields ==
  ASSUME NEW b \in Bodies, NEW n \in Nat
  PROVE  /\ PassedOver(b, n) \in Bodies
         /\ PassedOver(b, n).pos = b.pos
         /\ PassedOver(b, n).lost = b.lost + (4 + n)
         /\ PassedOver(b, n).long = b.long + (4 + n)
<1> DEFINE k == 4 + n
<1>1. k \in Nat /\ b.pos \in Nat /\ b.lost \in Nat /\ b.long \in Nat
  BY DEF Bodies
<1>2. PassedOver(b, n) = [b EXCEPT !.lost = @ + k, !.long = @ + k]
  BY DEF PassedOver
<1> HIDE DEF k
<1>3. PassedOver(b, n) = [pos |-> b.pos, lost |-> b.lost + k, long |-> b.long + k]
  BY <1>2 DEF Bodies
<1>4. QED
  BY <1>1, <1>3 DEF Bodies, k

LEMMA SaneFields ==
  ASSUME NEW b, Sane(b)
  PROVE  /\ b \in Bodies
         /\ b.pos \in Nat /\ b.lost \in Nat /\ b.long \in Nat
         /\ HeaderSize <= b.pos /\ b.pos <= MaxBuffer
BY DEF Sane, Bodies

\* A write for which there is room keeps a body sane.
LEMMA WrittenSane ==
  ASSUME NEW b, Sane(b), NEW n \in Nat, checkCmdBufWrite(b, n)
  PROVE  Sane(Written(b, n)) /\ b.pos <= Written(b, n).pos
<1>1. /\ b \in Bodies /\ b.pos \in Nat /\ b.lost \in Nat /\ b.long \in Nat
      /\ HeaderSize <= b.pos /\ b.pos + n <= MaxBuffer
      /\ b.long <= b.lost
      /\ b.lost = b.long \/ b.pos + (b.lost - b.long) > MaxBuffer
  BY SaneFields, MaxBufferFacts DEF Sane, checkCmdBufWrite
<1>2. /\ Written(b, n) \in Bodies
      /\ Written(b, n).pos = b.pos + n
      /\ Written(b, n).lost = b.lost
      /\ Written(b, n).long = b.long
  BY <1>1, WrittenFields
<1>3. b.lost = b.long \/ b.pos + n + (b.lost - b.long) > MaxBuffer
  BY <1>1, MaxBufferFacts
<1>4. QED
  BY <1>1, <1>2, <1>3 DEF Sane

\* So does a write for which there is none.
LEMMA RefusedSane ==
  ASSUME NEW b, Sane(b), NEW n \in Nat, ~checkCmdBufWrite(b, n)
  PROVE  Sane(Refused(b, n)) /\ b.pos <= Refused(b, n).pos
<1>1. /\ b \in Bodies /\ b.pos \in Nat /\ b.lost \in Nat /\ b.long \in Nat
      /\ HeaderSize <= b.pos /\ b.pos <= MaxBuffer
      /\ b.long <= b.lost + n
      /\ b.pos + (b.lost + n - b.long) > MaxBuffer
  BY SaneFields, MaxBufferFacts DEF Sane, checkCmdBufWrite
<1>2. /\ Refused(b, n) \in Bodies
      /\ Refused(b, n).pos = b.pos
      /\ Refused(b, n).lost = b.lost + n
      /\ Refused(b, n).long = b.long
  BY <1>1, RefusedFields
<1>3. QED
  BY <1>1, <1>2 DEF Sane

LEMMA PutSane ==
  ASSUME NEW b, Sane(b), NEW n \in Nat
  PROVE  Sane(Put(b, n)) /\ b.pos <= Put(b, n).pos
BY WrittenSane, RefusedSane DEF Put

LEMMA PutStringSane ==
  ASSUME NEW b, Sane(b), NEW n \in Nat
  PROVE  Sane(PutString(b, n)) /\ b.pos <= PutString(b, n).pos
<1>1. CASE n >= 2048
  <2>1. PutString(b, n) = PassedOver(b, n)
    BY <1>1 DEF PutString
  <2>2. b \in Bodies /\ b.pos \in Nat /\ b.lost \in Nat /\ b.long \in Nat
    BY SaneFields
  <2> DEFINE p == PassedOver(b, n)
  <2>3. p \in Bodies /\ p.pos = b.pos /\ p.lost = b.lost + (4 + n) /\ p.long = b.long + (4 + n)
    BY <2>2, PassedOverFields
  <2> HIDE DEF p
  <2>4. p.long <= p.lost /\ p.lost - p.long = b.lost - b.long /\ (p.lost = p.long <=> b.lost = b.long)
    BY <2>2, <2>3 DEF Sane
  <2>5. Sane(p) /\ b.pos <= p.pos
    BY <2>2, <2>3, <2>4 DEF Sane
  <2>6. QED
    BY <2>1, <2>5 DEF p
<1>2. CASE n < 2048
  <2>1. PICK k \in Nat : PutString(b, n) = Put(b, k)
    BY <1>2 DEF PutString
  <2>2. QED
    BY <2>1, PutSane
<1>3. QED
  BY <1>1, <1>2

\* A number that is cut in half did not fit as a whole.
LEMMA PutNumberSane ==
  ASSUME NEW b, Sane(b), NEW n \in NumberSizes
  PROVE  Sane(PutNumber(b, n)) /\ b.pos <= PutNumber(b, n).pos
<1>1. n \in Nat
  BY DEF NumberSizes
<1>2. CASE ~checkCmdBufWrite(b, 1)
  <2>1. PutNumber(b, n) = Refused(b, 1 + n)
    BY <1>2 DEF PutNumber
  <2>2. ~checkCmdBufWrite(b, 1 + n)
    BY <1>1, <1>2, SaneFields, MaxBufferFacts DEF checkCmdBufWrite
  <2>3. QED
    BY <1>1, <2>1, <2>2, RefusedSane
<1>3. CASE checkCmdBufWrite(b, 1)
  <2>1. Sane(Written(b, 1)) /\ b.pos <= Written(b, 1).pos
    BY <1>3, WrittenSane
  <2>2. PutNumber(b, n) = IF checkCmdBufWrite(Written(b, 1), n)
                          THEN Written(Written(b, 1), n)
                          ELSE Refused(Written(b, 1), n)
    BY <1>3 DEF PutNumber
  <2>3. /\ Sane(PutNumber(b, n))
        /\ Written(b, 1).pos <= PutNumber(b, n).pos
    BY <1>1, <2>1, <2>2, WrittenSane, RefusedSane
  <2>4. QED
    BY <2>1, <2>3, SaneFields
<1>4. QED
  BY <1>2, <1>3

\* Since the buffer is a multiple of four bytes, the padding always fits.
LEMMA PaddingFits ==
  ASSUME NEW b, Sane(b)
  PROVE  /\ checkCmdBufWrite(b, Padding(b))
         /\ Padding(b) \in 0 .. 3
         /\ (b.pos + Padding(b)) % 4 = 0
BY SaneFields, MaxBufferFacts DEF checkCmdBufWrite, Padding

-----------------------------------------------------------------------------
LEMMA EmptySane == Sane(Empty)
BY MaxBufferFacts DEF Sane, Bodies, Empty

LEMMA InitCommandInv == CommandInit => CommandInv
<1>1. Empty.pos = HeaderSize
  BY DEF Empty
<1> SUFFICES ASSUME CommandInit PROVE CommandInv
  OBVIOUS
<1>2. body = Empty /\ com = 0 /\ pkt = 0 /\ sub = 0 /\ dirty = HeaderSize
  BY DEF CommandInit
<1>3. sealed \in BOOLEAN /\ ~sealed
  BY DEF CommandInit
<1>4. Framed /\ (sealed => ComHeader + com = body.pos)
  BY <1>3 DEF Framed
<1>5. Lengths
  BY <1>1, <1>2 DEF Lengths
<1>6. dirty \in Nat /\ dirty <= body.pos
  BY <1>1, <1>2
<1>7. Sane(body)
  BY <1>2, EmptySane
<1>8. QED
  BY <1>3, <1>4, <1>5, <1>6, <1>7 DEF CommandInv

\* Adding: the headers stay, the command is not sealed any more.
LEMMA AddStep ==
  ASSUME CommandInv, NEW b, Sane(b), body.pos <= b.pos, Add(b)
  PROVE  CommandInv'
<1>1. body.pos \in Nat /\ b.pos \in Nat
  BY SaneFields DEF CommandInv
<1>2. /\ body' = b
      /\ dirty' = IF b.pos > dirty THEN b.pos ELSE dirty
      /\ sub' = sub /\ pkt' = pkt /\ com' = com
  BY DEF Add, Become, commandHeaders
<1>3. sealed' \in BOOLEAN /\ ~sealed'
  BY DEF Add
<1>4. (Framed /\ (sealed => ComHeader + com = body.pos))'
  BY <1>3 DEF Framed
<1>5. Lengths
  BY DEF CommandInv
<1>6. Lengths'
  BY <1>1, <1>2, <1>5 DEF Lengths
<1>7. dirty \in Nat /\ dirty <= body.pos
  BY DEF CommandInv
<1>8. dirty' \in Nat /\ dirty' <= b.pos
  BY <1>1, <1>2, <1>7
<1>9. QED
  BY <1>2, <1>3, <1>4, <1>6, <1>8 DEF CommandInv

\* The end of complete().
LEMMA SealStep ==
  ASSUME CommandInv, NEW b, Sane(b), body.pos <= b.pos, Seal(b)
  PROVE  CommandInv'
<1> DEFINE k == Padding(b)
           p == Written(b, k)
<1>1. k \in Nat /\ k \in 0 .. 3 /\ (b.pos + k) % 4 = 0 /\ checkCmdBufWrite(b, k)
  BY PaddingFits
<1>1a. k \in Nat /\ k <= 3
  BY <1>1
<1>2. Become(p) /\ sealed' = TRUE
  BY <1>1 DEF Seal
<1>3. /\ sub' = b.pos - HeaderSize
      /\ pkt' = p.pos - ComHeader - PacketHeader
      /\ com' = p.pos - ComHeader
  BY <1>1 DEF Seal
<1> HIDE DEF k
<1>4. Sane(p)
  BY <1>1, WrittenSane
<1>5. b.pos \in Nat /\ HeaderSize <= b.pos /\ b \in Bodies
  BY SaneFields
<1>6. p.pos = b.pos + k
  BY <1>1, <1>5, WrittenFields
<1> HIDE DEF p
<1>7. /\ body' = p
      /\ dirty' = IF p.pos > dirty THEN p.pos ELSE dirty
  BY <1>2 DEF Become
<1>8. /\ body'.pos = b.pos + k
      /\ sub' = b.pos - HeaderSize
      /\ pkt' = b.pos + k - ComHeader - PacketHeader
      /\ com' = b.pos + k - ComHeader
      /\ dirty' = IF b.pos + k > dirty THEN b.pos + k ELSE dirty
  <2> DEFINE q == b.pos + k
  <2>1. p.pos = q /\ body'.pos = q
    BY <1>6, <1>7
  <2> HIDE DEF q
  <2>2. /\ pkt' = q - ComHeader - PacketHeader
        /\ com' = q - ComHeader
        /\ dirty' = IF q > dirty THEN q ELSE dirty
    BY <1>3, <1>7, <2>1
  <2>3. q = b.pos + k /\ q \in Nat
    BY <1>1, <1>5 DEF q
  <2>4. body'.pos = b.pos + k
    BY <2>1, <2>3
  <2>5. pkt' = b.pos + k - ComHeader - PacketHeader
    BY <1>1, <1>5, <2>2, <2>3
  <2>6. com' = b.pos + k - ComHeader
    BY <1>1, <1>5, <2>2, <2>3
  <2>7. dirty' = IF b.pos + k > dirty THEN b.pos + k ELSE dirty
    BY <2>2, <2>3
  <2>8. sub' = b.pos - HeaderSize
    BY <1>3
  <2>9. QED
    BY <2>4, <2>5, <2>6, <2>7, <2>8
<1>9. /\ sub' \in Nat /\ pkt' \in Nat /\ com' \in Nat
      /\ ComHeader + com' = body'.pos
      /\ com' = body'.pos - ComHeader
      /\ com' = PacketHeader + pkt'
      /\ pkt' % 4 = 0
      /\ SubHeader + sub' <= pkt' /\ pkt' <= SubHeader + sub' + 3
  <2>1. pkt' = b.pos + k - 44 /\ com' = b.pos + k - 20 /\ sub' = b.pos - 56
    BY <1>1, <1>5, <1>8
  <2>2. (b.pos + k - 44) % 4 = 0
    BY <1>1, <1>5
  <2>3. pkt' % 4 = 0
    BY <2>1, <2>2
  <2>4. sub' \in Nat /\ pkt' \in Nat /\ com' \in Nat
    BY <1>1a, <1>5, <2>1
  <2>5. ComHeader + com' = body'.pos /\ com' = body'.pos - ComHeader
    BY <1>1a, <1>5, <1>8, <2>1
  <2>6. /\ com' = PacketHeader + pkt'
        /\ SubHeader + sub' <= pkt' /\ pkt' <= SubHeader + sub' + 3
    BY <1>1a, <1>5, <2>1
  <2>7. QED
    BY <2>3, <2>4, <2>5, <2>6
<1>10. Framed' /\ sealed' \in BOOLEAN
  BY <1>2, <1>9 DEF Framed
<1>11. dirty' \in Nat /\ dirty' <= body'.pos
  <2>1. dirty \in Nat /\ dirty <= body.pos /\ body.pos \in Nat
    BY SaneFields DEF CommandInv
  <2>2. QED
    BY <1>1, <1>5, <1>8, <2>1
<1>12. Lengths'
  <2>1. body'.pos \in Nat
    BY <1>1, <1>5, <1>8
  <2>2. QED
    BY <1>9, <2>1 DEF Lengths
<1>13. QED
  BY <1>4, <1>7, <1>9, <1>10, <1>11, <1>12 DEF CommandInv

\* Both resets.
LEMMA CleanStep ==
  ASSUME NEW b, Sane(b), body' = b, Clean
  PROVE  CommandInv'
<1>1. b.pos \in Nat /\ HeaderSize <= b.pos
  BY SaneFields
<1>2. /\ sub' = 0 /\ pkt' = 0 /\ com' = 0
      /\ dirty' = b.pos
  BY DEF Clean
<1>3. sealed' \in BOOLEAN /\ ~sealed'
  BY DEF Clean
<1>4. (Framed /\ (sealed => ComHeader + com = body.pos))'
  BY <1>3 DEF Framed
<1>5. Lengths' /\ dirty' \in Nat /\ dirty' <= body'.pos
  BY <1>1, <1>2 DEF Lengths
<1>6. QED
  BY <1>3, <1>4, <1>5 DEF CommandInv

LEMMA NextCommandInv == CommandInv /\ [CommandNext]_commandVars => CommandInv'
<1> SUFFICES ASSUME CommandInv, [CommandNext]_commandVars PROVE CommandInv'
  OBVIOUS
<1>0. Sane(body)
  BY DEF CommandInv
<1>1. CASE AddRaw
  <2>1. PICK n \in RawSizes : Add(Put(body, n))
    BY <1>1 DEF AddRaw
  <2>2. QED
    BY <1>0, <2>1, PutSane, AddStep, BufferAssumption
<1>2. CASE AddString
  <2>1. PICK n \in TextSizes : Add(PutString(body, n))
    BY <1>2 DEF AddString
  <2>2. QED
    BY <1>0, <2>1, PutStringSane, AddStep, BufferAssumption
<1>3. CASE AddNumber
  <2>1. PICK n \in NumberSizes : Add(PutNumber(body, n))
    BY <1>3 DEF AddNumber
  <2>2. QED
    BY <1>0, <2>1, PutNumberSane, AddStep
<1>4. CASE Reset
  BY <1>4, EmptySane, CleanStep DEF Reset
<1>5. CASE ResetCall
  <2>1. Sane(Written(Empty, 1))
    BY EmptySane, WrittenSane, MaxBufferFacts DEF Empty, checkCmdBufWrite
  <2>2. PICK object \in {PutString(Written(Empty, 1), 8)}
                          \cup {Put(Written(Empty, 1), n) : n \in RawSizes} :
          body' = PutString(object, 8)
    BY <1>5 DEF ResetCall
  <2>3. Sane(object)
    BY <2>1, <2>2, PutStringSane, PutSane, BufferAssumption
  <2>4. QED
    BY <1>5, <2>2, <2>3, PutStringSane, CleanStep DEF ResetCall
<1>6. CASE CompleteWithStatus
  <2>1. CASE checkCmdBufWrite(body, StatusList)
    <3>1. Written(body, StatusList) = Put(body, StatusList)
      BY <2>1 DEF Put
    <3>2. Seal(Written(body, StatusList))
      BY <1>6, <2>1 DEF CompleteWithStatus
    <3>3. QED
      BY <1>0, <3>1, <3>2, PutSane, SealStep DEF StatusList
  <2>2. CASE ~checkCmdBufWrite(body, StatusList)
    <3>1. Refused(body, StatusList) = Put(body, StatusList)
      BY <2>2 DEF Put
    <3>2. /\ body' = Put(body, StatusList)
          /\ Put(body, StatusList).pos = body.pos
          /\ dirty' = IF body'.pos > dirty THEN body'.pos ELSE dirty
          /\ UNCHANGED <<sealed, commandHeaders>>
      BY <1>0, <1>6, <2>2, <3>1 DEF CompleteWithStatus, Become, Refused, Sane, Bodies
    <3>3. Sane(body')
      BY <1>0, <3>2, PutSane DEF StatusList
    <3>4. QED
      BY <3>2, <3>3 DEF CommandInv, Lengths, Framed, commandHeaders, Sane, Bodies
  <2>3. QED
    BY <2>1, <2>2
<1>7. CASE CompleteBare
  BY <1>0, <1>7, SealStep DEF CompleteBare, Sane, Bodies
<1>8. CASE UNCHANGED commandVars
  BY <1>8 DEF commandVars, CommandInv, Lengths, Framed
<1>9. QED
  BY <1>1, <1>2, <1>3, <1>4, <1>5, <1>6, <1>7, <1>8 DEF CommandNext

LEMMA CommandInductive == CommandSpec => []CommandInv
BY InitCommandInv, NextCommandInv, PTL DEF CommandSpec

-----------------------------------------------------------------------------
\* The variables keep their types.
THEOREM CommandTypes == CommandSpec => []CommandTypeOK
<1>1. CommandInv => CommandTypeOK
  BY DEF CommandInv, CommandTypeOK, Sane, Bodies, Lengths
<1>2. QED
  BY <1>1, CommandInductive, PTL

\* The assertion of complete() holds after every sequence of calls, and
\* checkCmdBufWrite never subtracts below zero.
THEOREM StaysInside == CommandSpec => []PosInside
<1>1. CommandInv => PosInside
  BY DEF CommandInv, PosInside, Sane
<1>2. QED
  BY <1>1, CommandInductive, PTL

\* The lengths of a completed command are nested and cover it.
THEOREM WellFramed == CommandSpec => []Framed
<1>1. CommandInv => Framed
  BY DEF CommandInv
<1>2. QED
  BY <1>1, CommandInductive, PTL

\* What exec sends lies in the buffer and holds the whole packet.
THEOREM SentInside == CommandSpec => []SendFits
<1>1. CommandInv => SendFits
  BY BufferAssumption DEF CommandInv, SendFits, getCmdSize, Sane, Bodies, Lengths
<1>2. QED
  BY <1>1, CommandInductive, PTL

\* Nothing of an earlier command lies behind the position.
THEOREM TailIsClean == CommandSpec => []CleanTail
<1>1. CommandInv => CleanTail
  BY DEF CommandInv, CleanTail
<1>2. QED
  BY <1>1, CommandInductive, PTL

\* Only a command too large for the buffer loses tokens other than strings of
\* 2048 bytes and more, which addStringToken never writes.
THEOREM LosesNothing == CommandSpec => []NothingLost
<1>1. CommandInv => NothingLost
  BY DEF CommandInv, NothingLost, Sane
<1>2. QED
  BY <1>1, CommandInductive, PTL

-----------------------------------------------------------------------------
(* The answer *)

\* A token takes at least a byte, is read as a byte, and as itself if it takes
\* no more than one.
LEMMA TokenFields ==
  \A t \in Token :
    /\ t.size \in Nat \ {0}
    /\ getUint8(t) \in 0 .. 255
    /\ t.type = "UINT" /\ t.size = 1 => getUint8(t) = t.val
PROOF
  <1>1. \A v \in 0 .. 255 : v % 256 = v
    OBVIOUS
  <1>2. 256 % 256 = 0
    OBVIOUS
  <1>3. \A t \in Token :
           /\ t.size \in Nat \ {0}
           /\ t.val \in {0, 1, 256}
           /\ t.type = "UINT" /\ t.size = 1 => t.val \in {0, 1}
    BY DEF Token, Number, Control, Long
  <1>4. QED
    BY <1>1, <1>2, <1>3 DEF getUint8

\* getToken(getTokenCount() - k) finds a token exactly if there are k: with
\* fewer, the subtraction wraps to an index behind the last one.
LEMMA Wraps ==
  ASSUME count \in Nat, count < Word, NEW k \in 1 .. 5
  PROVE  Exists(k) <=> count >= k
PROOF
  <1> USE ResponseAssumption
  <1>1. CASE count >= k
    <2>1. count - k \in Nat /\ count - k < Word
      BY <1>1
    <2>2. (count - k) % Word = count - k
      BY <2>1
    <2>3. QED
      BY <1>1, <2>2 DEF Exists
  <1>2. CASE count < k
    <2>1. (count - k) % Word = count - k + Word
      BY <1>2
    <2>2. QED
      BY <1>2, <2>1 DEF Exists
  <1>3. QED
    BY <1>1, <1>2
-----------------------------------------------------------------------------
(* The invariant: what the runs check, and that only a sub-packet that fits  *)
(* is cut.                                                                   *)

OnlyFitting ==
  /\ pc = "commit" => count = 0 /\ cur = 0
  /\ pc \in {"cut", "verdict"} => length <= Room
  /\ length > Room => count = 0

ResponseInv == ResponseTypeOK /\ StartsInside /\ NoStrayToken /\ StatusTold /\ OnlyFitting

LEMMA InitResponseInv == ResponseInit => ResponseInv
PROOF
  <1> SUFFICES ASSUME ResponseInit PROVE ResponseInv
    OBVIOUS
  <1> USE ResponseAssumption
  <1>1. ResponseTypeOK
    <2>1. tail \in Seq(Token) /\ Len(tail) = 0 /\ count = 0
      BY DEF ResponseInit
    <2>2. Len(tail) = IF count < 5 THEN count ELSE 5
      BY <2>1
    <2>3. cur \in Nat /\ count \in Nat /\ status \in 0 .. 255 /\ length \in 0 .. Room + 1
      BY DEF ResponseInit
    <2>4. blank \in BOOLEAN /\ ended \in BOOLEAN /\ null \in BOOLEAN
      BY DEF ResponseInit
    <2>5. QED
      BY <2>1, <2>2, <2>3, <2>4 DEF ResponseInit, ResponseTypeOK
  <1>2. StartsInside /\ NoStrayToken /\ StatusTold /\ OnlyFitting
    BY DEF ResponseInit, StartsInside, NoStrayToken, StatusTold, OnlyFitting
  <1>3. QED
    BY <1>1, <1>2 DEF ResponseInv

\* The last tokens stay five at most, one for each token there is.
LEMMA KeepKeeps ==
  ASSUME ResponseTypeOK, NEW t \in Token, Keep(t)
  PROVE  /\ count' \in Nat /\ ended' \in BOOLEAN
         /\ tail' \in Seq(Token)
         /\ Len(tail') = IF count' < 5 THEN count' ELSE 5
PROOF
  <1>1. count' \in Nat
    BY DEF Keep, ResponseTypeOK
  <1>2. ended' \in BOOLEAN
    BY DEF Keep, ResponseTypeOK
  <1>3. tail \in Seq(Token) /\ Len(tail) = (IF count < 5 THEN count ELSE 5) /\ count \in Nat
    BY DEF ResponseTypeOK
  <1>4. /\ count' = count + 1
        /\ tail' = Append(IF Len(tail) < 5 THEN tail ELSE Tail(tail), t)
    BY DEF Keep
  <1>5. CASE count < 5
    <2>1. Len(tail) = count /\ tail' = Append(tail, t)
      BY <1>3, <1>4, <1>5
    <2>2. tail' \in Seq(Token) /\ Len(tail') = count + 1
      BY <1>3, <2>1
    <2>3. Len(tail') = IF count' < 5 THEN count' ELSE 5
      BY <1>3, <1>4, <1>5, <2>2
    <2>4. QED
      BY <1>1, <1>2, <2>2, <2>3
  <1>6. CASE count >= 5
    <2>1. Len(tail) = 5 /\ tail' = Append(Tail(tail), t)
      BY <1>3, <1>4, <1>6
    <2>2. Tail(tail) \in Seq(Token) /\ Len(Tail(tail)) = 4
      BY <1>3, <2>1
    <2>3. tail' \in Seq(Token) /\ Len(tail') = 5
      BY <2>1, <2>2
    <2>4. ~(count' < 5)
      BY <1>3, <1>4, <1>6
    <2>5. QED
      BY <1>1, <1>2, <2>3, <2>4
  <1>7. QED
    BY <1>3, <1>5, <1>6

LEMMA NextResponseInv == ResponseInv /\ [ResponseNext]_responseVars => ResponseInv'
PROOF
  <1> SUFFICES ASSUME ResponseInv, [ResponseNext]_responseVars PROVE ResponseInv'
    OBVIOUS
  <1> USE ResponseAssumption
  <1>0. ResponseTypeOK /\ StartsInside /\ NoStrayToken /\ OnlyFitting /\ StatusTold
    BY DEF ResponseInv
  <1>c. count < Word /\ count \in Nat
    BY <1>0 DEF ResponseTypeOK, StartsInside, OnlyFitting
  <1>1. CASE Overlong
    <2>1. ResponseTypeOK'
      BY <1>0, <1>1 DEF ResponseTypeOK, Overlong, responseHeaders
    <2>2. StartsInside' /\ NoStrayToken' /\ OnlyFitting'
      BY <1>0, <1>1 DEF ResponseTypeOK, StartsInside, NoStrayToken, OnlyFitting, Overlong, responseHeaders
    <2>3. StatusTold'
      BY <1>0, <1>1 DEF StatusTold, Payload, OnlyFitting, Overlong, responseHeaders
    <2>4. QED
      BY <2>1, <2>2, <2>3 DEF ResponseInv
  <1>2. CASE Begin
    <2>1. ResponseTypeOK'
      BY <1>0, <1>2 DEF ResponseTypeOK, Begin, responseHeaders
    <2>2. StartsInside' /\ NoStrayToken' /\ OnlyFitting' /\ StatusTold'
      BY <1>0, <1>2 DEF ResponseTypeOK, StartsInside, NoStrayToken, OnlyFitting, StatusTold, Begin, responseHeaders
    <2>3. QED
      BY <2>1, <2>2 DEF ResponseInv
  <1>3. CASE Cut
    <2>0. pc = "cut" /\ cur < length /\ UNCHANGED <<pc, responseHeaders, code, status, null>>
      BY <1>3 DEF Cut
    <2>1. CASE cur' = cur + 1 /\ UNCHANGED <<count, ended, tail>>
      <3>1. ResponseTypeOK'
        BY <1>0, <2>0, <2>1 DEF ResponseTypeOK, responseHeaders
      <3>2. StartsInside' /\ NoStrayToken' /\ OnlyFitting' /\ StatusTold'
        BY <1>0, <2>0, <2>1 DEF ResponseTypeOK, StartsInside, NoStrayToken, OnlyFitting, StatusTold, responseHeaders
      <3>3. QED
        BY <3>1, <3>2 DEF ResponseInv
    <2>2. ASSUME NEW t \in Token, cur' = cur + t.size, Keep(t)
          PROVE  ResponseInv'
      <3>1. t.size \in Nat \ {0}
        BY TokenFields
      <3>2. cur' \in Nat /\ cur' >= cur + 1
        BY <1>0, <2>2, <3>1 DEF ResponseTypeOK
      <3>3. count' = count + 1
        BY <2>2 DEF Keep
      <3>4. ResponseTypeOK'
        BY <1>0, <2>0, <2>2, <3>2, KeepKeeps DEF ResponseTypeOK, responseHeaders
      <3>5. StartsInside' /\ OnlyFitting'
        BY <1>0, <2>0, <3>2, <3>3 DEF ResponseTypeOK, StartsInside, OnlyFitting, responseHeaders
      <3>6. NoStrayToken' /\ StatusTold'
        BY <1>0, <2>0 DEF NoStrayToken, StatusTold
      <3>7. QED
        BY <3>4, <3>5, <3>6 DEF ResponseInv
    <2>3. QED
      BY <1>3, <2>1, <2>2 DEF Cut
  <1>4. CASE Commit
    <2>1. ResponseTypeOK'
      BY <1>0, <1>4 DEF ResponseTypeOK, Commit, responseHeaders
    <2>2. StartsInside' /\ NoStrayToken' /\ OnlyFitting' /\ StatusTold'
      BY <1>0, <1>4 DEF ResponseTypeOK, StartsInside, NoStrayToken, OnlyFitting, StatusTold, Commit, responseHeaders
    <2>3. QED
      BY <2>1, <2>2 DEF ResponseInv
  \* Returning changes nothing that the tokens' invariants speak of.
  <1>r. ASSUME NEW c \in {"none", "OK", "ILLEGAL_DATA", "ILLEGAL_RESPONSE", "TCG_ERROR_STATUS"},
               NEW s \in 0 .. 255, Return(c, s), UNCHANGED null
        PROVE  ResponseTypeOK' /\ StartsInside' /\ NoStrayToken' /\ OnlyFitting'
    <2>1. ResponseTypeOK'
      BY <1>0, <1>r DEF ResponseTypeOK, Return, responseHeaders
    <2>2. QED
      BY <1>0, <1>r, <2>1 DEF StartsInside, NoStrayToken, OnlyFitting, Return, responseHeaders
  <1>e. \A k \in 1 .. 5 : Exists(k) <=> count >= k
    BY <1>c, Wraps
  <1>5. CASE Unlisted
    <2>1. ResponseTypeOK' /\ StartsInside' /\ NoStrayToken' /\ OnlyFitting'
      BY <1>5, <1>r DEF Unlisted
    <2>2. UNCHANGED <<tail, ended, count, responseHeaders>>
      BY <1>5 DEF Unlisted, Return
    <2>3. StatusTold'
      <3>1. CASE ~Payload
        BY <2>2, <3>1 DEF StatusTold, Payload, responseHeaders
      <3>2. CASE ~Listed
        <4>a. Len(tail) = IF count < 5 THEN count ELSE 5
          BY <1>0 DEF ResponseTypeOK
        <4>0. Len(tail) = 5 => count >= 5
          BY <1>c, <4>a
        <4>1. Len(tail) = 5 => Exists(1) /\ Exists(5)
          BY <1>c, <1>e, <4>0
        <4>2. ~(Len(tail) = 5 /\ FromEnd(1).type = "ENDLIST")
          BY <3>2, <4>1 DEF Listed
        <4>3. QED
          BY <2>2, <4>2 DEF StatusTold, FromEnd
      <3>3. QED
        BY <1>5, <3>1, <3>2 DEF Unlisted
    <2>4. QED
      BY <2>1, <2>3 DEF ResponseInv
  <1>6. CASE EndOfSession
    <2>1. ResponseTypeOK' /\ StartsInside' /\ NoStrayToken' /\ OnlyFitting'
      BY <1>6, <1>r DEF EndOfSession
    <2>2. StatusTold'
      BY <1>6 DEF StatusTold, EndOfSession, Return
    <2>3. QED
      BY <2>1, <2>2 DEF ResponseInv
  <1>7. CASE Judge
    <2>1. count >= 5
      BY <1>7, <1>e DEF Judge, Listed
    <2>2. Exists(4)
      BY <1>c, <1>e, <2>1
    <2>3. Len(tail) = 5 /\ tail \in Seq(Token)
      BY <1>0, <1>c, <2>1 DEF ResponseTypeOK
    <2> DEFINE t == FromEnd(4)
    <2>4. t \in Token
      BY <2>3 DEF FromEnd
    <2>5. /\ UNCHANGED null
          /\ IF t.type # "UINT" THEN Return("ILLEGAL_DATA", 0)
             ELSE Return(IF getUint8(t) = 0 THEN "OK" ELSE "TCG_ERROR_STATUS", getUint8(t))
      BY <1>7, <2>2 DEF Judge
    <2> HIDE DEF t
    <2>6. getUint8(t) \in 0 .. 255
      BY <2>4, TokenFields
    <2>7. ResponseTypeOK' /\ StartsInside' /\ NoStrayToken' /\ OnlyFitting'
      <3>1. CASE t.type # "UINT"
        BY <1>r, <2>5, <3>1
      <3>2. CASE t.type = "UINT"
        BY <1>r, <2>5, <2>6, <3>2
      <3>3. QED
        BY <3>1, <3>2
    <2>8. StatusTold'
      <3>1. UNCHANGED tail
        BY <2>5 DEF Return
      <3>2. FromEnd(4)' = t
        BY <3>1 DEF FromEnd, t
      <3>3. t.type = "UINT" /\ t.size = 1 =>
              /\ code' = IF t.val = 0 THEN "OK" ELSE "TCG_ERROR_STATUS"
              /\ status' = t.val
        BY <2>4, <2>5, TokenFields DEF Return
      <3>4. QED
        BY <3>2, <3>3 DEF StatusTold
    <2>9. QED
      BY <2>7, <2>8 DEF ResponseInv
  <1>8. CASE UNCHANGED responseVars
    <2>1. ResponseTypeOK'
      BY <1>0, <1>8 DEF ResponseTypeOK, responseVars, responseHeaders
    <2>2. StartsInside' /\ NoStrayToken' /\ OnlyFitting'
      BY <1>0, <1>8 DEF StartsInside, NoStrayToken, OnlyFitting, responseVars, responseHeaders
    <2>3. StatusTold'
      BY <1>0, <1>8 DEF StatusTold, Payload, FromEnd, responseVars, responseHeaders
    <2>4. QED
      BY <2>1, <2>2, <2>3 DEF ResponseInv
  <1>9. QED
    BY <1>1, <1>2, <1>3, <1>4, <1>5, <1>6, <1>7, <1>8 DEF ResponseNext

LEMMA ResponseInductive == ResponseSpec => []ResponseInv
PROOF
  BY InitResponseInv, NextResponseInv, PTL DEF ResponseSpec

\* The variables of the response parser keep their types: the status that is
\* reported is a byte.
THEOREM ResponseTypes == ResponseSpec => []ResponseTypeOK
PROOF
  <1>1. ResponseInv => ResponseTypeOK
    BY DEF ResponseInv
  <1>2. QED
    BY <1>1, ResponseInductive, PTL

\* Every token commit() cuts starts inside the response buffer.
THEOREM CutsInside == ResponseSpec => []StartsInside
PROOF
  <1>1. ResponseInv => StartsInside
    BY DEF ResponseInv
  <1>2. QED
    BY <1>1, ResponseInductive, PTL

\* The status token that sendCommand dereferences untested is there.
THEOREM StatusTokenIsThere == ResponseSpec => []NoStrayToken
PROOF
  <1>1. ResponseInv => NoStrayToken
    BY DEF ResponseInv
  <1>2. QED
    BY <1>1, ResponseInductive, PTL

\* A method status is reported by sendCommand as what it is.
THEOREM StatusIsTold == ResponseSpec => []StatusTold
PROOF
  <1>1. ResponseInv => StatusTold
    BY DEF ResponseInv
  <1>2. QED
    BY <1>1, ResponseInductive, PTL
=============================================================================
