--------------------------- MODULE QueriesProofs ----------------------------
(***************************************************************************)
(* Proofs about what a drive is asked: log pages are read whole, sanitize  *)
(* commands say what was asked for, and the answers - the state of         *)
(* sanitizing and its estimates, capacities, addresses in a taskfile, the  *)
(* identity of a drive, its discovery, its SMART attributes, its volumes - *)
(* are what the drive said.                                                *)
(*                                                                         *)
(* The invariant says of each step of a call what the taskfile holds then, *)
(* or what the answer is made of; the properties follow from it by         *)
(* arithmetic on registers, which the first lemmas do for every value, by  *)
(* what trimming does to a padded string of any contents, and, where the   *)
(* code walks over data, by induction over what it has read.               *)
(***************************************************************************)
EXTENDS Queries, SequenceTheorems, WellFoundedInduction, TLAPS

-----------------------------------------------------------------------------
(* The log page *)


\* Where the loop is: what it has read ends at the offset, which is a multiple
\* of four as long as the length is, so that no piece but the whole rest is ever
\* shorter than its dwords.
LogInv ==
  /\ TypeOK
  /\ dataLen < Word
  /\ offset <= dataLen
  /\ WholeDwords => offset % 4 = 0
  /\ pc = "loop" => (offset < dataLen \/ dataLen = 0)
  /\ pc = "drive" => /\ ~special /\ xferLen = NextPiece
                     /\ WholeDwords => offset < dataLen /\ Told = xferLen
  /\ WholeDwords /\ ok /\ ~special => own = 0 .. offset - 1
  /\ WholeDwords /\ ok /\ ~special /\ pc = "done" => offset = dataLen
  /\ special /\ ok /\ pc = "done" => own = 0 .. (IF dataLen <= Room THEN dataLen ELSE Room) - 1

\* A quotient and a remainder that are not needed.
LEMMA SmallMod ==
  ASSUME NEW n \in Nat, NEW m \in Nat, n < m
  PROVE  n % m = n /\ n \div m = 0
<1>1. n % m = n
  OBVIOUS
<1>2. n \div m = 0
  OBVIOUS
<1>3. QED
  BY <1>1, <1>2

LEMMA WordFacts == Word \in Nat /\ Half \in Nat /\ Piece \in Nat /\ Half <= Word
<1>1. Half \in Nat /\ Half > 0 /\ Piece \in Nat
  BY LogPageAssumption
<1>2. Half <= Half * Half
  BY <1>1
<1>3. QED
  BY <1>1, <1>2 DEF Word

LEMMA DwordsType == ASSUME NEW len \in Nat PROVE Dwords(len) \in Nat
<1> DEFINE n == ((len \div 4) - 1) % Word
<1>1. Word \in Nat /\ Word > 0 /\ Half \in Nat /\ Half > 0
  BY WordFacts, LogPageAssumption
<1>2. n \in Nat
  BY <1>1
<1> HIDE DEF n
<1>3. n % Half \in Nat /\ (n \div Half) % Half \in Nat
  BY <1>1, <1>2
<1>4. Half * ((n \div Half) % Half) \in Nat
  <2> DEFINE h == (n \div Half) % Half
  <2>1. h \in Nat
    BY <1>3
  <2> HIDE DEF h
  <2>2. Half * h \in Nat
    BY <1>1, <2>1
  <2>3. QED
    BY <2>2 DEF h
<1>5. QED
  BY <1>3, <1>4 DEF Dwords, n

\* For a piece of whole dwords nothing is lost on the way to the drive.
LEMMA DwordsRight ==
  ASSUME NEW len \in Nat, len > 0, len <= Piece, len % 4 = 0
  PROVE  4 * (Dwords(len) + 1) = len
<1> DEFINE k == (len \div 4) - 1
<1>1. k \in Nat /\ 4 * (k + 1) = len
  OBVIOUS
<1>2. k < Half /\ k < Word
  BY <1>1, WordFacts, LogPageAssumption
<1> HIDE DEF k
<1>3. k % Word = k /\ k \div Half = 0 /\ k % Half = k
  BY <1>1, <1>2, WordFacts, SmallMod
<1>4. 0 % Half = 0
  BY WordFacts, LogPageAssumption
<1>5. Dwords(len) = Half * ((k \div Half) % Half) + (k % Half)
  BY <1>3 DEF Dwords, k
<1>6. Dwords(len) = Half * 0 + k
  BY <1>3, <1>4, <1>5
<1>7. Half * 0 + k = k
  BY <1>1, WordFacts
<1>8. QED
  BY <1>1, <1>6, <1>7

LEMMA LogInit == Init => LogInv
<1> SUFFICES ASSUME Init PROVE LogInv
  OBVIOUS
<1>1. dataLen \in Nat /\ dataLen < Word
  BY LogPageAssumption DEF Init, Word
<1>2. pc = "loop" /\ offset = 0 /\ xferLen = dataLen /\ numd = 0 /\ own = {}
  BY DEF Init
<1>3. ok \in BOOLEAN /\ special \in BOOLEAN
  BY DEF Init
<1>4. TypeOK
  BY <1>1, <1>2, <1>3 DEF TypeOK
<1>5. own = 0 .. offset - 1
  BY <1>2
<1>6. QED
  BY <1>1, <1>2, <1>4, <1>5 DEF LogInv

LEMMA QueryKeeps == ASSUME LogInv, Query PROVE LogInv'
<1>1. /\ special /\ pc' = "done"
      /\ UNCHANGED <<special, dataLen, offset, xferLen, numd>>
      /\ dataLen \in Nat /\ offset <= dataLen /\ Room \in Nat
  BY LogPageAssumption DEF Query, LogInv, TypeOK
<1>2. CASE own' = 0 .. (IF Room > dataLen THEN dataLen ELSE Room) - 1 /\ UNCHANGED ok
  <2>1. own' = 0 .. (IF dataLen <= Room THEN dataLen ELSE Room) - 1
    BY <1>1, <1>2
  <2>2. own' \in SUBSET Nat
    BY <1>2
  <2>3. TypeOK' /\ (WholeDwords' <=> WholeDwords)
    BY <1>1, <1>2, <2>2 DEF LogInv, TypeOK, WholeDwords
  <2>4. QED
    BY <1>1, <2>1, <2>3 DEF LogInv
<1>3. CASE ok' = FALSE /\ UNCHANGED own
  <2>1. TypeOK' /\ (WholeDwords' <=> WholeDwords)
    BY <1>1, <1>3 DEF LogInv, TypeOK, WholeDwords
  <2>2. QED
    BY <1>1, <1>3, <2>1 DEF LogInv
<1>4. QED
  BY <1>2, <1>3 DEF Query

LEMMA IssueKeeps == ASSUME LogInv, Issue PROVE LogInv'
<1>1. /\ dataLen \in Nat /\ offset \in Nat /\ offset <= dataLen
      /\ offset < dataLen \/ dataLen = 0
  BY DEF LogInv, TypeOK, Issue
<1>2. NextPiece \in Nat /\ NextPiece <= Piece /\ NextPiece <= dataLen - offset
  BY <1>1, WordFacts DEF NextPiece
<1>3. /\ pc' = "drive" /\ xferLen' = NextPiece /\ numd' = Dwords(NextPiece)
      /\ dataLen' = dataLen /\ offset' = offset /\ own' = own
      /\ ok' = ok /\ special' = special /\ ~special
  BY DEF Issue
<1>4. TypeOK'
  BY <1>2, <1>3, DwordsType DEF LogInv, TypeOK
<1>5. ASSUME WholeDwords PROVE offset < dataLen /\ Told' = NextPiece
  <2>1. offset < dataLen /\ offset % 4 = 0 /\ dataLen % 4 = 0
    BY <1>1, <1>5 DEF LogInv, WholeDwords
  <2>2. NextPiece > 0 /\ NextPiece % 4 = 0
    <3>1. (dataLen - offset) % 4 = 0
      BY <1>1, <2>1
    <3>2. QED
      BY <1>1, <2>1, <3>1, LogPageAssumption DEF NextPiece
  <2>3. QED
    BY <1>2, <1>3, <2>1, <2>2, DwordsRight DEF Told
<1>6. NextPiece' = NextPiece /\ WholeDwords' = WholeDwords
  BY <1>3 DEF NextPiece, WholeDwords
<1>7. QED
  BY <1>3, <1>4, <1>5, <1>6 DEF LogInv

LEMMA AnswerKeeps == ASSUME LogInv, Answer PROVE LogInv'
<1>1. /\ dataLen \in Nat /\ offset \in Nat /\ offset <= dataLen
      /\ xferLen = NextPiece /\ numd \in Nat
  BY DEF LogInv, TypeOK, Answer
<1>2. xferLen \in Nat /\ offset + xferLen <= dataLen
  BY <1>1, WordFacts DEF NextPiece
<1>3. /\ offset' = offset + xferLen
      /\ pc' = IF offset' < dataLen THEN "loop" ELSE "done"
      /\ dataLen' = dataLen /\ xferLen' = xferLen /\ numd' = numd /\ ok' = ok
      /\ special' = special /\ ~special
      /\ own' = own \cup Filled
  BY DEF Answer, LogInv
<1>4. Filled \subseteq Nat
  BY <1>1, <1>2 DEF Filled, Told
<1>5. TypeOK'
  BY <1>2, <1>3, <1>4 DEF LogInv, TypeOK
<1>6. offset' <= dataLen' /\ (pc' = "loop" => offset' < dataLen')
  BY <1>1, <1>2, <1>3
<1>7. WholeDwords' <=> WholeDwords
  BY <1>3 DEF WholeDwords
<1>8. ASSUME WholeDwords
      PROVE  offset' % 4 = 0 /\ Filled = offset .. offset' - 1
  <2>1. Told = xferLen /\ offset % 4 = 0 /\ dataLen % 4 = 0
    BY <1>8 DEF LogInv, WholeDwords, Answer
  <2>2. xferLen % 4 = 0
    BY <1>1, <2>1 DEF Told
  <2>3. QED
    BY <1>1, <1>2, <1>3, <2>1, <2>2 DEF Filled
<1>9. ASSUME WholeDwords, ok PROVE own' = 0 .. offset' - 1
  <2>1. own = 0 .. offset - 1 /\ Filled = offset .. offset' - 1
    BY <1>3, <1>8, <1>9 DEF LogInv
  <2>2. QED
    BY <1>1, <1>2, <1>3, <2>1
<1>10. pc' = "done" => offset' = dataLen
  BY <1>1, <1>2, <1>3
<1>11. pc' # "drive"
  BY <1>3
<1>12. QED
  BY <1>3, <1>5, <1>6, <1>7, <1>8, <1>9, <1>10, <1>11 DEF LogInv

LEMMA FailKeeps == ASSUME LogInv, Fail PROVE LogInv'
<1>1. /\ pc' = "done" /\ dataLen' = dataLen /\ offset' = offset
      /\ xferLen' = xferLen /\ numd' = numd /\ own' = own
      /\ special' = special
  BY DEF Fail
<1>2. ok' \in BOOLEAN /\ ~ok'
  BY DEF Fail
<1>3. TypeOK' /\ (WholeDwords' <=> WholeDwords)
  BY <1>1, <1>2 DEF LogInv, TypeOK, WholeDwords
<1>4. QED
  BY <1>1, <1>2, <1>3 DEF LogInv

LEMMA LogNext == LogInv /\ [Next]_vars => LogInv'
<1> SUFFICES ASSUME LogInv, [Next]_vars PROVE LogInv'
  OBVIOUS
<1>1. CASE UNCHANGED vars
  BY <1>1 DEF vars, LogInv, TypeOK, WholeDwords, NextPiece, Told
<1>2. QED
  BY <1>1, QueryKeeps, IssueKeeps, AnswerKeeps, FailKeeps DEF Next, Stop

\* A read that succeeds is a whole one, for every length and every size of a
\* piece that a half word can count the dwords of; one by a driver with a way of
\* its own is whole up to the driver's room, for every size of that.
THEOREM ReadIsWhole == Spec => []ReadsAll
<1>1. LogInv => ReadsAll
  BY DEF LogInv, ReadsAll
<1>2. QED
  BY <1>1, LogInit, LogNext, PTL DEF Spec

\* The dwords agree with the bytes in every command of such a read.
THEOREM TellsItsRoom == Spec => []ToldItsRoom
<1>1. LogInv => ToldItsRoom
  BY DEF LogInv, ToldItsRoom
<1>2. QED
  BY <1>1, LogInit, LogNext, PTL DEF Spec

-----------------------------------------------------------------------------
(* What is known of a call *)

\* The call stays what it was, and so does the drive.
CallKnown ==
  /\ call.method \in Methods
  /\ call.driving \in {"ata", "nvme", "unknown"}
  /\ call.p \in Parameters(call.method, call.driving)
  /\ truth \in Truths(call.method, call.driving)
  /\ call.method = "native" => (call.p.ext \/ truth.hi < 16)

\* The library's own pages have one length.
LengthInv == call.method # "page" => dataLen = PageLen

\* Only drives that are known are sent commands, and only the SMART data takes
\* two of them; a state of sanitizing is told by that method alone.
CommandInv ==
  /\ step \in {"called", "sent", "sent2", "back", "told", "parsed", "inquired"}
  /\ step \in {"sent", "sent2", "back"} => call.driving \in {"ata", "nvme"}
  /\ step = "sent2" => call.method = "smart"
  /\ step \in {"parsed", "inquired"} => call.method = "open"
  /\ step \in {"called", "sent", "sent2"} => whose = "caller"
  /\ "states" \in DOMAIN answer =>
       call.method = "sanitize" /\ step = "told" /\ call.driving \in {"ata", "nvme"}

\* The taskfiles that come back from the drive with its registers.
NativeTf ==
  IF call.p.ext THEN [tf_init(ATA_OP_READ_NATIVE_MAX_EXT, Zero, 0) EXCEPT !.dev = 64]
  ELSE [tf_init(ATA_OP_READ_NATIVE_MAX, Zero, 0) EXCEPT !.dev = 1]
NativeReturned ==
  [NativeTf EXCEPT !.lob = InBank(truth.lo, @),
                   !.hob = IF NativeTf.ext THEN InBank(truth.hi, @) ELSE NoBank,
                   !.dev = IF NativeTf.ext THEN ATA_USING_LBA ELSE truth.hi]
SanitizeReturned ==
  [SanitizeTf EXCEPT !.hob = [InBank(0, @) EXCEPT !.nsect = BitSum(truth.flags)],
                     !.lob = InBank(truth.progress, @)]

\* What the program is told follows from what came back.
NativeInv ==
  call.method = "native" /\ call.driving = "ata" =>
    /\ step = "sent" => tf = NativeTf
    /\ step \in {"back", "told"} /\ whose = "drive" => tf = NativeReturned
    /\ step = "told" => answer = [code |-> code, sectors |-> NativeMax]

SanitizeAnswer ==
  IF code # "OK" THEN [code |-> code]
  ELSE [code |-> "OK", states |-> SanitizeStates(tf.hob.nsect),
        progress |-> Progress(tf.lob.lbal + (256 * tf.lob.lbam))]
AtaSanitizeInv ==
  call.method = "sanitize" /\ call.driving = "ata" =>
    /\ step = "sent" => tf = SanitizeTf
    /\ step \in {"back", "told"} => CASE whose = "drive" -> tf = SanitizeReturned
                                      [] whose = "caller" -> tf = SanitizeTf
                                      [] OTHER -> TRUE
    /\ step = "told" => answer = SanitizeAnswer

NvmeSanitizeInv ==
  call.method = "sanitize" /\ call.driving = "nvme" =>
    /\ step = "sent" => call.p.feature \in {"crypto", "block", "overwrite"} /\ tf = SanitizeNvme
    /\ "states" \in DOMAIN answer => answer.states = SanitizeStatus.states

\* These ask the drive nothing, or the log page alone.
EstimatesInv ==
  call.method = "estimates" /\ step = "told" /\ answer.code = "OK" =>
    \/ /\ call.driving = "ata"
       /\ answer.seconds = IF call.p.supported THEN ataEstToSeconds(call.p.time, call.p.extended) ELSE -1
    \/ /\ call.driving = "nvme"
       /\ answer.seconds = nvmeEstToSeconds(call.p.time)

CapacityInv ==
  call.method = "capacity" /\ step = "told" =>
    answer.sectors = IF call.driving = "ata" THEN Capacity ELSE Zero

TaskfileInv ==
  call.method = "taskfile" /\ step = "told" => tf = tf_init(call.p.op, truth, call.p.nsect)

\* What is known of a drive since it was identified: only a serial number that
\* was empty may have come from the inquiry.
Parsed == parseIdentifyDevice(call.driving, truth.id)
OpenInv ==
  call.method = "open" =>
    /\ step = "parsed" => answer = [code |-> "OK", info |-> Parsed]
    /\ step \in {"parsed", "inquired", "told"} =>
         /\ "info" \in DOMAIN answer
         /\ answer.info.sanitize = Parsed.sanitize
         /\ \/ answer.info.serial = Parsed.serial
            \/ Parsed.serial = <<>> /\ answer.info.serial = call.p.inquiry

QInv ==
  /\ LogInv /\ LengthInv
  /\ CallKnown /\ CommandInv
  /\ NativeInv /\ AtaSanitizeInv /\ NvmeSanitizeInv
  /\ EstimatesInv /\ CapacityInv /\ TaskfileInv /\ OpenInv

-----------------------------------------------------------------------------
(* Registers *)

\* Three registers hold a number of 24 bits.
LEMMA BytesAreWhole ==
  ASSUME NEW n \in Nat, n < Lo
  PROVE  /\ Byte0(n) \in 0 .. 255 /\ Byte1(n) \in 0 .. 255 /\ Byte2(n) \in 0 .. 255
         /\ (65536 * Byte2(n)) + (256 * Byte1(n)) + Byte0(n) = n
  BY SMT DEF Byte0, Byte1, Byte2, Lo

\* A taskfile of 48 or 28 bits gives back every address and count that was put
\* into it, and one of 28 bits ends within them.
LEMMA TaskfileRight ==
  ASSUME NEW op, op \notin ShortOps, NEW hi \in Nat, hi < Lo, NEW lo \in Nat, lo < Lo,
         NEW n \in Nat, n < 65536
  PROVE  /\ tf_to_lba(tf_init(op, Lba(hi, lo), n)) = Lba(hi, lo)
         /\ Sectors(tf_init(op, Lba(hi, lo), n)) = n
         /\ ~tf_init(op, Lba(hi, lo), n).ext /\ n > 0 =>
              ~Exceeds28(LastSector(Lba(hi, lo), n))
<1> DEFINE ext == needs_lba48(op, Lba(hi, lo), n)
           t == tf_init(op, Lba(hi, lo), n)
<1>1. /\ t.ext = ext
      /\ t.dev = IF ext THEN 64 ELSE 64 + (hi % 16)
      /\ t.lob.nsect = n % 256
      /\ t.lob.lbal = Byte0(lo) /\ t.lob.lbam = Byte1(lo) /\ t.lob.lbah = Byte2(lo)
      /\ ext => /\ t.hob.nsect = (n \div 256) % 256
                /\ t.hob.lbal = Byte0(hi) /\ t.hob.lbam = Byte1(hi) /\ t.hob.lbah = Byte2(hi)
  <2> DEFINE L == [NoBank EXCEPT !.nsect = n % 256, !.lbal = Byte0(lo), !.lbam = Byte1(lo),
                                 !.lbah = Byte2(lo)]
             H == [NoBank EXCEPT !.nsect = (n \div 256) % 256, !.lbal = Byte0(hi),
                                 !.lbam = Byte1(hi), !.lbah = Byte2(hi)]
  <2>1. Lba(hi, lo).hi = hi /\ Lba(hi, lo).lo = lo
    BY DEF Lba
  <2>2. t = [command |-> op, ext |-> ext,
             dev |-> IF ext THEN ATA_USING_LBA ELSE ATA_USING_LBA + (hi % 16),
             lob |-> L, hob |-> IF ext THEN H ELSE NoBank]
    BY <2>1 DEF tf_init
  <2>3. /\ L.nsect = n % 256
        /\ L.lbal = Byte0(lo) /\ L.lbam = Byte1(lo) /\ L.lbah = Byte2(lo)
    BY DEF NoBank
  <2>4. /\ H.nsect = (n \div 256) % 256
        /\ H.lbal = Byte0(hi) /\ H.lbam = Byte1(hi) /\ H.lbah = Byte2(hi)
    BY DEF NoBank
  <2> HIDE DEF L, H, t, ext
  <2>5. QED
    BY <2>2, <2>3, <2>4 DEF ATA_USING_LBA
<1>2. ext \in BOOLEAN
  BY DEF needs_lba48
<1>3. ~ext => /\ hi <= 15 /\ n <= 255
              /\ n > 0 => LastSector(Lba(hi, lo), n).hi <= 15
  BY SMT DEF needs_lba48, Reaches28, LastSector, Lba, Lo
<1> HIDE DEF ext, t
<1>4. Whole(t.lob) = lo
  BY SMT, <1>1, BytesAreWhole DEF Whole
<1>5. ext => Whole(t.hob) = hi
  BY SMT, <1>1, BytesAreWhole DEF Whole
<1>6. ~ext => t.dev % 16 = hi
  BY SMT, <1>1, <1>3
<1>7. tf_to_lba(t) = Lba(hi, lo)
  BY <1>1, <1>2, <1>4, <1>5, <1>6 DEF tf_to_lba
<1>8. Sectors(t) = n
  BY SMT, <1>1, <1>2, <1>3 DEF Sectors
<1>9. ~t.ext /\ n > 0 => ~Exceeds28(LastSector(Lba(hi, lo), n))
  <2>1. LastSector(Lba(hi, lo), n).hi \in Int
    BY SMT DEF LastSector, Lba, Lo
  <2>2. QED
    BY SMT, <1>1, <1>3, <2>1 DEF Exceeds28
<1>10. QED
  BY <1>7, <1>8, <1>9 DEF t

\* READ NATIVE MAX, as it is put together: the last address and one, but for
\* the carry.
LEMMA OrLowRight ==
  ASSUME NEW n \in Nat, n < Lo
  PROVE  OrLow(n - Byte0(n), Byte0(n) + 1) = n + 1 - (IF n % 512 = 511 THEN 256 ELSE 0)
<1>1. Byte0(n) = 255 /\ ((n - Byte0(n)) \div 256) % 2 = 1 <=> n % 512 = 511
  BY SMT DEF Byte0, Lo
<1>2. Byte0(n) \in 0 .. 255
  BY SMT, BytesAreWhole
<1>3. QED
  BY SMT, <1>1, <1>2 DEF OrLow

\* The bits of the count register are the drive's flags.
LEMMA FlagsAreBits ==
  ASSUME NEW flags \in SUBSET Flags
  PROVE  {g \in Flags : (BitSum(flags) \div FlagBit[g]) % 2 = 1} = flags
<1> DEFINE b(f) == IF f \in flags THEN 1 ELSE 0
<1>1. BitSum(flags) = 128 * b("succeeded") + 64 * b("in_progress") + 32 * b("frozen") + 16 * b("antifreeze")
  BY DEF BitSum, Bit, FlagBit
<1>2. \A f : b(f) \in {0, 1} /\ (b(f) = 1 <=> f \in flags)
  OBVIOUS
<1> HIDE DEF b
<1>3. BitSum(flags) \in 0 .. 255
  BY <1>1, <1>2
<1>4. /\ (BitSum(flags) \div 128) % 2 = b("succeeded")
      /\ (BitSum(flags) \div 64) % 2 = b("in_progress")
      /\ (BitSum(flags) \div 32) % 2 = b("frozen")
      /\ (BitSum(flags) \div 16) % 2 = b("antifreeze")
  BY <1>1, <1>2
<1>5. \A g \in Flags : (BitSum(flags) \div FlagBit[g]) % 2 = b(g)
  BY <1>4 DEF Flags, FlagBit
<1>6. \A g \in Flags : (BitSum(flags) \div FlagBit[g]) % 2 = 1 <=> g \in flags
  BY <1>2, <1>5
<1>7. QED
  BY <1>6

-----------------------------------------------------------------------------
(* Every step keeps what is known *)

\* What is made of the call alone stays with it.
LEMMA CallAlone ==
  ASSUME call' = call, truth' = truth
  PROVE  /\ NativeTf' = NativeTf /\ NativeReturned' = NativeReturned
         /\ SanitizeTf' = SanitizeTf /\ SanitizeReturned' = SanitizeReturned
         /\ SanitizeNvme' = SanitizeNvme /\ SanitizeStatus' = SanitizeStatus
         /\ Capacity' = Capacity /\ Parsed' = Parsed
         /\ (CallKnown' <=> CallKnown)
<1>1. NativeTf' = NativeTf
  BY DEF NativeTf
<1>2. NativeReturned' = NativeReturned
  BY <1>1 DEF NativeReturned
<1>3. SanitizeTf' = SanitizeTf
  BY DEF SanitizeTf
<1>4. SanitizeReturned' = SanitizeReturned
  BY <1>3 DEF SanitizeReturned
<1>5. SanitizeNvme' = SanitizeNvme
  BY DEF SanitizeNvme
<1>6. SanitizeStatus' = SanitizeStatus
  BY DEF SanitizeStatus
<1>7. Capacity' = Capacity
  BY DEF Capacity, User28
<1>8. Parsed' = Parsed
  BY DEF Parsed
<1>9. CallKnown' <=> CallKnown
  BY DEF CallKnown
<1>10. QED
  BY <1>1, <1>2, <1>3, <1>4, <1>5, <1>6, <1>7, <1>8, <1>9

\* Every identification is parsed to a DriveInfo.
LEMMA ParsedShape == DOMAIN Parsed = {"serial", "raw_serial", "is_ssd", "smart_enabled", "sanitize"}
<1>1. DOMAIN NoInfo = {"serial", "raw_serial", "is_ssd", "smart_enabled", "sanitize"}
  BY DEF NoInfo
<1>2. \A id : DOMAIN ParseAta(id) = {"serial", "raw_serial", "is_ssd", "smart_enabled", "sanitize"}
  BY <1>1 DEF ParseAta
<1>3. \A id : DOMAIN ParseNvme(id) = {"serial", "raw_serial", "is_ssd", "smart_enabled", "sanitize"}
  BY <1>1 DEF ParseNvme
<1>4. Parsed \in {ParseAta(truth.id), ParseNvme(truth.id), NoInfo}
  BY DEF Parsed, parseIdentifyDevice
<1>5. QED
  BY <1>1, <1>2, <1>3, <1>4

LEMMA QInitInv == QInit => QInv
<1> SUFFICES ASSUME QInit PROVE QInv
  OBVIOUS
<1>1. LogInv
  BY LogInit DEF QInit
<1>2. /\ step = "called" /\ whose = "caller" /\ answer = [code |-> "none"]
  BY DEF QInit
<1>3. CallKnown
  <2>1. PICK method \in Methods, driving \in {"ata", "nvme", "unknown"} :
          /\ \E p \in Parameters(method, driving) :
               call = [method |-> method, driving |-> driving, p |-> p]
          /\ truth \in Truths(method, driving)
    BY DEF QInit
  <2>2. PICK p \in Parameters(method, driving) :
          call = [method |-> method, driving |-> driving, p |-> p]
    BY <2>1
  <2>3. call.method = method /\ call.driving = driving /\ call.p = p
    BY <2>2
  <2>4. call.method = "native" => (call.p.ext \/ truth.hi < 16)
    BY DEF QInit
  <2>5. QED
    BY <2>1, <2>3, <2>4 DEF CallKnown
<1>4. "states" \notin DOMAIN answer
  BY <1>2
<1>5. CommandInv
  BY <1>2, <1>4 DEF CommandInv
<1>6. NativeInv /\ AtaSanitizeInv /\ NvmeSanitizeInv
  BY <1>2, <1>4 DEF NativeInv, AtaSanitizeInv, NvmeSanitizeInv
<1>7. EstimatesInv /\ CapacityInv /\ TaskfileInv /\ OpenInv
  BY <1>2 DEF EstimatesInv, CapacityInv, TaskfileInv, OpenInv
<1>8. LengthInv
  <2>1. PICK method \in Methods, driving \in {"ata", "nvme", "unknown"} :
          /\ \E p \in Parameters(method, driving) :
               call = [method |-> method, driving |-> driving, p |-> p]
          /\ IF method = "page" THEN driving = "nvme" ELSE dataLen = PageLen
    BY DEF QInit
  <2>2. QED
    BY <2>1 DEF LengthInv
<1>9. QED
  BY <1>1, <1>3, <1>5, <1>6, <1>7, <1>8 DEF QInv

\* A step that leaves the log page alone.
LEMMA LogAlone ==
  ASSUME LogInv, UNCHANGED vars PROVE LogInv'
  BY LogNext

LEMMA LengthAlone ==
  ASSUME LengthInv, UNCHANGED vars, call' = call PROVE LengthInv'
  BY DEF LengthInv, vars

\* The command is sent.
LEMMA AskSanitizeKeeps == ASSUME QInv, AskSanitize PROVE QInv'
<1>1. UNCHANGED vars /\ call' = call /\ truth' = truth
  BY DEF AskSanitize
<1>2. /\ step = "called" /\ step' = "sent" /\ whose' = whose /\ answer' = answer
      /\ call.method = "sanitize" /\ call.driving = "ata" /\ tf' = SanitizeTf
  BY DEF AskSanitize, IsAta
<1>3. LogInv' /\ LengthInv' /\ CallKnown'
  BY <1>1, LogAlone, LengthAlone, CallAlone DEF QInv
<1>4. CommandInv'
  BY <1>1, <1>2 DEF QInv, CommandInv
<1>5. AtaSanitizeInv'
  BY <1>1, <1>2, CallAlone DEF QInv, AtaSanitizeInv
<1>6. NativeInv' /\ NvmeSanitizeInv' /\ EstimatesInv' /\ CapacityInv' /\ TaskfileInv' /\ OpenInv'
  BY <1>1, <1>2 DEF NativeInv, NvmeSanitizeInv, EstimatesInv, CapacityInv, TaskfileInv, OpenInv
<1>7. QED
  BY <1>3, <1>4, <1>5, <1>6 DEF QInv

\* The command is sent.
LEMMA AskSanitizeNvmeKeeps == ASSUME QInv, AskSanitizeNvme PROVE QInv'
<1>1. UNCHANGED vars /\ call' = call /\ truth' = truth
  BY DEF AskSanitizeNvme
<1>2. /\ step = "called" /\ step' = "sent" /\ whose' = whose /\ answer' = answer
      /\ call.method = "sanitize" /\ call.driving = "nvme" /\ tf' = SanitizeNvme
      /\ call.p.feature \in {"crypto", "block", "overwrite"}
  BY DEF AskSanitizeNvme
<1>3. LogInv' /\ LengthInv' /\ CallKnown'
  BY <1>1, LogAlone, LengthAlone, CallAlone DEF QInv
<1>4. CommandInv'
  BY <1>1, <1>2 DEF QInv, CommandInv
<1>5. NvmeSanitizeInv'
  BY <1>1, <1>2, CallAlone DEF QInv, NvmeSanitizeInv, CommandInv
<1>6. NativeInv' /\ AtaSanitizeInv' /\ EstimatesInv' /\ CapacityInv' /\ TaskfileInv' /\ OpenInv'
  BY <1>1, <1>2 DEF NativeInv, AtaSanitizeInv, EstimatesInv, CapacityInv, TaskfileInv, OpenInv
<1>7. QED
  BY <1>3, <1>4, <1>5, <1>6 DEF QInv

\* The command is sent.
LEMMA AskNativeKeeps == ASSUME QInv, AskNative PROVE QInv'
<1>1. UNCHANGED vars /\ call' = call /\ truth' = truth
  BY DEF AskNative
<1>2. /\ step = "called" /\ step' = "sent" /\ whose' = whose /\ answer' = answer
      /\ call.method = "native" /\ call.driving = "ata" /\ tf' = NativeTf
  BY DEF AskNative, IsAta, NativeTf
<1>3. LogInv' /\ LengthInv' /\ CallKnown'
  BY <1>1, LogAlone, LengthAlone, CallAlone DEF QInv
<1>4. CommandInv'
  BY <1>1, <1>2 DEF QInv, CommandInv
<1>5. NativeInv'
  BY <1>1, <1>2, CallAlone DEF QInv, NativeInv
<1>6. AtaSanitizeInv' /\ NvmeSanitizeInv' /\ EstimatesInv' /\ CapacityInv' /\ TaskfileInv' /\ OpenInv'
  BY <1>1, <1>2 DEF AtaSanitizeInv, NvmeSanitizeInv, EstimatesInv, CapacityInv, TaskfileInv, OpenInv
<1>7. QED
  BY <1>3, <1>4, <1>5, <1>6 DEF QInv

\* The command is sent.
LEMMA AskDcoKeeps == ASSUME QInv, AskDco PROVE QInv'
<1>1. UNCHANGED vars /\ call' = call /\ truth' = truth
  BY DEF AskDco
<1>2. /\ step = "called" /\ step' = "sent" /\ whose' = whose /\ answer' = answer
      /\ call.method = "dco" /\ call.driving = "ata"
  BY DEF AskDco, IsAta
<1>3. LogInv' /\ LengthInv' /\ CallKnown'
  BY <1>1, LogAlone, LengthAlone, CallAlone DEF QInv
<1>4. CommandInv'
  BY <1>1, <1>2 DEF QInv, CommandInv
<1>5. NativeInv' /\ AtaSanitizeInv' /\ NvmeSanitizeInv' /\ EstimatesInv' /\ CapacityInv' /\ TaskfileInv' /\ OpenInv'
  BY <1>1, <1>2 DEF NativeInv, AtaSanitizeInv, NvmeSanitizeInv, EstimatesInv, CapacityInv, TaskfileInv, OpenInv
<1>6. QED
  BY <1>3, <1>4, <1>5 DEF QInv

\* The command is sent.
LEMMA AskSmartKeeps == ASSUME QInv, AskSmart PROVE QInv'
<1>1. UNCHANGED vars /\ call' = call /\ truth' = truth
  BY DEF AskSmart
<1>2. /\ step = "called" /\ step' = "sent" /\ whose' = whose /\ answer' = answer
      /\ call.method = "smart" /\ call.driving = "ata"
  BY DEF AskSmart, IsAta
<1>3. LogInv' /\ LengthInv' /\ CallKnown'
  BY <1>1, LogAlone, LengthAlone, CallAlone DEF QInv
<1>4. CommandInv'
  BY <1>1, <1>2 DEF QInv, CommandInv
<1>5. NativeInv' /\ AtaSanitizeInv' /\ NvmeSanitizeInv' /\ EstimatesInv' /\ CapacityInv' /\ TaskfileInv' /\ OpenInv'
  BY <1>1, <1>2 DEF NativeInv, AtaSanitizeInv, NvmeSanitizeInv, EstimatesInv, CapacityInv, TaskfileInv, OpenInv
<1>6. QED
  BY <1>3, <1>4, <1>5 DEF QInv

\* A state of sanitizing is made of the registers that came back.
LEMMA SanitizeBackKeeps == ASSUME QInv, SanitizeBack PROVE QInv'
<1>1. UNCHANGED vars /\ call' = call /\ truth' = truth
  BY DEF SanitizeBack
<1>2. /\ step = "back" /\ step' = "told" /\ whose' = whose /\ code' = code /\ tf' = tf
      /\ call.method = "sanitize"
      /\ answer' = IF code # "OK" THEN [code |-> code]
                  ELSE IF call.driving = "nvme" THEN [code |-> "OK"] ELSE SanitizeAnswer
  BY DEF SanitizeBack, Tell, SanitizeAnswer
<1>3. LogInv' /\ LengthInv' /\ CallKnown'
  BY <1>1, LogAlone, LengthAlone, CallAlone DEF QInv
<1>4. SanitizeAnswer' = SanitizeAnswer /\ (call.driving = "ata" => answer' = SanitizeAnswer)
  BY <1>2 DEF SanitizeAnswer
<1>5. CommandInv'
  BY <1>1, <1>2, <1>4 DEF QInv, CommandInv
<1>6. AtaSanitizeInv'
  BY <1>1, <1>2, <1>4, CallAlone DEF QInv, AtaSanitizeInv
<1>7. NvmeSanitizeInv'
  BY <1>1, <1>2, <1>4, CallAlone DEF QInv, NvmeSanitizeInv
<1>8. NativeInv' /\ EstimatesInv' /\ CapacityInv' /\ TaskfileInv' /\ OpenInv'
  BY <1>1, <1>2, <1>4 DEF NativeInv, EstimatesInv, CapacityInv, TaskfileInv, OpenInv
<1>9. QED
  BY <1>3, <1>5, <1>6, <1>7, <1>8 DEF QInv

\* The number is made of the registers that came back.
LEMMA NativeBackKeeps == ASSUME QInv, NativeBack PROVE QInv'
<1>1. UNCHANGED vars /\ call' = call /\ truth' = truth
  BY DEF NativeBack
<1>2. /\ step = "back" /\ step' = "told" /\ whose' = whose /\ code' = code /\ tf' = tf
      /\ call.method = "native" /\ answer' = [code |-> code, sectors |-> NativeMax]
  BY DEF NativeBack, Tell
<1>3. LogInv' /\ LengthInv' /\ CallKnown'
  BY <1>1, LogAlone, LengthAlone, CallAlone DEF QInv
<1>4. "states" \notin DOMAIN answer'
  BY <1>2
<1>5. CommandInv'
  BY <1>1, <1>2, <1>4 DEF QInv, CommandInv
<1>6. NativeInv'
  BY <1>1, <1>2, <1>4, CallAlone DEF QInv, NativeInv, NativeMax
<1>7. AtaSanitizeInv' /\ NvmeSanitizeInv' /\ EstimatesInv' /\ CapacityInv' /\ TaskfileInv' /\ OpenInv'
  BY <1>1, <1>2, <1>4 DEF AtaSanitizeInv, NvmeSanitizeInv, EstimatesInv, CapacityInv, TaskfileInv, OpenInv
<1>8. QED
  BY <1>3, <1>5, <1>6, <1>7 DEF QInv

\* Nothing is read.
LEMMA DcoBackKeeps == ASSUME QInv, DcoBack PROVE QInv'
<1>1. UNCHANGED vars /\ call' = call /\ truth' = truth
  BY DEF DcoBack
<1>2. /\ step' = "told" /\ whose' = whose
      /\ step = "back" /\ call.method = "dco" /\ answer' = [code |-> code]
  BY DEF DcoBack, Tell
<1>3. LogInv' /\ LengthInv' /\ CallKnown'
  BY <1>1, LogAlone, LengthAlone, CallAlone DEF QInv
<1>4. "states" \notin DOMAIN answer'
  BY <1>2
<1>5. CommandInv'
  BY <1>1, <1>2, <1>4 DEF QInv, CommandInv
<1>6. NativeInv' /\ AtaSanitizeInv' /\ NvmeSanitizeInv' /\ EstimatesInv' /\ CapacityInv' /\ TaskfileInv' /\ OpenInv'
  BY <1>1, <1>2, <1>4 DEF NativeInv, AtaSanitizeInv, NvmeSanitizeInv, EstimatesInv, CapacityInv, TaskfileInv, OpenInv
<1>7. QED
  BY <1>3, <1>5, <1>6 DEF QInv

\* The attributes are told.
LEMMA SmartBackKeeps == ASSUME QInv, SmartBack PROVE QInv'
<1>1. UNCHANGED vars /\ call' = call /\ truth' = truth
  BY DEF SmartBack
<1>2. /\ step' = "told" /\ whose' = whose
      /\ step = "back" /\ call.method = "smart"
      /\ answer' = [code |-> code,
                    attributes |-> IF code = "OK" THEN SmartAttributes(truth.values, truth.thresholds)
                                   ELSE <<>>]
  BY DEF SmartBack, Tell
<1>3. LogInv' /\ LengthInv' /\ CallKnown'
  BY <1>1, LogAlone, LengthAlone, CallAlone DEF QInv
<1>4. "states" \notin DOMAIN answer'
  BY <1>2
<1>5. CommandInv'
  BY <1>1, <1>2, <1>4 DEF QInv, CommandInv
<1>6. NativeInv' /\ AtaSanitizeInv' /\ NvmeSanitizeInv' /\ EstimatesInv' /\ CapacityInv' /\ TaskfileInv' /\ OpenInv'
  BY <1>1, <1>2, <1>4 DEF NativeInv, AtaSanitizeInv, NvmeSanitizeInv, EstimatesInv, CapacityInv, TaskfileInv, OpenInv
<1>7. QED
  BY <1>3, <1>5, <1>6 DEF QInv

\* The identification is at hand.
LEMMA AskCapacityKeeps == ASSUME QInv, AskCapacity PROVE QInv'
<1>1. UNCHANGED vars /\ call' = call /\ truth' = truth
  BY DEF AskCapacity
<1>2. /\ step' = "told" /\ whose' = whose
      /\ step = "called" /\ call.method = "capacity"
      /\ answer' = [code |-> "OK", sectors |-> IF call.driving = "ata" THEN Capacity ELSE Zero]
  BY DEF AskCapacity, Tell
<1>3. LogInv' /\ LengthInv' /\ CallKnown'
  BY <1>1, LogAlone, LengthAlone, CallAlone DEF QInv
<1>4. "states" \notin DOMAIN answer'
  BY <1>2
<1>5. CommandInv'
  BY <1>1, <1>2, <1>4 DEF QInv, CommandInv
<1>6. CapacityInv'
  BY <1>1, <1>2, <1>4, CallAlone DEF QInv, CapacityInv
<1>7. NativeInv' /\ AtaSanitizeInv' /\ NvmeSanitizeInv' /\ EstimatesInv' /\ TaskfileInv' /\ OpenInv'
  BY <1>1, <1>2, <1>4 DEF NativeInv, AtaSanitizeInv, NvmeSanitizeInv, EstimatesInv, TaskfileInv, OpenInv
<1>8. QED
  BY <1>3, <1>5, <1>6, <1>7 DEF QInv

\* The taskfile is made.
LEMMA AskTaskfileKeeps == ASSUME QInv, AskTaskfile PROVE QInv'
<1>1. UNCHANGED vars /\ call' = call /\ truth' = truth
  BY DEF AskTaskfile
<1>2. /\ step' = "told" /\ whose' = whose
      /\ step = "called" /\ call.method = "taskfile" /\ answer' = [code |-> "OK"]
      /\ tf' = tf_init(call.p.op, truth, call.p.nsect)
  BY DEF AskTaskfile, Tell
<1>3. LogInv' /\ LengthInv' /\ CallKnown'
  BY <1>1, LogAlone, LengthAlone, CallAlone DEF QInv
<1>4. "states" \notin DOMAIN answer'
  BY <1>2
<1>5. CommandInv'
  BY <1>1, <1>2, <1>4 DEF QInv, CommandInv
<1>6. TaskfileInv'
  BY <1>1, <1>2, <1>4, CallAlone DEF QInv, TaskfileInv
<1>7. NativeInv' /\ AtaSanitizeInv' /\ NvmeSanitizeInv' /\ EstimatesInv' /\ CapacityInv' /\ OpenInv'
  BY <1>1, <1>2, <1>4 DEF NativeInv, AtaSanitizeInv, NvmeSanitizeInv, EstimatesInv, CapacityInv, OpenInv
<1>8. QED
  BY <1>3, <1>5, <1>6, <1>7 DEF QInv

\* The list is at hand.
LEMMA AskVolumesKeeps == ASSUME QInv, AskVolumes PROVE QInv'
<1>1. UNCHANGED vars /\ call' = call /\ truth' = truth
  BY DEF AskVolumes
<1>2. /\ step' = "told" /\ whose' = whose
      /\ step = "called" /\ call.method = "volumes" /\ "states" \notin DOMAIN answer'
  BY DEF AskVolumes, Tell
<1>3. LogInv' /\ LengthInv' /\ CallKnown'
  BY <1>1, LogAlone, LengthAlone, CallAlone DEF QInv
<1>4. CommandInv'
  BY <1>1, <1>2 DEF QInv, CommandInv
<1>5. NativeInv' /\ AtaSanitizeInv' /\ NvmeSanitizeInv' /\ EstimatesInv' /\ CapacityInv' /\ TaskfileInv' /\ OpenInv'
  BY <1>1, <1>2 DEF NativeInv, AtaSanitizeInv, NvmeSanitizeInv, EstimatesInv, CapacityInv, TaskfileInv, OpenInv
<1>6. QED
  BY <1>3, <1>4, <1>5 DEF QInv

\* The identification is at hand.
LEMMA AskEstimatesKeeps == ASSUME QInv, AskEstimates PROVE QInv'
<1>1. UNCHANGED vars /\ call' = call /\ truth' = truth
  BY DEF AskEstimates
<1>2. /\ step' = "told" /\ whose' = whose
      /\ step = "called" /\ call.method = "estimates" /\ call.driving = "ata"
      /\ answer' = [code |-> "OK",
                    seconds |-> IF call.p.supported THEN ataEstToSeconds(call.p.time, call.p.extended)
                                ELSE -1]
  BY DEF AskEstimates, Tell, IsAta
<1>3. LogInv' /\ LengthInv' /\ CallKnown'
  BY <1>1, LogAlone, LengthAlone, CallAlone DEF QInv
<1>4. "states" \notin DOMAIN answer'
  BY <1>2
<1>5. CommandInv'
  BY <1>1, <1>2, <1>4 DEF QInv, CommandInv
<1>6. EstimatesInv'
  BY <1>1, <1>2, <1>4, CallAlone DEF QInv, EstimatesInv
<1>7. NativeInv' /\ AtaSanitizeInv' /\ NvmeSanitizeInv' /\ CapacityInv' /\ TaskfileInv' /\ OpenInv'
  BY <1>1, <1>2, <1>4 DEF NativeInv, AtaSanitizeInv, NvmeSanitizeInv, CapacityInv, TaskfileInv, OpenInv
<1>8. QED
  BY <1>3, <1>5, <1>6, <1>7 DEF QInv

\* The page is read, or not.
LEMMA LogBackKeeps == ASSUME QInv, LogBack PROVE QInv'
<1>1. UNCHANGED vars /\ call' = call /\ truth' = truth
  BY DEF LogBack
<1>2. /\ step' = "told" /\ whose' = whose
      /\ step = "called" /\ Logged
      /\ answer' = IF ~ok THEN [code |-> "FAILED"]
                   ELSE CASE call.method = "sanitize"  -> [code |-> "OK", states |-> SanitizeStatus.states,
                                                           progress |-> SanitizeStatus.progress]
                          [] call.method = "estimates" -> [code |-> "OK", seconds |-> nvmeEstToSeconds(call.p.time)]
                          [] OTHER                     -> [code |-> "OK"]
  BY DEF LogBack, Tell
<1>3. LogInv' /\ LengthInv' /\ CallKnown'
  BY <1>1, LogAlone, LengthAlone, CallAlone DEF QInv
<1>4. /\ call.driving = "nvme" /\ call.method \in {"page", "smart_log", "estimates", "sanitize"}
      /\ call.method # "sanitize" => "states" \notin DOMAIN answer'
      /\ call.method = "sanitize" /\ "states" \in DOMAIN answer' => answer'.states = SanitizeStatus.states
      /\ call.method = "estimates" /\ answer'.code = "OK" => answer'.seconds = nvmeEstToSeconds(call.p.time)
  BY <1>2 DEF Logged
<1>5. CommandInv'
  BY <1>1, <1>2, <1>4 DEF QInv, CommandInv
<1>6. NvmeSanitizeInv'
  BY <1>1, <1>2, <1>4, CallAlone DEF QInv, NvmeSanitizeInv
<1>7. EstimatesInv'
  BY <1>1, <1>2, <1>4, CallAlone DEF QInv, EstimatesInv, CommandInv
<1>8. NativeInv' /\ AtaSanitizeInv' /\ CapacityInv' /\ TaskfileInv' /\ OpenInv'
  BY <1>1, <1>2, <1>4 DEF NativeInv, AtaSanitizeInv, CapacityInv, TaskfileInv, OpenInv
<1>9. QED
  BY <1>3, <1>5, <1>6, <1>7, <1>8 DEF QInv

\* What is not supported is told at once.
LEMMA RefuseKeeps == ASSUME QInv, Refuse PROVE QInv'
<1>1. UNCHANGED vars /\ call' = call /\ truth' = truth
  BY DEF Refuse
<1>2. /\ step' = "told" /\ whose' = whose
      /\ step = "called"
      /\ answer' = [code |-> "NOT_IMPL"] \/ answer' = [code |-> "NOT_SUPPORTED"]
      /\ call.method \notin {"capacity", "taskfile", "open", "volumes"}
      /\ call.method = "native" => call.driving # "ata"
      /\ call.method = "sanitize" => call.driving # "ata"
  BY DEF Refuse, Tell
<1>3. LogInv' /\ LengthInv' /\ CallKnown'
  BY <1>1, LogAlone, LengthAlone, CallAlone DEF QInv
<1>4. "states" \notin DOMAIN answer' /\ answer'.code # "OK"
  BY <1>2
<1>5. CommandInv'
  BY <1>1, <1>2, <1>4 DEF QInv, CommandInv
<1>6. NativeInv' /\ AtaSanitizeInv' /\ NvmeSanitizeInv' /\ EstimatesInv' /\ CapacityInv' /\ TaskfileInv' /\ OpenInv'
  BY <1>1, <1>2, <1>4 DEF NativeInv, AtaSanitizeInv, NvmeSanitizeInv, EstimatesInv, CapacityInv, TaskfileInv, OpenInv
<1>7. QED
  BY <1>3, <1>5, <1>6 DEF QInv

\* The identification is read.
LEMMA ParseIdentifyKeeps == ASSUME QInv, ParseIdentify PROVE QInv'
<1>1. UNCHANGED vars /\ call' = call /\ truth' = truth
  BY DEF ParseIdentify
<1>2. /\ step = "called" /\ step' = "parsed" /\ whose' = whose
      /\ call.method = "open" /\ answer' = [code |-> "OK", info |-> Parsed]
  BY DEF ParseIdentify, Parsed
<1>3. LogInv' /\ LengthInv' /\ CallKnown'
  BY <1>1, LogAlone, LengthAlone, CallAlone DEF QInv
<1>4. /\ "states" \notin DOMAIN answer' /\ "info" \in DOMAIN answer' /\ answer'.info = Parsed
  BY <1>2
<1>5. CommandInv'
  BY <1>1, <1>2, <1>4 DEF QInv, CommandInv
<1>6. OpenInv'
  BY <1>1, <1>2, <1>4, CallAlone DEF QInv, OpenInv
<1>7. NativeInv' /\ AtaSanitizeInv' /\ NvmeSanitizeInv' /\ EstimatesInv' /\ CapacityInv' /\ TaskfileInv'
  BY <1>1, <1>2, <1>4 DEF NativeInv, AtaSanitizeInv, NvmeSanitizeInv, EstimatesInv, CapacityInv, TaskfileInv
<1>8. QED
  BY <1>3, <1>5, <1>6, <1>7 DEF QInv

\* The inquiry may give a serial number.
LEMMA InquireKeeps == ASSUME QInv, Inquire PROVE QInv'
<1>1. UNCHANGED vars /\ call' = call /\ truth' = truth
  BY DEF Inquire
<1>2. /\ step = "parsed" /\ step' = "inquired" /\ whose' = whose
      /\ \/ answer.info.serial = <<>> /\ answer' = [answer EXCEPT !.info.serial = call.p.inquiry]
         \/ answer' = answer
  BY DEF Inquire
<1>3. LogInv' /\ LengthInv' /\ CallKnown'
  BY <1>1, LogAlone, LengthAlone, CallAlone DEF QInv
<1>4. /\ call.method = "open" /\ answer = [code |-> "OK", info |-> Parsed]
      /\ DOMAIN answer' = {"code", "info"} /\ answer'.info.sanitize = Parsed.sanitize
      /\ \/ answer'.info.serial = Parsed.serial
         \/ Parsed.serial = <<>> /\ answer'.info.serial = call.p.inquiry
  <2>1. call.method = "open" /\ answer = [code |-> "OK", info |-> Parsed]
    BY <1>2 DEF QInv, CommandInv, OpenInv
  <2>2. "serial" \in DOMAIN Parsed /\ "sanitize" \in DOMAIN Parsed
    BY ParsedShape
  <2>3. CASE answer' = answer
    BY <2>1, <2>3
  <2>4. CASE answer.info.serial = <<>> /\ answer' = [answer EXCEPT !.info.serial = call.p.inquiry]
    <3>1. answer' = [code |-> "OK", info |-> [Parsed EXCEPT !.serial = call.p.inquiry]]
      BY <2>1, <2>4
    <3>2. answer.info.serial = Parsed.serial
      BY <2>1
    <3>3. DOMAIN answer' = {"code", "info"} /\ answer'.info = [Parsed EXCEPT !.serial = call.p.inquiry]
      BY <3>1
    <3>4. answer'.info.serial = call.p.inquiry /\ answer'.info.sanitize = Parsed.sanitize
      BY <2>2, <3>3
    <3>5. QED
      BY <2>1, <2>4, <3>2, <3>3, <3>4
  <2>5. QED
    BY <1>2, <2>3, <2>4
<1>5. CommandInv'
  BY <1>1, <1>2, <1>4 DEF QInv, CommandInv
<1>6. OpenInv'
  BY <1>1, <1>2, <1>4, CallAlone DEF QInv, OpenInv
<1>7. NativeInv' /\ AtaSanitizeInv' /\ NvmeSanitizeInv' /\ EstimatesInv' /\ CapacityInv' /\ TaskfileInv'
  BY <1>1, <1>2, <1>4 DEF NativeInv, AtaSanitizeInv, NvmeSanitizeInv, EstimatesInv, CapacityInv, TaskfileInv
<1>8. QED
  BY <1>3, <1>5, <1>6, <1>7 DEF QInv

\* The features are read.
LEMMA DiscoverTcgKeeps == ASSUME QInv, DiscoverTcg PROVE QInv'
<1>1. UNCHANGED vars /\ call' = call /\ truth' = truth
  BY DEF DiscoverTcg
<1>2. /\ step = "inquired" /\ step' = "told" /\ whose' = whose
      /\ answer'.info = answer.info /\ DOMAIN answer' = {"code", "info", "tcg", "device"}
  BY DEF DiscoverTcg, Tell
<1>3. LogInv' /\ LengthInv' /\ CallKnown'
  BY <1>1, LogAlone, LengthAlone, CallAlone DEF QInv
<1>4. call.method = "open"
  BY <1>2 DEF QInv, CommandInv
<1>5. CommandInv'
  BY <1>1, <1>2, <1>4 DEF QInv, CommandInv
<1>6. OpenInv'
  BY <1>1, <1>2, <1>4, CallAlone DEF QInv, OpenInv
<1>7. NativeInv' /\ AtaSanitizeInv' /\ NvmeSanitizeInv' /\ EstimatesInv' /\ CapacityInv' /\ TaskfileInv'
  BY <1>1, <1>2, <1>4 DEF NativeInv, AtaSanitizeInv, NvmeSanitizeInv, EstimatesInv, CapacityInv, TaskfileInv
<1>8. QED
  BY <1>3, <1>5, <1>6, <1>7 DEF QInv

\* The device is made.
LEMMA GetTcgDeviceKeeps == ASSUME QInv, GetTcgDevice PROVE QInv'
<1>1. UNCHANGED vars /\ call' = call /\ truth' = truth
  BY DEF GetTcgDevice
<1>2. /\ step = "told" /\ step' = step /\ whose' = whose
      /\ call.method = "open" /\ answer' = [answer EXCEPT !.device = DeviceOf(answer.tcg)]
  BY DEF GetTcgDevice
<1>3. LogInv' /\ LengthInv' /\ CallKnown'
  BY <1>1, LogAlone, LengthAlone, CallAlone DEF QInv
<1>4. DOMAIN answer' = DOMAIN answer /\ ("info" \in DOMAIN answer => answer'.info = answer.info)
  BY <1>2
<1>5. CommandInv'
  BY <1>1, <1>2, <1>4 DEF QInv, CommandInv
<1>6. OpenInv'
  BY <1>1, <1>2, <1>4, CallAlone DEF QInv, OpenInv
<1>7. NativeInv' /\ AtaSanitizeInv' /\ NvmeSanitizeInv' /\ EstimatesInv' /\ CapacityInv' /\ TaskfileInv'
  BY <1>1, <1>2, <1>4 DEF NativeInv, AtaSanitizeInv, NvmeSanitizeInv, EstimatesInv, CapacityInv, TaskfileInv
<1>8. QED
  BY <1>3, <1>5, <1>6, <1>7 DEF QInv

\* What is known of the call, if the call and all it holds stay as they are.
LEMMA QueryAlone ==
  ASSUME QInv, UNCHANGED queryVars, LogInv', LengthInv' PROVE QInv'
<1>1. /\ call' = call /\ truth' = truth /\ step' = step /\ code' = code
      /\ tf' = tf /\ whose' = whose /\ answer' = answer
  BY DEF queryVars
<1>2. CallKnown' /\ CommandInv'
  BY <1>1, CallAlone DEF QInv, CommandInv
<1>3. NativeMax' = NativeMax /\ SanitizeAnswer' = SanitizeAnswer
  BY <1>1 DEF NativeMax, SanitizeAnswer
<1>4. NativeInv' /\ AtaSanitizeInv' /\ NvmeSanitizeInv'
  BY <1>1, <1>3, CallAlone DEF QInv, NativeInv, AtaSanitizeInv, NvmeSanitizeInv
<1>5. EstimatesInv' /\ CapacityInv' /\ TaskfileInv' /\ OpenInv'
  BY <1>1, CallAlone DEF QInv, EstimatesInv, CapacityInv, TaskfileInv, OpenInv
<1>6. QED
  BY <1>2, <1>4, <1>5 DEF QInv

\* A command for a piece of the log page, or its end.
LEMMA LogStepKeeps == ASSUME QInv, LogStep PROVE QInv'
<1>1. UNCHANGED queryVars /\ Next
  BY DEF LogStep, Next
<1>2. LogInv'
  BY <1>1, LogNext DEF QInv
<1>3. dataLen' = dataLen
  BY DEF LogStep, Query, Issue, Answer, Fail
<1>4. LengthInv'
  BY <1>1, <1>3 DEF QInv, LengthInv, queryVars
<1>5. QED
  BY <1>1, <1>2, <1>4, QueryAlone

\* The call is over, or nothing happens.
LEMMA StutterKeeps == ASSUME QInv, UNCHANGED allVars PROVE QInv'
<1>1. UNCHANGED vars /\ UNCHANGED queryVars
  BY DEF allVars
<1>2. LogInv' /\ LengthInv'
  BY <1>1, LogAlone, LengthAlone DEF QInv, queryVars
<1>3. QED
  BY <1>1, <1>2, QueryAlone

\* The command comes back, with registers of the drive or without.
LEMMA DriverKeeps == ASSUME QInv, Driver PROVE QInv'
<1>1. UNCHANGED vars /\ call' = call /\ truth' = truth
  BY DEF Driver
<1>2. /\ step \in {"sent", "sent2"} /\ answer' = answer
      /\ \/ step' = "sent2" /\ call.method = "smart" /\ whose' = whose
         \/ step' = "back" /\ Returned
  BY DEF Driver
<1>3. LogInv' /\ LengthInv' /\ CallKnown'
  BY <1>1, LogAlone, LengthAlone, CallAlone DEF QInv
<1>4. CommandInv'
  BY <1>1, <1>2 DEF QInv, CommandInv
<1>5. call.method # "smart" => step = "sent" /\ step' = "back" /\ Returned
  BY <1>2 DEF QInv, CommandInv
<1>6. ASSUME call.method # "smart", call.driving = "ata"
      PROVE  \/ whose' = "caller" /\ tf' = tf
             \/ whose' = "drive" /\ tf' = Registers
             \/ whose' = "stray"
  BY <1>5, <1>6 DEF Returned
<1>7. NativeInv'
  <2>1. SUFFICES ASSUME call.method = "native", call.driving = "ata", whose' = "drive"
                 PROVE  tf' = NativeReturned
    BY <1>1, <1>5, CallAlone DEF NativeInv
  <2>2. tf = NativeTf /\ tf' = Registers
    BY <1>5, <1>6, <2>1 DEF QInv, NativeInv
  <2>3. Registers = NativeReturned
    BY <2>1, <2>2 DEF Registers, NativeReturned
  <2>4. QED
    BY <2>2, <2>3
<1>8. AtaSanitizeInv'
  <2>1. SUFFICES ASSUME call.method = "sanitize", call.driving = "ata"
                 PROVE  /\ whose' = "drive" => tf' = SanitizeReturned
                        /\ whose' = "caller" => tf' = SanitizeTf
    BY <1>1, <1>5, CallAlone DEF AtaSanitizeInv
  <2>2. tf = SanitizeTf
    BY <1>5, <2>1 DEF QInv, AtaSanitizeInv
  <2>3. Registers = SanitizeReturned
    BY <2>1, <2>2 DEF Registers, SanitizeReturned
  <2>4. QED
    BY <1>6, <2>1, <2>2, <2>3
<1>9. NvmeSanitizeInv'
  BY <1>1, <1>2, <1>5, CallAlone DEF QInv, NvmeSanitizeInv
<1>10. EstimatesInv' /\ CapacityInv' /\ TaskfileInv' /\ OpenInv'
  BY <1>2 DEF EstimatesInv, CapacityInv, TaskfileInv, OpenInv
<1>11. QED
  BY <1>3, <1>4, <1>7, <1>8, <1>9, <1>10 DEF QInv

LEMMA QNextInv == QInv /\ [QNext]_allVars => QInv'
<1> SUFFICES ASSUME QInv, [QNext]_allVars PROVE QInv'
  OBVIOUS
<1>1. CASE UNCHANGED allVars \/ Over
  BY <1>1, StutterKeeps DEF Over
<1>2. CASE AskSanitize \/ AskSanitizeNvme \/ SanitizeBack
  BY <1>2, AskSanitizeKeeps, AskSanitizeNvmeKeeps, SanitizeBackKeeps
<1>3. CASE AskNative \/ NativeBack \/ AskDco \/ DcoBack \/ AskCapacity \/ AskTaskfile
  BY <1>3, AskNativeKeeps, NativeBackKeeps, AskDcoKeeps, DcoBackKeeps, AskCapacityKeeps,
     AskTaskfileKeeps
<1>4. CASE AskSmart \/ SmartBack \/ AskVolumes
  BY <1>4, AskSmartKeeps, SmartBackKeeps, AskVolumesKeeps
<1>5. CASE Driver \/ LogStep \/ LogBack \/ AskEstimates
  BY <1>5, DriverKeeps, LogStepKeeps, LogBackKeeps, AskEstimatesKeeps
<1>6. CASE ParseIdentify \/ Inquire \/ DiscoverTcg \/ GetTcgDevice \/ Refuse
  BY <1>6, ParseIdentifyKeeps, InquireKeeps, DiscoverTcgKeeps, GetTcgDeviceKeeps, RefuseKeeps
<1>7. QED
  BY <1>1, <1>2, <1>3, <1>4, <1>5, <1>6 DEF QNext

\* What is known holds in every state of every call.
THEOREM CallsKnown == QSpec => []QInv
  BY QInitInv, QNextInv, PTL DEF QSpec

\* No page that the library reads for itself, the SMART and the sanitize page, is
\* taken for read unless it was read whole, by whichever driver, for every piece,
\* room and width of a half word; and of the others none but those that are longer
\* than the room of a driver with a way of its own.
THEOREM PagesAreWhole ==
  QSpec => []/\ ReadsAll
             /\ pc = "done" /\ ok /\ call.method # "page" => own = 0 .. PageLen - 1
<1>1. QInv => ReadsAll
  BY DEF QInv, LogInv, ReadsAll
<1>2. QInv /\ pc = "done" /\ ok /\ call.method # "page" => own = 0 .. PageLen - 1
  <2> SUFFICES ASSUME QInv, pc = "done", ok, call.method # "page"
               PROVE  own = 0 .. PageLen - 1
    OBVIOUS
  <2>1. dataLen = PageLen /\ WholeDwords /\ dataLen <= Room /\ special \in BOOLEAN
    <3>1. dataLen = PageLen /\ dataLen \in Nat /\ special \in BOOLEAN
      BY DEF QInv, LengthInv, LogInv, TypeOK
    <3>2. QED
      BY <3>1, QueriesAssumption DEF WholeDwords
  <2>2. QED
    BY <1>1, <2>1 DEF ReadsAll
<1>3. QED
  BY <1>1, <1>2, CallsKnown, PTL

-----------------------------------------------------------------------------
(* Addresses and capacities *)

\* What a taskfile is made of.
LEMMA InitShape ==
  ASSUME NEW op, NEW lba, NEW n
  PROVE  /\ DOMAIN tf_init(op, lba, n) = {"command", "ext", "dev", "lob", "hob"}
         /\ tf_init(op, lba, n).command = op
         /\ tf_init(op, lba, n).ext = needs_lba48(op, lba, n)
         /\ DOMAIN tf_init(op, lba, n).lob = {"feat", "nsect", "lbal", "lbam", "lbah"}
         /\ DOMAIN tf_init(op, lba, n).hob = {"feat", "nsect", "lbal", "lbam", "lbah"}
<1> DEFINE L == [NoBank EXCEPT !.nsect = n % 256, !.lbal = Byte0(lba.lo), !.lbam = Byte1(lba.lo),
                               !.lbah = Byte2(lba.lo)]
           H == [NoBank EXCEPT !.nsect = (n \div 256) % 256, !.lbal = Byte0(lba.hi),
                               !.lbam = Byte1(lba.hi), !.lbah = Byte2(lba.hi)]
           ext == needs_lba48(op, lba, n)
           t == tf_init(op, lba, n)
<1>1. t = [command |-> op, ext |-> ext,
           dev |-> IF ext THEN ATA_USING_LBA ELSE ATA_USING_LBA + (lba.hi % 16),
           lob |-> L, hob |-> IF ext THEN H ELSE NoBank]
  BY DEF tf_init
<1>2. /\ DOMAIN NoBank = {"feat", "nsect", "lbal", "lbam", "lbah"}
      /\ DOMAIN L = {"feat", "nsect", "lbal", "lbam", "lbah"}
      /\ DOMAIN H = {"feat", "nsect", "lbal", "lbam", "lbah"}
  BY DEF NoBank
<1> HIDE DEF L, H, ext, t
<1>3. /\ DOMAIN t = {"command", "ext", "dev", "lob", "hob"}
      /\ t.command = op /\ t.ext = ext /\ t.lob = L /\ t.hob = IF ext THEN H ELSE NoBank
  BY <1>1
<1>4. QED
  BY <1>2, <1>3 DEF t, ext

\* A number in a bank of registers can be read from them.
LEMMA InBankRight ==
  ASSUME NEW n \in Nat, n < Lo, NEW bank, DOMAIN bank = {"feat", "nsect", "lbal", "lbam", "lbah"}
  PROVE  Whole(InBank(n, bank)) = n /\ InBank(n, bank).lbal = Byte0(n)
<1>1. InBank(n, bank).lbal = Byte0(n) /\ InBank(n, bank).lbam = Byte1(n) /\ InBank(n, bank).lbah = Byte2(n)
  BY DEF InBank
<1> HIDE DEF InBank
<1>2. QED
  BY SMT, <1>1, BytesAreWhole DEF Whole

LEMMA SizesAreLbas ==
  ASSUME NEW size \in Sizes
  PROVE  /\ size = Lba(size.hi, size.lo)
         /\ size.hi \in Nat /\ size.hi < Lo /\ size.lo \in Nat /\ size.lo < Lo
  BY SMT DEF Sizes, Lba, Lo

\* The registers of a taskfile hold the address and the count it was made for,
\* whatever they are, and it is one of 28 bits only if its last sector is within
\* them.
THEOREM TaskfilesAddress == QSpec => []TaskfileAddresses
<1>1. ASSUME QInv PROVE TaskfileAddresses
  <2> SUFFICES ASSUME step = "told", call.method = "taskfile", call.p.op \notin ShortOps
               PROVE  /\ tf_to_lba(tf) = truth
                      /\ Sectors(tf) = call.p.nsect
                      /\ ~tf.ext /\ call.p.nsect > 0 => ~Exceeds28(LastSector(truth, call.p.nsect))
    BY DEF TaskfileAddresses
  <2>1. tf = tf_init(call.p.op, truth, call.p.nsect)
    BY <1>1 DEF QInv, TaskfileInv
  <2>2. truth \in Sizes /\ call.p \in Parameters("taskfile", call.driving)
    BY <1>1 DEF QInv, CallKnown, Truths
  <2>3. call.p.nsect \in Nat /\ call.p.nsect < 65536
    BY SMT, <2>2 DEF Parameters
  <2>4. /\ truth = Lba(truth.hi, truth.lo)
        /\ truth.hi \in Nat /\ truth.hi < Lo /\ truth.lo \in Nat /\ truth.lo < Lo
    BY <2>2, SizesAreLbas
  <2> DEFINE h == truth.hi
             l == truth.lo
  <2>5. /\ tf_to_lba(tf_init(call.p.op, Lba(h, l), call.p.nsect)) = Lba(h, l)
        /\ Sectors(tf_init(call.p.op, Lba(h, l), call.p.nsect)) = call.p.nsect
        /\ ~tf_init(call.p.op, Lba(h, l), call.p.nsect).ext /\ call.p.nsect > 0 =>
             ~Exceeds28(LastSector(Lba(h, l), call.p.nsect))
    BY <2>3, <2>4, TaskfileRight
  <2>6. QED
    BY <2>1, <2>4, <2>5
<1>2. QED
  BY <1>1, CallsKnown, PTL

\* A capacity of 28 bits is that of a drive that fits into them, one of 48 bits
\* that of any drive; the one of READ NATIVE MAX is the last address and one,
\* but for a carry into a bit that is set.
THEOREM CapacitiesTold == QSpec => []CapacityTold
<1>1. ASSUME QInv, step = "told", call.driving = "ata", call.method = "capacity",
             call.p.ext \/ ~Exceeds28(truth)
      PROVE  answer.sectors = truth
  <2>1. answer.sectors = Capacity
    BY <1>1 DEF QInv, CapacityInv
  <2>2. Capacity = truth
    BY <1>1 DEF Capacity, User28
  <2>3. QED
    BY <2>1, <2>2
<1>2. ASSUME QInv, step = "told", call.driving = "ata", call.method = "native", whose = "drive"
      PROVE  answer.sectors = Lba(truth.hi, truth.lo + 1 - (IF truth.lo % 512 = 511 THEN 256 ELSE 0))
  <2>1. answer = [code |-> code, sectors |-> NativeMax] /\ tf = NativeReturned
    BY <1>2 DEF QInv, NativeInv
  <2>2. truth \in Truths("native", "ata") /\ call.p \in [ext : BOOLEAN]
    BY <1>2 DEF QInv, CallKnown, Parameters
  <2>3. truth.hi \in Nat /\ truth.hi < Lo /\ truth.lo \in Nat /\ truth.lo < Lo
    BY SMT, <2>2 DEF Truths, Lba, Lo
  <2>4. call.p.ext \in BOOLEAN /\ (call.p.ext \/ truth.hi < 16)
    BY <1>2, <2>2 DEF QInv, CallKnown
  <2>5. /\ DOMAIN NativeTf = {"command", "ext", "dev", "lob", "hob"}
        /\ NativeTf.command = IF call.p.ext THEN ATA_OP_READ_NATIVE_MAX_EXT ELSE ATA_OP_READ_NATIVE_MAX
        /\ NativeTf.ext = call.p.ext
        /\ DOMAIN NativeTf.lob = {"feat", "nsect", "lbal", "lbam", "lbah"}
        /\ DOMAIN NativeTf.hob = {"feat", "nsect", "lbal", "lbam", "lbah"}
    <3>1. /\ needs_lba48(ATA_OP_READ_NATIVE_MAX_EXT, Zero, 0) = TRUE
          /\ needs_lba48(ATA_OP_READ_NATIVE_MAX, Zero, 0) = FALSE
      BY SMT DEF needs_lba48, ATA_OP_READ_NATIVE_MAX_EXT, ATA_OP_READ_NATIVE_MAX, ExtOps, ShortOps,
             Reaches28, Zero, Lba, Lo
    <3>2. CASE call.p.ext
      <4> DEFINE t == tf_init(ATA_OP_READ_NATIVE_MAX_EXT, Zero, 0)
      <4>1. /\ DOMAIN t = {"command", "ext", "dev", "lob", "hob"}
            /\ t.command = ATA_OP_READ_NATIVE_MAX_EXT /\ t.ext = needs_lba48(ATA_OP_READ_NATIVE_MAX_EXT, Zero, 0)
            /\ DOMAIN t.lob = {"feat", "nsect", "lbal", "lbam", "lbah"}
            /\ DOMAIN t.hob = {"feat", "nsect", "lbal", "lbam", "lbah"}
        BY InitShape
      <4>2. NativeTf = [t EXCEPT !.dev = 64]
        BY <3>2 DEF NativeTf
      <4> HIDE DEF t
      <4>3. /\ DOMAIN NativeTf = DOMAIN t
            /\ NativeTf.command = t.command /\ NativeTf.ext = t.ext
            /\ NativeTf.lob = t.lob /\ NativeTf.hob = t.hob
        BY <4>1, <4>2
      <4>4. QED
        BY <3>1, <4>1, <4>3, <3>2, <2>4
    <3>3. CASE ~call.p.ext
      <4> DEFINE t == tf_init(ATA_OP_READ_NATIVE_MAX, Zero, 0)
      <4>1. /\ DOMAIN t = {"command", "ext", "dev", "lob", "hob"}
            /\ t.command = ATA_OP_READ_NATIVE_MAX /\ t.ext = needs_lba48(ATA_OP_READ_NATIVE_MAX, Zero, 0)
            /\ DOMAIN t.lob = {"feat", "nsect", "lbal", "lbam", "lbah"}
            /\ DOMAIN t.hob = {"feat", "nsect", "lbal", "lbam", "lbah"}
        BY InitShape
      <4>2. NativeTf = [t EXCEPT !.dev = 1]
        BY <3>3 DEF NativeTf
      <4> HIDE DEF t
      <4>3. /\ DOMAIN NativeTf = DOMAIN t
            /\ NativeTf.command = t.command /\ NativeTf.ext = t.ext
            /\ NativeTf.lob = t.lob /\ NativeTf.hob = t.hob
        BY <4>1, <4>2
      <4>4. QED
        BY <3>1, <4>1, <4>3, <3>3, <2>4
    <3>4. QED
      BY <3>2, <3>3
  <2>6. /\ NativeReturned.command = NativeTf.command
        /\ NativeReturned.lob = InBank(truth.lo, NativeTf.lob)
        /\ call.p.ext => NativeReturned.hob = InBank(truth.hi, NativeTf.hob)
        /\ ~call.p.ext => NativeReturned.dev = truth.hi
    BY <2>5 DEF NativeReturned
  <2>7. Whole(tf.lob) = truth.lo /\ tf.lob.lbal = Byte0(truth.lo)
    BY <2>1, <2>3, <2>5, <2>6, InBankRight
  <2>8. (IF tf.command = ATA_OP_READ_NATIVE_MAX THEN tf.dev % 16 ELSE Whole(tf.hob)) = truth.hi
    <3>1. CASE call.p.ext
      <4>1. Whole(tf.hob) = truth.hi
        BY <2>1, <2>3, <2>5, <2>6, <3>1, InBankRight
      <4>2. QED
        BY <2>1, <2>5, <2>6, <3>1, <4>1 DEF ATA_OP_READ_NATIVE_MAX, ATA_OP_READ_NATIVE_MAX_EXT
    <3>2. CASE ~call.p.ext
      <4>1. truth.hi % 16 = truth.hi
        BY SMT, <2>3, <2>4, <3>2
      <4>2. QED
        BY <2>1, <2>5, <2>6, <3>2, <4>1
    <3>3. QED
      BY <3>1, <3>2
  <2>9. NativeMax = Lba(truth.hi, OrLow(truth.lo - Byte0(truth.lo), Byte0(truth.lo) + 1))
    BY <2>7, <2>8 DEF NativeMax
  <2>10. QED
    BY <2>1, <2>3, <2>9, OrLowRight
<1>3. QInv => CapacityTold
  BY <1>1, <1>2 DEF CapacityTold
<1>4. QED
  BY <1>3, CallsKnown, PTL

-----------------------------------------------------------------------------
(* Sanitizing *)

\* Every key and every pattern of 32 bits behind its key fits into the
\* registers.
LEMMA KeysFit ==
  ASSUME NEW feature \in Features \ {"overwrite"}
  PROVE  /\ SanitizeKey[feature] = Lba(SanitizeKey[feature].hi, SanitizeKey[feature].lo)
         /\ SanitizeKey[feature].hi \in Nat /\ SanitizeKey[feature].hi < Lo
         /\ SanitizeKey[feature].lo \in Nat /\ SanitizeKey[feature].lo < Lo
  BY SMT DEF Features, SanitizeKey, Lba, Zero, Lo

LEMMA OverwriteFits ==
  ASSUME NEW hi \in Nat, hi < 256, NEW lo \in Nat, lo < Lo
  PROVE  /\ OverwriteLba(Lba(hi, lo)) = Lba((256 * 20311) + hi, lo)
         /\ (256 * 20311) + hi < Lo
         /\ ((256 * 20311) + hi) \div 256 = 20311 /\ ((256 * 20311) + hi) % 256 = hi
<1>1. OverwriteLba(Lba(hi, lo)) = Lba((256 * 20311) + hi, lo)
  BY SMT DEF OverwriteLba, Lba
<1>2. (256 * 20311) + hi < Lo
  BY SMT DEF Lo
<1>3. ((256 * 20311) + hi) \div 256 = 20311 /\ ((256 * 20311) + hi) % 256 = hi
  BY SMT
<1>4. QED
  BY <1>1, <1>2, <1>3

\* What a sanitize command of ATA says, for every pattern of 32 bits and every
\* number of passes.
LEMMA AtaSanitizeRight ==
  ASSUME tf = SanitizeTf, call.p.feature \in Features, call.p.pass \in Nat, call.p.keep \in BOOLEAN,
         NEW h \in Nat, h < 256, NEW l \in Nat, l < Lo, call.p.pattern = Lba(h, l)
  PROVE  /\ AtaReads.feature = {call.p.feature} /\ AtaReads.keep = call.p.keep
         /\ call.p.feature = "overwrite" =>
              AtaReads.pattern = call.p.pattern /\ (call.p.pass \in 1 .. 16 => AtaReads.passes = call.p.pass)
<1> DEFINE p == call.p
           lba == IF p.feature = "overwrite" THEN OverwriteLba(p.pattern) ELSE SanitizeKey[p.feature]
           L == [feat |-> SanitizeFeat[p.feature],
                 nsect |-> IF p.feature = "overwrite" THEN 128 + (p.pass % 16) ELSE 0,
                 lbal |-> Byte0(lba.lo), lbam |-> Byte1(lba.lo), lbah |-> Byte2(lba.lo)]
           H == [feat |-> 0, nsect |-> IF p.keep THEN 128 ELSE 0,
                 lbal |-> Byte0(lba.hi), lbam |-> Byte1(lba.hi), lbah |-> Byte2(lba.hi)]
           t == tf_init(ATA_OP_SANITIZE, Zero, 0)
<1>1. tf = [t EXCEPT !.ext = TRUE, !.lob = L, !.hob = H]
  BY DEF SanitizeTf
<1>2. DOMAIN t = {"command", "ext", "dev", "lob", "hob"}
  BY InitShape
<1>3. /\ lba = Lba(lba.hi, lba.lo) /\ lba.hi \in Nat /\ lba.hi < Lo /\ lba.lo \in Nat /\ lba.lo < Lo
      /\ p.feature = "overwrite" => /\ lba.hi \div 256 = 20311 /\ lba.hi % 256 = h /\ lba.lo = l
  <2>1. CASE p.feature = "overwrite"
    <3>1. lba = Lba((256 * 20311) + h, l)
      BY <2>1, OverwriteFits
    <3> HIDE DEF lba
    <3>2. lba.hi = (256 * 20311) + h /\ lba.lo = l
      BY Z3, <3>1 DEF Lba
    <3>3. QED
      BY <3>1, <3>2, OverwriteFits
  <2>2. CASE p.feature # "overwrite"
    BY <2>2, KeysFit
  <2>3. QED
    BY <2>1, <2>2
<1>4. /\ L.feat = SanitizeFeat[p.feature]
      /\ L.nsect = IF p.feature = "overwrite" THEN 128 + (p.pass % 16) ELSE 0
      /\ L.lbal = Byte0(lba.lo) /\ L.lbam = Byte1(lba.lo) /\ L.lbah = Byte2(lba.lo)
      /\ H.nsect = IF p.keep THEN 128 ELSE 0
      /\ H.lbal = Byte0(lba.hi) /\ H.lbam = Byte1(lba.hi) /\ H.lbah = Byte2(lba.hi)
  OBVIOUS
<1> HIDE DEF L, H, t
<1>5. tf.ext = TRUE /\ tf.lob = L /\ tf.hob = H
  BY <1>1, <1>2
<1> HIDE DEF lba
<1>6. Whole(L) = lba.lo /\ Whole(H) = lba.hi
  BY SMT, <1>3, <1>4, BytesAreWhole DEF Whole
<1>7. tf_to_lba(tf) = lba
  BY <1>3, <1>5, <1>6 DEF tf_to_lba
<1>8. (tf.lob.feat = 20 /\ lba.hi \div 256 = 20311) <=> p.feature = "overwrite"
  <2>1. \A f \in Features : SanitizeFeat[f] = 20 <=> f = "overwrite"
    BY DEF Features, SanitizeFeat
  <2>2. tf.lob.feat = SanitizeFeat[p.feature] /\ p.feature \in Features
    BY <1>4, <1>5
  <2>3. QED
    BY <1>3, <2>1, <2>2
<1>9. AtaReads.feature = {p.feature}
  <2>1. AtaReads.feature = IF p.feature = "overwrite" THEN {"overwrite"}
                           ELSE {f \in Features \ {"overwrite"} :
                                   SanitizeFeat[f] = tf.lob.feat /\ SanitizeKey[f] = lba}
    BY <1>7, <1>8 DEF AtaReads
  <2>2. CASE p.feature = "overwrite"
    BY <2>1, <2>2
  <2>3. CASE p.feature # "overwrite"
    <3>1. \A f, g \in Features : SanitizeFeat[f] = SanitizeFeat[g] => f = g
      BY DEF Features, SanitizeFeat
    <3>2. lba = SanitizeKey[p.feature]
      BY <2>3 DEF lba
    <3>3. \A f \in Features \ {"overwrite"} :
            SanitizeFeat[f] = tf.lob.feat /\ SanitizeKey[f] = lba <=> f = p.feature
      BY <1>4, <1>5, <3>1, <3>2
    <3>4. QED
      BY <2>1, <2>3, <3>3
  <2>4. QED
    BY <2>2, <2>3
<1>10. AtaReads.keep = p.keep
  <2>1. AtaReads.keep = (tf.hob.nsect >= 128)
    <3> DEFINE read == tf_to_lba(tf)
               over == tf.lob.feat = 20 /\ read.hi \div 256 = 20311
               a == IF over THEN {"overwrite"}
                    ELSE {f \in Features \ {"overwrite"} : SanitizeFeat[f] = tf.lob.feat /\ SanitizeKey[f] = read}
               b == IF tf.lob.nsect % 16 = 0 THEN 16 ELSE tf.lob.nsect % 16
               c == IF over THEN Lba(read.hi % 256, read.lo) ELSE Zero
               k == tf.hob.nsect >= 128
    <3>1. AtaReads = [feature |-> a, passes |-> b, pattern |-> c, keep |-> k]
      BY SMT DEF AtaReads
    <3> HIDE DEF a, b, c, k
    <3>2. AtaReads.keep = k
      BY Zenon, <3>1
    <3>3. QED
      BY Zenon, <3>2 DEF k
  <2>2. AtaReads.keep \in BOOLEAN
    BY <2>1
  <2>3. tf.hob.nsect >= 128 <=> p.keep
    BY <1>4, <1>5
  <2>4. QED
    BY <2>1, <2>2, <2>3
<1>11. ASSUME p.feature = "overwrite" PROVE AtaReads.pattern = p.pattern
  <2>1. AtaReads.pattern = Lba(lba.hi % 256, lba.lo)
    BY <1>7, <1>8, <1>11 DEF AtaReads
  <2>2. QED
    BY <1>3, <1>11, <2>1
<1>12. ASSUME p.feature = "overwrite", p.pass \in 1 .. 16 PROVE AtaReads.passes = p.pass
  <2>1. tf.lob.nsect = 128 + (p.pass % 16)
    BY <1>4, <1>5, <1>12
  <2>2. (128 + (p.pass % 16)) % 16 = p.pass % 16
    BY <1>12
  <2>3. AtaReads.passes = IF p.pass % 16 = 0 THEN 16 ELSE p.pass % 16
    BY <2>1, <2>2 DEF AtaReads
  <2>4. QED
    BY <1>12, <2>3
<1>13. QED
  BY <1>9, <1>10, <1>11, <1>12

\* And what one of NVMe says.
LEMMA NvmeSanitizeRight ==
  ASSUME tf = SanitizeNvme, call.p.feature \in {"crypto", "block", "overwrite"}, call.p.pass \in Nat,
         call.p.keep \in BOOLEAN
  PROVE  /\ NvmeReads.feature = {call.p.feature} /\ NvmeReads.keep = call.p.keep
         /\ call.p.feature = "overwrite" =>
              NvmeReads.pattern = call.p.pattern /\ (call.p.pass \in 1 .. 16 => NvmeReads.passes = call.p.pass)
<1> DEFINE p == call.p
           act == CASE p.feature = "crypto" -> 4 [] p.feature = "block" -> 2 [] p.feature = "overwrite" -> 3
           passes == IF p.feature # "overwrite" THEN 0 ELSE IF p.pass > 0 THEN p.pass % 16 ELSE 1
           keep == IF p.keep THEN 1 ELSE 0
<1>1. /\ tf.cdw10 = (IF p.keep THEN 512 ELSE 0) + act + (16 * passes)
      /\ tf.cdw11 = IF p.feature = "overwrite" THEN p.pattern ELSE Zero
  BY DEF SanitizeNvme
<1>2. /\ p.feature = "crypto" => act = 4
      /\ p.feature = "block" => act = 2
      /\ p.feature = "overwrite" => act = 3
  OBVIOUS
<1>3. passes \in 0 .. 15 /\ keep \in {0, 1}
  OBVIOUS
<1>4. (IF p.keep THEN 512 ELSE 0) = 512 * keep
  OBVIOUS
<1> HIDE DEF act
<1>5. act \in {2, 3, 4}
  BY <1>2
<1> HIDE DEF passes, keep
<1>6. tf.cdw10 = (512 * keep) + act + (16 * passes)
  BY <1>1, <1>4
<1>7. /\ tf.cdw10 % 8 = act
      /\ (tf.cdw10 \div 16) % 16 = passes
      /\ (tf.cdw10 \div 512) % 2 = keep
  BY <1>3, <1>5, <1>6
<1>8. NvmeReads.feature = {p.feature}
  <2>1. NvmeReads.feature = CASE act = 4 -> {"crypto"} [] act = 2 -> {"block"} [] act = 3 -> {"overwrite"}
    BY <1>7 DEF NvmeReads
  <2>2. CASE p.feature = "crypto"
    BY <1>2, <2>1, <2>2
  <2>3. CASE p.feature = "block"
    BY <1>2, <2>1, <2>3
  <2>4. CASE p.feature = "overwrite"
    BY <1>2, <2>1, <2>4
  <2>5. QED
    BY <2>2, <2>3, <2>4
<1>9. NvmeReads.keep = p.keep
  <2>1. (NvmeReads.keep <=> keep = 1) /\ NvmeReads.keep \in BOOLEAN
    BY <1>7 DEF NvmeReads
  <2>2. keep = 1 <=> p.keep
    BY DEF keep
  <2>3. QED
    BY <2>1, <2>2
<1>10. ASSUME p.feature = "overwrite" PROVE NvmeReads.pattern = p.pattern
  BY <1>1, <1>10 DEF NvmeReads
<1>11. ASSUME p.feature = "overwrite", p.pass \in 1 .. 16 PROVE NvmeReads.passes = p.pass
  <2>1. NvmeReads.passes = IF passes = 0 THEN 16 ELSE passes
    BY <1>7 DEF NvmeReads
  <2>2. passes = p.pass % 16
    BY <1>11 DEF passes
  <2>3. QED
    BY <1>11, <2>1, <2>2
<1>12. QED
  BY <1>8, <1>9, <1>10, <1>11

\* What a drive is told to sanitize is what the program asked for.
THEOREM SanitizedAsAsked == QSpec => []SanitizeAsAsked
<1>1. ASSUME QInv, step = "sent", call.method = "sanitize"
      PROVE  /\ call.driving \in {"ata", "nvme"}
             /\ call.driving = "ata" => tf = SanitizeTf
             /\ call.driving = "nvme" => tf = SanitizeNvme /\ call.p.feature \in {"crypto", "block", "overwrite"}
             /\ call.p \in [feature : Features, pass : {0, 1, 15, 16, 17}, pattern : Patterns, keep : BOOLEAN]
  <2>1. call.p \in Parameters("sanitize", call.driving)
    BY <1>1 DEF QInv, CallKnown
  <2>2. QED
    BY <1>1, <2>1 DEF QInv, CommandInv, AtaSanitizeInv, NvmeSanitizeInv, Parameters
<1>2. ASSUME NEW pattern \in Patterns
      PROVE  \E h \in Nat, l \in Nat : h < 256 /\ l < Lo /\ pattern = Lba(h, l)
  <2>1. 0 < 256 /\ 0 < Lo /\ 171 < 256 /\ 12356812 < Lo /\ 171 \in Nat /\ 12356812 \in Nat
    BY SMT DEF Lo
  <2>2. pattern = Lba(0, 0) \/ pattern = Lba(171, 12356812)
    BY SMT DEF Patterns, Zero
  <2> HIDE DEF Lba, Lo
  <2>3. QED
    BY SMT, <2>1, <2>2
<1>3. ASSUME QInv, step = "sent", call.method = "sanitize", call.driving = "ata"
      PROVE  /\ AtaReads.feature = {call.p.feature} /\ AtaReads.keep = call.p.keep
             /\ call.p.feature = "overwrite" =>
                  /\ AtaReads.pattern = call.p.pattern
                  /\ call.p.pass \in 1 .. 16 => AtaReads.passes = call.p.pass
  <2>1. /\ tf = SanitizeTf /\ call.p.feature \in Features /\ call.p.pass \in Nat
        /\ call.p.keep \in BOOLEAN /\ call.p.pattern \in Patterns
    BY <1>1, <1>3
  <2>2. PICK h \in Nat, l \in Nat : h < 256 /\ l < Lo /\ call.p.pattern = Lba(h, l)
    BY <1>2, <2>1
  <2>3. QED
    BY <2>1, <2>2, AtaSanitizeRight
<1>4. ASSUME QInv, step = "sent", call.method = "sanitize", call.driving = "nvme"
      PROVE  /\ NvmeReads.feature = {call.p.feature} /\ NvmeReads.keep = call.p.keep
             /\ call.p.feature = "overwrite" =>
                  /\ NvmeReads.pattern = call.p.pattern
                  /\ call.p.pass \in 1 .. 16 => NvmeReads.passes = call.p.pass
  <2>1. /\ tf = SanitizeNvme /\ call.p.feature \in {"crypto", "block", "overwrite"}
        /\ call.p.pass \in Nat /\ call.p.keep \in BOOLEAN
    BY <1>1, <1>4
  <2>2. QED
    BY <2>1, NvmeSanitizeRight
<1>5. QInv => SanitizeAsAsked
  <2> SUFFICES ASSUME QInv, step = "sent", call.method = "sanitize" PROVE SanitizeAsAsked
    BY DEF SanitizeAsAsked
  <2>1. CASE call.driving = "ata"
    BY <1>3, <2>1 DEF SanitizeAsAsked
  <2>2. CASE call.driving = "nvme"
    BY <1>4, <2>2 DEF SanitizeAsAsked
  <2>3. QED
    BY <1>1, <2>1, <2>2
<1>6. QED
  BY <1>5, CallsKnown, PTL

\* The registers of a sanitize command.
LEMMA SanitizeShape ==
  /\ DOMAIN SanitizeTf = {"command", "ext", "dev", "lob", "hob"}
  /\ DOMAIN SanitizeTf.lob = {"feat", "nsect", "lbal", "lbam", "lbah"}
  /\ DOMAIN SanitizeTf.hob = {"feat", "nsect", "lbal", "lbam", "lbah"}
  /\ SanitizeTf.hob.nsect = IF call.p.keep THEN 128 ELSE 0
<1> DEFINE p == call.p
           lba == IF p.feature = "overwrite" THEN OverwriteLba(p.pattern) ELSE SanitizeKey[p.feature]
           L == [feat |-> SanitizeFeat[p.feature],
                 nsect |-> IF p.feature = "overwrite" THEN 128 + (p.pass % 16) ELSE 0,
                 lbal |-> Byte0(lba.lo), lbam |-> Byte1(lba.lo), lbah |-> Byte2(lba.lo)]
           H == [feat |-> 0, nsect |-> IF p.keep THEN 128 ELSE 0,
                 lbal |-> Byte0(lba.hi), lbam |-> Byte1(lba.hi), lbah |-> Byte2(lba.hi)]
           t == tf_init(ATA_OP_SANITIZE, Zero, 0)
<1>1. SanitizeTf = [t EXCEPT !.ext = TRUE, !.lob = L, !.hob = H]
  BY DEF SanitizeTf
<1>2. DOMAIN t = {"command", "ext", "dev", "lob", "hob"}
  BY InitShape
<1> HIDE DEF t, lba
<1>3. /\ DOMAIN L = {"feat", "nsect", "lbal", "lbam", "lbah"}
      /\ DOMAIN H = {"feat", "nsect", "lbal", "lbam", "lbah"}
      /\ H.nsect = IF p.keep THEN 128 ELSE 0
  OBVIOUS
<1> HIDE DEF L, H
<1>4. DOMAIN SanitizeTf = DOMAIN t /\ SanitizeTf.lob = L /\ SanitizeTf.hob = H
  BY <1>1, <1>2
<1>5. QED
  BY <1>2, <1>3, <1>4

\* Zeros in the count register are no state.
LEMMA NoStates == SanitizeStates(0) = {}
<1>1. {g \in Flags : (0 \div FlagBit[g]) % 2 = 1} = {}
  BY DEF Flags, FlagBit
<1>2. QED
  BY <1>1 DEF SanitizeStates

\* The state of sanitizing is read from the registers or the log page.
LEMMA StatusIsRight == QInv => StatusIsTheDrives
<1> SUFFICES ASSUME QInv, step = "told", answer.code = "OK", "states" \in DOMAIN answer
             PROVE  StatusIsTheDrives
  BY DEF StatusIsTheDrives
<1>1. call.method = "sanitize"
  BY DEF QInv, CommandInv
<1>2. CASE call.driving = "ata"
  <2>1. /\ whose = "drive" => tf = SanitizeReturned
        /\ whose = "caller" => tf = SanitizeTf
        /\ answer = SanitizeAnswer
    BY <1>1, <1>2 DEF QInv, AtaSanitizeInv
  <2>2. code = "OK"
    <3>1. SUFFICES ASSUME code # "OK" PROVE FALSE
      OBVIOUS
    <3>2. answer = [code |-> code]
      BY <2>1, <3>1 DEF SanitizeAnswer
    <3>3. QED
      BY <3>1, <3>2
  <2>3. /\ answer.states = SanitizeStates(tf.hob.nsect)
        /\ answer.progress = Progress(tf.lob.lbal + (256 * tf.lob.lbam))
    BY <2>1, <2>2 DEF SanitizeAnswer
  <2>4. /\ DOMAIN SanitizeTf = {"command", "ext", "dev", "lob", "hob"}
        /\ DOMAIN SanitizeTf.lob = {"feat", "nsect", "lbal", "lbam", "lbah"}
        /\ DOMAIN SanitizeTf.hob = {"feat", "nsect", "lbal", "lbam", "lbah"}
        /\ SanitizeTf.hob.nsect = IF call.p.keep THEN 128 ELSE 0
    BY SanitizeShape
  <2>5. truth \in [flags : SUBSET Flags, progress : {0, 258, 65535}]
    <3>1. truth \in Truths("sanitize", "ata")
      BY <1>1, <1>2 DEF QInv, CallKnown
    <3>2. QED
      BY <3>1 DEF Truths
  <2>6. ASSUME whose = "drive"
        PROVE  /\ answer.states = UNION {State[f] : f \in truth.flags}
               /\ answer.progress = IF truth.progress = 65535 THEN -1 ELSE truth.progress
    <3>1. tf = SanitizeReturned
      BY <2>1, <2>6
    <3>2. /\ tf.hob = [InBank(0, SanitizeTf.hob) EXCEPT !.nsect = BitSum(truth.flags)]
          /\ tf.lob = InBank(truth.progress, SanitizeTf.lob)
      BY <2>4, <3>1 DEF SanitizeReturned
    <3>3. "nsect" \in DOMAIN InBank(0, SanitizeTf.hob)
      BY <2>4 DEF InBank
    <3>4. tf.hob.nsect = BitSum(truth.flags)
      BY <3>2, <3>3
    <3>5. tf.lob.lbal = Byte0(truth.progress) /\ tf.lob.lbam = Byte1(truth.progress)
      BY <2>4, <3>2 DEF InBank
    <3>6. truth.flags \in SUBSET Flags /\ truth.progress \in {0, 258, 65535}
      BY <2>5
    <3>7. Byte0(truth.progress) + (256 * Byte1(truth.progress)) = truth.progress
      BY SMT, <3>6 DEF Byte0, Byte1
    <3>8. answer.states = UNION {State[f] : f \in truth.flags}
      BY <2>3, <3>4, <3>6, FlagsAreBits DEF SanitizeStates
    <3>9. answer.progress = IF truth.progress = 65535 THEN -1 ELSE truth.progress
      BY SMT, <2>3, <3>5, <3>7 DEF Progress
    <3>10. QED
      BY <3>8, <3>9
  <2>7. ASSUME whose = "caller"
        PROVE  answer.states = IF call.p.keep THEN {"Idle", "Succeeded"} ELSE {}
    <3>1. tf.hob.nsect = IF call.p.keep THEN 128 ELSE 0
      BY <2>1, <2>4, <2>7
    <3>2. CASE call.p.keep
      <4>1. {g \in Flags : (128 \div FlagBit[g]) % 2 = 1} = {"succeeded"}
        <5>1. \A g \in Flags : (128 \div FlagBit[g]) % 2 = 1 <=> g = "succeeded"
          BY DEF Flags, FlagBit
        <5>2. "succeeded" \in Flags
          BY DEF Flags
        <5>3. QED
          BY <5>1, <5>2
      <4>2. UNION {State[f] : f \in {"succeeded"}} = State["succeeded"]
        OBVIOUS
      <4>3. State["succeeded"] = {"Idle", "Succeeded"}
        BY DEF State
      <4>4. QED
        BY <2>3, <3>1, <3>2, <4>1, <4>2, <4>3 DEF SanitizeStates
    <3>3. CASE ~call.p.keep
      <4>1. SanitizeStates(0) = {}
        BY NoStates
      <4>2. QED
        BY <2>3, <3>1, <3>3, <4>1
    <3>4. QED
      BY <3>2, <3>3
  <2>8. tf.hob.nsect = 0 => answer.states = {}
    BY <2>3, NoStates
  <2>9. QED
    BY <1>2, <2>6, <2>7, <2>8 DEF StatusIsTheDrives
<1>3. CASE call.driving # "ata"
  <2>1. call.driving = "nvme"
    BY <1>1, <1>3 DEF QInv, CommandInv
  <2>2. answer.states = SanitizeStatus.states
    BY <1>1, <2>1 DEF QInv, NvmeSanitizeInv
  <2>3. truth \in [sstat : 0 .. 7, progress : {0, 258, 65535}]
    <3>1. truth \in Truths("sanitize", "nvme")
      BY <1>1, <2>1 DEF QInv, CallKnown
    <3>2. QED
      BY <3>1 DEF Truths
  <2> DEFINE s == truth.sstat
  <2>4. s \in 0 .. 7
    BY <2>3
  <2>5. SanitizeStatus.states =
          CASE s = 0 -> {"Idle"} [] s = 1 -> {"Idle", "Succeeded"}
            [] s = 2 -> {"InProgress"} [] s = 3 -> {"Idle", "Failed"} [] OTHER -> {}
    BY DEF SanitizeStatus
  <2> HIDE DEF s
  <2>6. /\ "InProgress" \in answer.states <=> s = 2
        /\ "Succeeded" \in answer.states <=> s = 1
        /\ "Failed" \in answer.states <=> s = 3
        /\ "Idle" \in answer.states <=> s \in {0, 1, 3}
    BY <2>2, <2>4, <2>5
  <2>7. QED
    BY <1>3, <2>6 DEF StatusIsTheDrives, s
<1>4. QED
  BY <1>2, <1>3

\* The estimates in seconds, and the negative ones.
LEMMA EstimatesAreRight == QInv => EstimatesTold
<1> SUFFICES ASSUME QInv, step = "told", call.method = "estimates", answer.code = "OK"
             PROVE  EstimatesTold
  BY DEF EstimatesTold
<1>1. call.p \in Parameters("estimates", call.driving)
  BY DEF QInv, CallKnown
<1>2. CASE call.driving = "nvme"
  <2>1. answer.seconds = nvmeEstToSeconds(call.p.time)
    BY <1>2 DEF QInv, EstimatesInv
  <2>2. call.p.time \in {0, 5, (Word32 \div 2) - 1, Word32 \div 2, Word32 - 1}
    BY <1>1, <1>2 DEF Parameters
  <2>3. Word32 \in Nat /\ Word32 > 5
    BY QueriesAssumption
  <2>4. call.p.time \in Nat /\ call.p.time < Word32
    BY <2>2, <2>3
  <2>5. /\ answer.seconds = -1 <=> call.p.time = Word32 - 1
        /\ answer.seconds < 0 <=> call.p.time >= Word32 \div 2
        /\ answer.seconds >= 0 => answer.seconds = call.p.time
    BY <2>1, <2>3, <2>4 DEF nvmeEstToSeconds
  <2>6. QED
    BY <1>2, <2>5 DEF EstimatesTold
<1>3. CASE call.driving # "nvme"
  <2>1. /\ call.driving = "ata"
        /\ answer.seconds = IF call.p.supported THEN ataEstToSeconds(call.p.time, call.p.extended) ELSE -1
    BY <1>3 DEF QInv, EstimatesInv
  <2>2. call.p.supported \in BOOLEAN /\ call.p.extended \in BOOLEAN /\ call.p.time \in Times
    BY <1>1, <2>1 DEF Parameters
  <2>3. call.p.time \in Nat
    BY SMT, <2>2 DEF Times
  <2>4. /\ answer.seconds = -1 <=> ~call.p.supported \/ call.p.time = 0
        /\ answer.seconds < -1 <=>
             call.p.supported /\ call.p.time >= (IF call.p.extended THEN 32767 ELSE 255)
        /\ answer.seconds >= 0 => answer.seconds = call.p.time * (IF call.p.extended THEN 2 ELSE 120)
    BY SMT, <2>1, <2>2, <2>3 DEF ataEstToSeconds
  <2>5. QED
    BY SMT, <1>3, <2>4 DEF EstimatesTold
<1>4. QED
  BY <1>2, <1>3

\* The program is told of sanitizing what the drive says, where the driver
\* returned the drive's registers and the estimate is a time; what it is told
\* elsewhere is as the property says.
THEOREM SanitizingTold == QSpec => []SanitizeTold
<1>1. QInv => SanitizeTold
  BY StatusIsRight, EstimatesAreRight DEF SanitizeTold
<1>2. QED
  BY <1>1, CallsKnown, PTL

-----------------------------------------------------------------------------
(* Identities *)

LEMMA LeastIs ==
  ASSUME NEW S \in SUBSET Int, NEW m \in S, \A y \in S : m <= y
  PROVE  Min(S) = m
<1>1. \A x \in S : (\A y \in S : x <= y) => x = m
  OBVIOUS
<1>2. QED
  BY <1>1 DEF Min

LEMMA GreatestIs ==
  ASSUME NEW S \in SUBSET Int, NEW m \in S, \A y \in S : m >= y
  PROVE  Max(S) = m
<1>1. \A x \in S : (\A y \in S : x >= y) => x = m
  OBVIOUS
<1>2. QED
  BY <1>1 DEF Max

LEMMA FunctionsAreSequences ==
  ASSUME NEW C, NEW n \in Nat, NEW f \in [1 .. n -> C]
  PROVE  f \in Seq(C) /\ Len(f) = n
<1>1. f \in UNION {[1 .. m -> C] : m \in Nat}
  OBVIOUS
<1>2. f \in Seq(C)
  BY <1>1, SeqDef
<1>3. QED
  BY <1>2

\* Characters that are swapped twice are where they were.
LEMMA SwappedTwice ==
  ASSUME NEW C, NEW f \in [1 .. 6 -> C]
  PROVE  Swapped(Swapped(f)) = f
<1>1. DOMAIN Swapped(f) = 1 .. 6
  BY DEF Swapped
<1>2. \A i \in 1 .. 6 : Swapped(f)[i] = IF i % 2 = 1 THEN f[i + 1] ELSE f[i - 1]
  BY DEF Swapped
<1>3. \A i \in 1 .. 6 :
        Swapped(Swapped(f))[i] = IF i % 2 = 1 THEN Swapped(f)[i + 1] ELSE Swapped(f)[i - 1]
  BY <1>1 DEF Swapped
<1>4. DOMAIN Swapped(Swapped(f)) = 1 .. 6
  BY <1>1 DEF Swapped
<1>5. \A i \in 1 .. 6 : Swapped(Swapped(f))[i] = f[i]
  <2>1. SUFFICES ASSUME NEW i \in 1 .. 6 PROVE Swapped(Swapped(f))[i] = f[i]
    OBVIOUS
  <2>2. CASE i % 2 = 1
    <3>1. i + 1 \in 1 .. 6 /\ (i + 1) % 2 # 1 /\ (i + 1) - 1 = i
      BY <2>2
    <3>2. QED
      BY <1>2, <1>3, <2>2, <3>1
  <2>3. CASE i % 2 # 1
    <3>1. i - 1 \in 1 .. 6 /\ (i - 1) % 2 = 1 /\ (i - 1) + 1 = i
      BY <2>3
    <3>2. QED
      BY <1>2, <1>3, <2>3, <3>1
  <2>4. QED
    BY <2>2, <2>3
<1>6. Swapped(Swapped(f)) = [i \in DOMAIN Swapped(f) |-> Swapped(Swapped(f))[i]]
  BY DEF Swapped
<1>7. QED
  BY <1>1, <1>5, <1>6

\* What a field says that is not blank: a text without blanks around it.
IsText(text, Char) ==
  /\ text \in Seq(Char)
  /\ \A i \in DOMAIN text : text[i] # NUL
  /\ text # <<>> => text[1] # Space /\ text[Len(text)] # Space

\* What is read of a text with blanks before it: both, or nothing if there is no
\* text.
ReadsAs(s, text, left, Char) ==
  /\ s \in Seq(Char \cup {Space, NUL})
  /\ text = <<>> => s = <<>>
  /\ text # <<>> =>
       /\ Len(s) = left + Len(text)
       /\ \A i \in 1 .. left + Len(text) : s[i] = IF i <= left THEN Space ELSE text[i - left]

\* Reading a field drops what is behind the text, wherever the text begins and
\* however it ends; if there is no text, nothing is left.
LEMMA FieldRead ==
  ASSUME NEW Char, NEW text, IsText(text, Char), NEW left \in Nat, left + Len(text) <= 6,
         NEW end \in {Space, NUL}
  PROVE  ReadsAs(readString(Field(text, left, end)), text, left, Char)
<1> DEFINE f == Field(text, left, end)
           C == Char \cup {Space, NUL}
           n == Len(text)
           nuls == {i \in DOMAIN f : f[i] = NUL} \cup {Len(f) + 1}
           g == UpToNul(f)
           used == {i \in DOMAIN g : g[i] # Space} \cup {0}
<1>1. n \in Nat /\ DOMAIN text = 1 .. n /\ \A i \in 1 .. n : text[i] \in Char /\ text[i] # NUL
  BY DEF IsText
<1>2. Space # NUL
  BY DEF Space, NUL
<1>3. /\ DOMAIN f = 1 .. 6
      /\ \A i \in 1 .. 6 : f[i] = IF i <= left THEN Space
                                  ELSE IF i - left \in 1 .. n THEN text[i - left]
                                  ELSE IF i - left = n + 1 THEN end ELSE Space
  BY <1>1 DEF Field
<1>4. \A i \in 1 .. 6 : f[i] \in C
  BY <1>1, <1>3
<1>5. f \in Seq(C) /\ Len(f) = 6
  <2>1. f = [i \in 1 .. 6 |-> f[i]]
    BY DEF Field
  <2> HIDE DEF f, C
  <2>2. f \in [1 .. 6 -> C]
    BY <1>4, <2>1
  <2>3. f \in Seq(C)
    BY <2>2, 6 \in Nat, FunctionsAreSequences
  <2>4. Len(f) = 6
    BY <2>2, 6 \in Nat, FunctionsAreSequences
  <2>5. QED
    BY <2>3, <2>4
<1> HIDE DEF f, C
\* The first NUL is behind the text.
<1>6. \E k \in left + n + 1 .. 7 :
        /\ Min(nuls) = k
        /\ \A i \in 1 .. k - 1 : i > left + n => f[i] = Space
  <2>1. nuls \in SUBSET Int
    BY <1>3, <1>5
  <2>2. \A i \in 1 .. 6 : f[i] = NUL => i = left + n + 1 /\ end = NUL
    <3>1. SUFFICES ASSUME NEW i \in 1 .. 6, f[i] = NUL PROVE i = left + n + 1 /\ end = NUL
      OBVIOUS
    <3>2. i > left
      BY <1>2, <1>3, <3>1
    <3>3. i - left \notin 1 .. n
      BY <1>1, <1>3, <3>1, <3>2
    <3>4. i - left = n + 1
      BY <1>1, <1>2, <1>3, <3>1, <3>2, <3>3
    <3>5. QED
      BY <1>1, <1>3, <3>1, <3>2, <3>3, <3>4
  <2>3. CASE end = NUL /\ left + n < 6
    <3> DEFINE k == left + n + 1
    <3>1. k \in 1 .. 6 /\ f[k] = NUL
      BY <1>1, <1>3, <2>3
    <3>2. k \in nuls /\ \A y \in nuls : k <= y
      BY <1>1, <1>3, <1>5, <2>2, <3>1
    <3>3. Min(nuls) = k
      <4> HIDE DEF nuls, k
      <4>1. QED
        BY <2>1, <3>2, LeastIs
    <3>4. k \in left + n + 1 .. 7 /\ \A i \in 1 .. k - 1 : ~(i > left + n)
      BY <1>1, <2>3
    <3> HIDE DEF k
    <3>5. QED
      BY <3>3, <3>4
  <2>4. CASE ~(end = NUL /\ left + n < 6)
    <3>1. \A i \in 1 .. 6 : f[i] # NUL
      BY <1>1, <2>2, <2>4
    <3>2. nuls = {7}
      BY <1>3, <1>5, <3>1
    <3>3. Min(nuls) = 7
      <4>1. 7 \in nuls /\ \A y \in nuls : 7 <= y
        BY <3>2
      <4> HIDE DEF nuls
      <4>2. QED
        BY <2>1, <4>1, LeastIs
    <3>4. \A i \in 1 .. 6 : i > left + n => f[i] = Space
      BY <1>1, <1>2, <1>3, <2>4
    <3>5. 7 \in left + n + 1 .. 7 /\ 7 - 1 = 6
      BY <1>1
    <3> HIDE DEF nuls
    <3>6. QED
      BY <3>3, <3>4, <3>5
  <2>5. QED
    BY <2>3, <2>4
<1>7. PICK k \in left + n + 1 .. 7 :
        /\ Min(nuls) = k
        /\ \A i \in 1 .. k - 1 : i > left + n => f[i] = Space
  BY <1>6
<1>8. /\ g \in Seq(C) /\ Len(g) = k - 1
      /\ \A i \in 1 .. k - 1 : g[i] = f[i]
  <2>1. g = SubSeq(f, 1, k - 1)
    BY <1>7 DEF UpToNul
  <2>2. k - 1 \in 0 .. 6
    BY <1>1
  <2> HIDE DEF g, nuls
  <2>3. QED
    BY <1>5, <2>1, <2>2, SubSeqProperties
<1> HIDE DEF g, nuls
\* The last character that is no blank ends the text.
<1>9. used \in SUBSET Int /\ DOMAIN g = 1 .. k - 1
  BY <1>1, <1>8
<1>10. Max(used) = IF text = <<>> THEN 0 ELSE left + n
  <2>1. \A i \in 1 .. k - 1 : i > left + n => g[i] = Space
    BY <1>7, <1>8
  <2>2. \A y \in used : y <= left + n
    BY <1>1, <1>9, <2>1
  <2>3. CASE text = <<>>
    <3>1. n = 0
      BY <2>3
    <3>2. \A i \in 1 .. k - 1 : g[i] = Space
      <4>1. \A i \in 1 .. k - 1 : i <= left => f[i] = Space
        BY <1>1, <1>3, <1>7
      <4>2. QED
        BY <1>1, <1>7, <1>8, <2>1, <3>1, <4>1
    <3>3. used = {0}
      BY <1>9, <3>2
    <3>4. QED
      BY <2>3, <3>3, GreatestIs
  <2>4. CASE text # <<>>
    <3>1. n > 0 /\ text[n] # Space
      BY <1>1, <2>4 DEF IsText
    <3>2. left + n \in 1 .. k - 1 /\ f[left + n] = text[n]
      <4>1. /\ left + n \in 1 .. k - 1 /\ left + n \in 1 .. 6
            /\ ~(left + n <= left) /\ (left + n) - left = n /\ n \in 1 .. n
        BY <1>1, <1>7, <3>1
      <4>2. QED
        BY <1>3, <4>1
    <3>3. left + n \in used
      BY <1>8, <1>9, <3>1, <3>2
    <3> HIDE DEF used
    <3>4. Max(used) = left + n
      BY <1>9, <2>2, <3>3, GreatestIs
    <3>5. QED
      BY <2>4, <3>4
  <2>5. QED
    BY <2>3, <2>4
<1>11. readString(f) = SubSeq(g, 1, IF text = <<>> THEN 0 ELSE left + n)
  BY <1>10 DEF readString, TrimRight, g
<1>12. CASE text = <<>>
  <2>1. readString(f) = SubSeq(g, 1, 0)
    BY <1>11, <1>12
  <2>2. readString(f) \in Seq(C) /\ Len(readString(f)) = 0
    BY <1>8, <2>1, SubSeqProperties
  <2>3. readString(f) = <<>>
    BY <2>2
  <2>4. QED
    BY <1>12, <2>2, <2>3 DEF f, C, ReadsAs
<1>13. CASE text # <<>>
  <2>1. readString(f) = SubSeq(g, 1, left + n) /\ left + n \in 0 .. k - 1
    BY <1>1, <1>7, <1>11, <1>13
  <2>2. /\ readString(f) \in Seq(C) /\ Len(readString(f)) = left + n
        /\ \A i \in 1 .. left + n : readString(f)[i] = g[i]
    BY <1>8, <2>1, SubSeqProperties
  <2>3. \A i \in 1 .. left + n : g[i] = IF i <= left THEN Space ELSE text[i - left]
    <3>1. SUFFICES ASSUME NEW i \in 1 .. left + n
                   PROVE  g[i] = IF i <= left THEN Space ELSE text[i - left]
      OBVIOUS
    <3>2. i \in 1 .. k - 1 /\ i \in 1 .. 6
      BY <1>1, <2>1
    <3>3. i > left => i - left \in 1 .. n
      BY <1>1
    <3>4. QED
      BY <1>3, <1>8, <3>2, <3>3
  <2>4. QED
    BY <1>13, <2>2, <2>3 DEF f, C, ReadsAs
<1>14. QED
  BY <1>12, <1>13

\* Trimming both ends leaves the text.
LEMMA TextTrimmed ==
  ASSUME NEW Char, NEW text, IsText(text, Char), NEW left \in Nat, NEW s \in Seq(Char \cup {Space, NUL}),
         text = <<>> => s = <<>>,
         text # <<>> => /\ Len(s) = left + Len(text)
                        /\ \A i \in 1 .. left + Len(text) :
                             s[i] = IF i <= left THEN Space ELSE text[i - left]
  PROVE  trimString(s) = text
<1> DEFINE n == Len(text)
           C == Char \cup {Space, NUL}
           inner == {i \in DOMAIN s : s[i] # Space}
<1>1. n \in Nat /\ DOMAIN text = 1 .. n /\ text \in Seq(C) /\ \A i \in 1 .. n : text[i] \in C
  <2>1. text \in Seq(Char)
    BY DEF IsText
  <2>2. text \in Seq(C)
    BY <2>1, SeqMonotonic
  <2>3. QED
    BY <2>1, <2>2
<1>2. CASE text = <<>>
  <2>1. s = <<>> /\ DOMAIN s = {}
    BY <1>2
  <2>2. inner = {}
    BY <2>1
  <2>3. QED
    BY <1>2, <2>2 DEF trimString
<1>3. CASE text # <<>>
  <2>1. n > 0 /\ text[1] # Space /\ text[n] # Space
    BY <1>1, <1>3 DEF IsText
  <2>2. DOMAIN s = 1 .. left + n /\ \A i \in 1 .. left + n : s[i] = IF i <= left THEN Space ELSE text[i - left]
    BY <1>1, <1>3
  <2>3. \A i \in 1 .. n : left + i \in 1 .. left + n /\ s[left + i] = text[i]
    <3>1. SUFFICES ASSUME NEW i \in 1 .. n PROVE left + i \in 1 .. left + n /\ s[left + i] = text[i]
      OBVIOUS
    <3>2. left + i \in 1 .. left + n /\ ~(left + i <= left) /\ (left + i) - left = i
      BY <1>1
    <3>3. QED
      BY <2>2, <3>2
  <2>4. left + 1 \in inner /\ left + n \in inner
    <3>1. 1 \in 1 .. n /\ n \in 1 .. n
      BY <1>1, <2>1
    <3>2. QED
      BY <2>1, <2>2, <2>3, <3>1
  <2>5. inner \in SUBSET Int /\ \A i \in inner : left + 1 <= i /\ left + n >= i
    BY <1>1, <2>2
  <2> HIDE DEF inner
  <2>6. Min(inner) = left + 1 /\ Max(inner) = left + n
    BY <1>1, <2>4, <2>5, LeastIs, GreatestIs
  <2>7. trimString(s) = SubSeq(s, left + 1, left + n)
    BY <2>4, <2>6 DEF trimString, inner
  <2>8. left + 1 \in Int /\ left + n \in Int /\ \A i \in left + 1 .. left + n : s[i] \in C
    <3>1. \A i \in left + 1 .. left + n : i \in DOMAIN s
      BY <1>1, <2>2
    <3>2. QED
      BY <1>1, <3>1
  <2>9. /\ SubSeq(s, left + 1, left + n) \in Seq(C)
        /\ Len(SubSeq(s, left + 1, left + n)) = n
        /\ \A i \in 1 .. n : SubSeq(s, left + 1, left + n)[i] = s[left + i]
    <3> DEFINE a == left + 1
               b == left + n
               t == SubSeq(s, a, b)
    <3>1. a <= b /\ b - a + 1 = n /\ \A i \in 1 .. n : a + i - 1 = left + i
      BY <1>1, <2>1
    <3>2. a \in Int /\ b \in Int /\ \A i \in a .. b : s[i] \in C
      BY <2>8
    <3> HIDE DEF a, b
    <3>3. /\ t \in Seq(C) /\ Len(t) = IF a <= b THEN b - a + 1 ELSE 0
          /\ \A i \in 1 .. b - a + 1 : t[i] = s[a + i - 1]
      BY <3>2, SubSeqProperties
    <3> HIDE DEF t
    <3>4. t \in Seq(C) /\ Len(t) = n /\ \A i \in 1 .. n : t[i] = s[left + i]
      BY <3>1, <3>3
    <3>5. QED
      BY <3>4 DEF t, a, b
  <2>10. QED
    BY <1>1, <2>3, <2>7, <2>9, SeqEqual
<1>4. QED
  BY <1>2, <1>3

\* Blanks before a text, as a concatenation.
LEMMA BlanksBefore ==
  ASSUME NEW Char, NEW text, IsText(text, Char), NEW left \in Nat, NEW s \in Seq(Char \cup {Space, NUL}),
         Len(s) = left + Len(text),
         \A i \in 1 .. left + Len(text) : s[i] = IF i <= left THEN Space ELSE text[i - left]
  PROVE  s = [i \in 1 .. left |-> Space] \o text
<1> DEFINE n == Len(text)
           C == Char \cup {Space, NUL}
           b == [i \in 1 .. left |-> Space]
<1>1. text \in Seq(C) /\ n \in Nat
  <2>1. text \in Seq(Char)
    BY DEF IsText
  <2>2. QED
    BY <2>1, SeqMonotonic
<1>2. b \in Seq(C) /\ Len(b) = left /\ \A i \in 1 .. left : b[i] = Space
  <2>1. b \in [1 .. left -> C]
    OBVIOUS
  <2>2. QED
    BY <2>1, FunctionsAreSequences
<1> HIDE DEF b, C
<1>3. /\ b \o text \in Seq(C) /\ Len(b \o text) = left + n
      /\ \A i \in 1 .. left + n : (b \o text)[i] = IF i <= left THEN b[i] ELSE text[i - left]
  BY <1>1, <1>2, ConcatProperties
<1>4. \A i \in 1 .. left + n : (b \o text)[i] = s[i]
  <2>1. \A i \in 1 .. left + n : i <= left => b[i] = Space
    BY <1>1, <1>2
  <2>2. QED
    BY <1>3, <2>1
<1>5. s \in Seq(C)
  BY DEF C
<1>6. QED
  BY <1>3, <1>4, <1>5, SeqEqual DEF b

LEMMA DescriptionIs ==
  ASSUME NEW F, NEW T, NEW L, NEW E, NEW R, NEW M, NEW Z, NEW Y, NEW K, NEW W,
         NEW x \in [field : F, text : T, left : L, end : E, rotation : R, smart : M, sanitize : Z,
                     security : Y, kinds : K, whole : W]
  PROVE  /\ DOMAIN x = {"field", "text", "left", "end", "rotation", "smart", "sanitize", "security", "kinds",
                        "whole"}
         /\ x.text \in T /\ x.left \in L /\ x.end \in E /\ x.whole \in W /\ x.sanitize \in Z
  OBVIOUS

LEMMA DescriptionsAre ==
  ASSUME NEW x \in Descriptions
  PROVE  /\ DOMAIN x = {"field", "text", "left", "end", "rotation", "smart", "sanitize", "security", "kinds",
                        "whole"}
         /\ x.text \in Texts /\ x.left \in 0 .. 2 /\ x.end \in {Space, NUL}
         /\ x.whole \in BOOLEAN /\ x.sanitize \in BOOLEAN
<1> DEFINE A == [field : {<<>>}, text : Texts, left : 0 .. 2, end : {Space, NUL}, rotation : {1}, smart : {{}},
                 sanitize : {TRUE}, security : {TRUE}, kinds : {{}}, whole : BOOLEAN]
           B == [field : {<<>>}, text : {<<"a">>}, left : {0}, end : {Space}, rotation : Rotations,
                 smart : SUBSET {"supported", "active"}, sanitize : BOOLEAN, security : BOOLEAN,
                 kinds : SUBSET {"crypto", "block", "overwrite"}, whole : {TRUE}]
<1>1. x \in A \/ x \in B
  BY Zenon DEF Descriptions
<1>2. CASE x \in A
  <2>1. /\ DOMAIN x = {"field", "text", "left", "end", "rotation", "smart", "sanitize", "security", "kinds",
                       "whole"}
        /\ x.text \in Texts /\ x.left \in 0 .. 2 /\ x.end \in {Space, NUL}
        /\ x.whole \in BOOLEAN /\ x.sanitize \in {TRUE}
    BY Zenon, <1>2, DescriptionIs
  <2>2. QED
    BY Zenon, <2>1
<1>3. CASE x \in B
  <2>1. /\ DOMAIN x = {"field", "text", "left", "end", "rotation", "smart", "sanitize", "security", "kinds",
                       "whole"}
        /\ x.text \in {<<"a">>} /\ x.left \in {0} /\ x.end \in {Space}
        /\ x.whole \in {TRUE} /\ x.sanitize \in BOOLEAN
    BY Zenon, <1>3, DescriptionIs
  <2>2. <<"a">> \in Texts /\ 0 \in 0 .. 2
    BY DEF Texts
  <2>3. x.text \in Texts /\ x.left \in 0 .. 2 /\ x.end \in {Space, NUL} /\ x.whole \in BOOLEAN
    BY Zenon, <2>1, <2>2
  <2>4. QED
    BY Zenon, <2>1, <2>3
<1>4. QED
  BY Zenon, <1>1, <1>2, <1>3

\* An identification holds the field of its text, as the drive stores it.
LEMMA IdentificationIs ==
  ASSUME NEW driving \in {"ata", "nvme"}, NEW id \in Identification(driving)
  PROVE  /\ id.field = IF driving = "ata" THEN Swapped(Field(id.text, id.left, id.end))
                       ELSE Field(id.text, id.left, id.end)
         /\ id.text \in Texts /\ id.left \in 0 .. 2 /\ id.end \in {Space, NUL}
         /\ id.whole \in BOOLEAN /\ id.sanitize \in BOOLEAN
<1>1. PICK x \in Descriptions :
        id = [x EXCEPT !.field = Stored(driving, Field(x.text, x.left, x.end))]
  BY DEF Identification
<1>2. DOMAIN x = {"field", "text", "left", "end", "rotation", "smart", "sanitize", "security", "kinds", "whole"}
  BY DescriptionsAre
<1>3. /\ x.text \in Texts /\ x.left \in 0 .. 2 /\ x.end \in {Space, NUL}
      /\ x.whole \in BOOLEAN /\ x.sanitize \in BOOLEAN
  BY DescriptionsAre
<1>4. /\ id.text = x.text /\ id.left = x.left /\ id.end = x.end
      /\ id.whole = x.whole /\ id.sanitize = x.sanitize
      /\ id.field = Stored(driving, Field(x.text, x.left, x.end))
  BY <1>1, <1>2
<1>5. QED
  BY <1>3, <1>4 DEF Stored

Letter == {"a", "b", "space"}

\* The serial numbers a drive may have are texts of up to three characters.
LEMMA TextsAreTexts ==
  ASSUME NEW text \in Texts
  PROVE  IsText(text, Letter) /\ Len(text) <= 3
<1>1. text \in {<<>>, <<"a">>, <<"a", "b">>, <<"a", "space", "b">>}
  BY DEF Texts, Space
<1>2. CASE text = <<>>
  BY <1>2 DEF IsText, Letter
<1>3. CASE text = <<"a">>
  <2>1. text \in Seq(Letter) /\ Len(text) = 1 /\ DOMAIN text = 1 .. 1 /\ text[1] = "a"
    BY <1>3 DEF Letter
  <2>2. QED
    BY <2>1 DEF IsText, Space, NUL
<1>4. CASE text = <<"a", "b">>
  <2>1. text \in Seq(Letter) /\ Len(text) = 2 /\ DOMAIN text = 1 .. 2 /\ text[1] = "a" /\ text[2] = "b"
    BY <1>4 DEF Letter
  <2>2. QED
    BY <2>1 DEF IsText, Space, NUL
<1>5. CASE text = <<"a", "space", "b">>
  <2>1. /\ text \in Seq(Letter) /\ Len(text) = 3 /\ DOMAIN text = 1 .. 3
        /\ text[1] = "a" /\ text[2] = "space" /\ text[3] = "b"
    BY <1>5 DEF Letter
  <2>2. QED
    BY <2>1 DEF IsText, Space, NUL
<1>6. QED
  BY <1>1, <1>2, <1>3, <1>4, <1>5

\* What parseIdentifyDevice makes of an identification.
LEMMA ParsedRight ==
  ASSUME NEW driving \in {"ata", "nvme"}, NEW id \in Identification(driving)
  PROVE  LET info == parseIdentifyDevice(driving, id)
             before == [i \in 1 .. (IF driving = "nvme" THEN id.left ELSE 0) |-> Space]
         IN  /\ id.whole /\ id.text # <<>> => info.serial = before \o id.text /\ info.serial # <<>>
             /\ ~(id.whole /\ id.text # <<>>) => info.serial = <<>>
             /\ id.whole => \A kind \in {"crypto", "block", "overwrite"} :
                  info.sanitize[kind] > 0 <=> kind \in id.kinds /\ (driving = "ata" => id.sanitize)
<1> DEFINE f == Field(id.text, id.left, id.end)
           n == Len(id.text)
           C == Letter \cup {Space, NUL}
           r == readString(f)
           info == parseIdentifyDevice(driving, id)
<1>1. /\ id.field = IF driving = "ata" THEN Swapped(f) ELSE f
      /\ id.left \in Nat /\ id.left <= 2 /\ id.end \in {Space, NUL}
      /\ id.whole \in BOOLEAN /\ id.sanitize \in BOOLEAN
      /\ id.text \in Texts
  BY IdentificationIs
<1>2. IsText(id.text, Letter) /\ n <= 3 /\ n \in Nat
  BY <1>1, TextsAreTexts DEF IsText
<1>3. /\ r \in Seq(C)
      /\ id.text = <<>> => r = <<>>
      /\ id.text # <<>> =>
           /\ Len(r) = id.left + n
           /\ \A i \in 1 .. id.left + n : r[i] = IF i <= id.left THEN Space ELSE id.text[i - id.left]
  <2>1. id.left + Len(id.text) <= 6
    BY <1>1, <1>2
  <2>2. /\ readString(Field(id.text, id.left, id.end)) \in Seq(Letter \cup {Space, NUL})
        /\ id.text = <<>> => readString(Field(id.text, id.left, id.end)) = <<>>
        /\ id.text # <<>> =>
             /\ Len(readString(Field(id.text, id.left, id.end))) = id.left + Len(id.text)
             /\ \A i \in 1 .. id.left + Len(id.text) :
                  readString(Field(id.text, id.left, id.end))[i]
                    = IF i <= id.left THEN Space ELSE id.text[i - id.left]
    <3>1. IsText(id.text, Letter) /\ id.left \in Nat /\ id.end \in {Space, NUL}
      BY <1>1, <1>2
    <3>2. ReadsAs(readString(Field(id.text, id.left, id.end)), id.text, id.left, Letter)
      BY <2>1, <3>1, FieldRead
    <3>3. QED
      BY <3>2 DEF ReadsAs
  <2>3. QED
    BY Zenon, <2>2
<1>4. f \in [1 .. 6 -> C]
  <2>1. DOMAIN id.text = 1 .. n /\ \A i \in 1 .. n : id.text[i] \in Letter
    BY <1>2 DEF IsText
  <2>2. \A i \in 1 .. 6 : f[i] \in C
    BY <1>1, <2>1 DEF Field
  <2>3. f = [i \in 1 .. 6 |-> f[i]]
    BY DEF Field
  <2> HIDE DEF f, C
  <2>4. QED
    BY <2>2, <2>3
<1> HIDE DEF f, C, r
<1>5. CASE driving = "ata"
  <2>1. fixAtaStringOrder(id.field) = r
    BY <1>1, <1>4, <1>5, SwappedTwice DEF fixAtaStringOrder, r
  <2>2. trimString(r) = id.text
    BY <1>1, <1>2, <1>3, TextTrimmed DEF C
  <2>3. info = ParseAta(id)
    BY <1>5 DEF parseIdentifyDevice
  <2>4. ~id.whole => info.serial = <<>>
    BY <2>3 DEF ParseAta, NoInfo
  <2> DEFINE sanitize == [kind \in {"crypto", "block", "overwrite"} |->
                            IF ~id.sanitize \/ kind \notin id.kinds THEN 0
                            ELSE IF id.security THEN 1 ELSE 2]
  <2>5. id.whole => info.serial = id.text /\ info.sanitize = sanitize
    BY <2>1, <2>2, <2>3 DEF ParseAta
  <2>6. \A kind \in {"crypto", "block", "overwrite"} : sanitize[kind] > 0 <=> kind \in id.kinds /\ id.sanitize
    BY <1>1
  <2>7. [i \in 1 .. 0 |-> Space] \o id.text = id.text
    <3>1. [i \in 1 .. 0 |-> Space] = <<>>
      OBVIOUS
    <3>2. QED
      BY <1>2, <3>1, ConcatEmptySeq DEF IsText
  <2> HIDE DEF info, sanitize
  <2>8. QED
    BY <1>1, <1>5, <2>4, <2>5, <2>6, <2>7 DEF info
<1>6. CASE driving = "nvme"
  <2>1. info = ParseNvme(id) /\ id.field = f
    BY <1>1, <1>6 DEF parseIdentifyDevice
  <2>2. ~id.whole => info.serial = <<>>
    BY <2>1 DEF ParseNvme, NoInfo
  <2> DEFINE sanitize == [kind \in {"crypto", "block", "overwrite"} |-> IF kind \in id.kinds THEN 1 ELSE 0]
             before == [i \in 1 .. id.left |-> Space]
  <2>3. id.whole => info.serial = r /\ info.sanitize = sanitize
    BY <2>1 DEF ParseNvme, r
  <2>4. \A kind \in {"crypto", "block", "overwrite"} : sanitize[kind] > 0 <=> kind \in id.kinds
    OBVIOUS
  <2>5. id.text # <<>> => r = before \o id.text
    BY <1>1, <1>2, <1>3, BlanksBefore DEF C
  <2>6. id.text # <<>> => r # <<>>
    <3>1. id.text # <<>> => Len(r) > 0
      BY <1>1, <1>2, <1>3 DEF IsText
    <3>2. QED
      BY <3>1
  <2> HIDE DEF info, sanitize
  <2>7. QED
    BY <1>1, <1>3, <1>6, <2>2, <2>3, <2>4, <2>5, <2>6 DEF info
<1>7. QED
  BY <1>5, <1>6

\* The serial number and the sanitize commands that are told of a drive are its
\* own; a serial number of the inquiry stands in only for one that is missing.
THEOREM IdentitiesTold == QSpec => []IdentityTold
<1>1. ASSUME QInv, step = "told", call.method = "open", call.driving # "unknown"
      PROVE  IdentityTold
  <2>1. call.driving \in {"ata", "nvme"}
    BY <1>1 DEF QInv, CallKnown
  <2>2. truth.id \in Identification(call.driving)
    <3>1. truth \in Openings(call.driving)
      BY <1>1 DEF QInv, CallKnown, Truths
    <3> DEFINE S == Identification(call.driving)
               x == [field |-> <<>>, text |-> <<"a">>, left |-> 0, end |-> Space, rotation |-> 1, smart |-> {},
                     sanitize |-> TRUE, security |-> TRUE, kinds |-> {}, whole |-> TRUE]
    <3>2. \E e : e \in S
      <4>1. x \in Descriptions
        BY DEF Descriptions, Texts
      <4>2. QED
        BY <4>1 DEF Identification
    <3>3. (CHOOSE e \in S : TRUE) \in S
      BY <3>2
    <3>4. truth.id \in S \/ truth.id \in {CHOOSE e \in S : TRUE}
      BY <3>1 DEF Openings
    <3>5. QED
      BY <3>3, <3>4
  <2> DEFINE id == truth.id
             has == id.whole /\ id.text # <<>>
             before == [i \in 1 .. (IF call.driving = "nvme" THEN id.left ELSE 0) |-> Space]
  <2>3. /\ has => Parsed.serial = before \o id.text /\ Parsed.serial # <<>>
        /\ ~has => Parsed.serial = <<>>
        /\ id.whole => \A kind \in {"crypto", "block", "overwrite"} :
             Parsed.sanitize[kind] > 0 <=> kind \in id.kinds /\ (call.driving = "ata" => id.sanitize)
    BY <2>1, <2>2, ParsedRight DEF Parsed
  <2>4. /\ answer.info.sanitize = Parsed.sanitize
        /\ \/ answer.info.serial = Parsed.serial
           \/ Parsed.serial = <<>> /\ answer.info.serial = call.p.inquiry
    BY <1>1 DEF QInv, OpenInv
  <2>5. has => answer.info.serial = before \o id.text
    BY <2>3, <2>4
  <2>6. ~has => answer.info.serial \in {<<>>, call.p.inquiry}
    BY <2>3, <2>4
  <2>7. has => \A kind \in {"crypto", "block", "overwrite"} :
          answer.info.sanitize[kind] > 0 <=> kind \in id.kinds /\ (call.driving = "ata" => id.sanitize)
    BY <2>3, <2>4
  <2>8. QED
    BY <2>5, <2>6, <2>7 DEF IdentityTold
<1>2. QInv => IdentityTold
  BY <1>1 DEF IdentityTold
<1>3. QED
  BY <1>2, CallsKnown, PTL

-----------------------------------------------------------------------------
(* Values that are made step by step *)

\* What holds of 0 and of each next number holds of all: < is well-founded.
LEMMA AllNumbers ==
  ASSUME NEW S \in SUBSET Nat, 0 \in S, \A n \in S : n + 1 \in S
  PROVE  S = Nat
<1>1. IsWellFoundedOn(OpToRel(<, Nat), Nat)
  BY NatLessThanWellFounded
<1>2. ASSUME Nat \ S # {} PROVE FALSE
  <2>1. \E x \in Nat \ S : \A y \in Nat \ S : ~ (<<y, x>> \in OpToRel(<, Nat))
    BY <1>1, <1>2, WFMin
  <2>2. PICK x \in Nat \ S : \A y \in Nat \ S : ~ (y < x)
    BY <2>1 DEF OpToRel
  <2>3. x # 0 /\ x - 1 \in Nat /\ x - 1 < x /\ (x - 1) + 1 = x
    BY <2>2
  <2>4. QED
    BY <2>2, <2>3
<1>3. QED
  BY <1>2

LEMMA NumbersUpTo ==
  ASSUME NEW N \in Nat, NEW S, 0 \in S, \A n \in 0 .. N - 1 : n \in S => n + 1 \in S
  PROVE  \A n \in 0 .. N : n \in S
<1> DEFINE T == {n \in Nat : n <= N => n \in S}
<1>1. T \in SUBSET Nat /\ 0 \in T
  OBVIOUS
<1>2. \A n \in T : n + 1 \in T
  <2>1. SUFFICES ASSUME NEW n \in T, n + 1 <= N PROVE n + 1 \in S
    OBVIOUS
  <2>2. n \in 0 .. N - 1 /\ n \in S
    BY <2>1
  <2>3. QED
    BY <2>2
<1>3. T = Nat
  <2> HIDE DEF T
  <2>1. QED
    BY <1>1, <1>2, AllNumbers
<1>4. QED
  BY <1>3

\* f holds n values of X after the first, each made of the one before it.
MadeTo(f, n, X, first, next) ==
  /\ f \in [0 .. n -> X]
  /\ f[0] = first
  /\ \A i \in 1 .. n : f[i] = next[i][f[i - 1]]

LEMMA MadeFirst ==
  ASSUME NEW X, NEW first \in X, NEW next
  PROVE  MadeTo([i \in 0 .. 0 |-> first], 0, X, first, next)
BY DEF MadeTo

LEMMA MadeNext ==
  ASSUME NEW n \in Nat, NEW X, NEW first \in X, NEW next, NEW f, MadeTo(f, n, X, first, next),
         next[n + 1] \in [X -> X]
  PROVE  MadeTo([i \in 0 .. n + 1 |-> IF i = n + 1 THEN next[n + 1][f[n]] ELSE f[i]],
                n + 1, X, first, next)
<1> DEFINE g == [i \in 0 .. n + 1 |-> IF i = n + 1 THEN next[n + 1][f[n]] ELSE f[i]]
<1>1. f \in [0 .. n -> X] /\ f[0] = first /\ f[n] \in X /\ \A i \in 1 .. n : f[i] = next[i][f[i - 1]]
  BY DEF MadeTo
<1>2. next[n + 1][f[n]] \in X
  BY <1>1
<1>3. g \in [0 .. n + 1 -> X]
  BY <1>1, <1>2
<1>4. g[0] = first /\ g[n + 1] = next[n + 1][f[n]] /\ \A i \in 0 .. n : g[i] = f[i]
  BY <1>1
<1>5. ASSUME NEW i \in 1 .. n + 1 PROVE g[i] = next[i][g[i - 1]]
  <2> HIDE DEF g
  <2>1. CASE i = n + 1
    <3>1. (n + 1) - 1 = n /\ n \in 0 .. n
      OBVIOUS
    <3>2. QED
      BY <1>4, <2>1, <3>1
  <2>2. CASE i \in 1 .. n
    <3>1. i \in 0 .. n /\ i - 1 \in 0 .. n
      BY <2>2
    <3>2. QED
      BY <1>1, <1>4, <2>2, <3>1
  <2>3. QED
    BY <2>1, <2>2
<1> HIDE DEF g
<1>6. MadeTo(g, n + 1, X, first, next)
  BY <1>3, <1>4, <1>5 DEF MadeTo
<1>7. QED
  BY <1>6 DEF g

LEMMA SomeMade ==
  ASSUME NEW N \in Nat, NEW X, NEW first \in X, NEW next \in [1 .. N -> [X -> X]]
  PROVE  \E f : MadeTo(f, N, X, first, next)
<1> DEFINE S == {n \in 0 .. N : \E f : MadeTo(f, n, X, first, next)}
<1>1. 0 \in S
  <2>1. MadeTo([i \in 0 .. 0 |-> first], 0, X, first, next)
    BY MadeFirst
  <2>2. \E f : MadeTo(f, 0, X, first, next)
    BY <2>1
  <2>3. QED
    BY <2>2
<1>2. \A n \in 0 .. N - 1 : n \in S => n + 1 \in S
  <2> SUFFICES ASSUME NEW n \in 0 .. N - 1, n \in S PROVE n + 1 \in S
    OBVIOUS
  <2>1. n \in Nat /\ n + 1 \in 0 .. N /\ n + 1 \in 1 .. N
    OBVIOUS
  <2>2. next[n + 1] \in [X -> X]
    BY <2>1
  <2>3. PICK f : MadeTo(f, n, X, first, next)
    OBVIOUS
  <2>4. QED
    BY <2>1, <2>2, <2>3, MadeNext
<1>3. N \in S
  <2> HIDE DEF S
  <2>1. \A n \in 0 .. N : n \in S
    BY <1>1, <1>2, NumbersUpTo
  <2>2. QED
    BY <2>1
<1>4. QED
  BY <1>3

\* A function that begins so and goes on so has its values in X.
LEMMA AllMade ==
  ASSUME NEW N \in Nat, NEW X, NEW first \in X, NEW next \in [1 .. N -> [X -> X]],
         NEW f, f = [n \in 0 .. N |-> f[n]], f[0] = first,
         \A i \in 1 .. N : f[i - 1] \in X => f[i] = next[i][f[i - 1]]
  PROVE  MadeTo(f, N, X, first, next)
<1> DEFINE S == {n \in 0 .. N : f[n] \in X}
<1>1. 0 \in S
  OBVIOUS
<1>2. \A n \in 0 .. N - 1 : n \in S => n + 1 \in S
  <2> SUFFICES ASSUME NEW n \in 0 .. N - 1, n \in S PROVE n + 1 \in S
    OBVIOUS
  <2>1. n + 1 \in 1 .. N /\ (n + 1) - 1 = n /\ n + 1 \in 0 .. N
    OBVIOUS
  <2>2. f[n] \in X /\ next[n + 1] \in [X -> X]
    BY <2>1
  <2>3. f[n + 1] = next[n + 1][f[n]]
    BY <2>1, <2>2
  <2>4. f[n + 1] \in X
    BY <2>2, <2>3
  <2>5. QED
    BY <2>1, <2>4
<1>3. \A n \in 0 .. N : n \in S
  <2> HIDE DEF S
  <2>1. QED
    BY <1>1, <1>2, NumbersUpTo
<1>4. \A n \in 0 .. N : f[n] \in X
  BY <1>3
<1>5. \A i \in 1 .. N : i - 1 \in 0 .. N
  OBVIOUS
<1>6. f \in [0 .. N -> X]
  BY <1>4
<1>7. QED
  BY <1>4, <1>5, <1>6 DEF MadeTo

-----------------------------------------------------------------------------
(* Discovery *)

LEMMA DescriptorIs ==
  ASSUME NEW C, NEW L, NEW I, NEW F, NEW x \in [code : C, length : L, comId : I, locks : F]
  PROVE  x.code \in C /\ x.length \in L
  OBVIOUS

LEMMA LengthIs ==
  ASSUME NEW x \in Descriptor
  PROVE  x.length \in Nat
<1>1. x \in [code : FeatureCode, length : Nat, comId : Nat, locks : SUBSET LockFlag]
  BY DEF Descriptor
<1>2. QED
  BY Zenon, <1>1, DescriptorIs

LEMMA EndsAre ==
  ASSUME NEW r, IsReply(r)
  PROVE  /\ \A i \in 0 .. Len(r.items) : Ends(r)[i] \in Nat
         /\ \A i \in 1 .. Len(r.items) : Ends(r)[i] = Ends(r)[i - 1] + r.items[i].length + FeatureHeader
<1> DEFINE N == Len(r.items)
           G(i, x) == x + r.items[i].length + FeatureHeader
           next == [i \in 1 .. N |-> [x \in Nat |-> G(i, x)]]
           F(f) == [i \in 0 .. N |-> IF i = 0 THEN HeaderSize ELSE G(i, f[i - 1])]
           e == Ends(r)
<1>1. N \in Nat /\ \A i \in 1 .. N : r.items[i].length \in Nat
  <2>1. r.items \in Seq(Descriptor)
    BY DEF IsReply
  <2>2. \A x \in Descriptor : x.length \in Nat
    BY Zenon, LengthIs
  <2>3. N \in Nat /\ \A i \in 1 .. N : r.items[i] \in Descriptor
    BY <2>1
  <2>4. QED
    BY <2>2, <2>3
<1>2. HeaderSize \in Nat
  BY DEF HeaderSize
<1>3. next \in [1 .. N -> [Nat -> Nat]]
  BY <1>1 DEF FeatureHeader
<1>4. e = CHOOSE f : f = F(f)
  BY Zenon DEF Ends
<1> HIDE DEF N, G, e
<1>5. PICK f : MadeTo(f, N, Nat, HeaderSize, next)
  <2> HIDE DEF next
  <2>1. QED
    BY <1>1, <1>2, <1>3, SomeMade
<1>6. f = F(f)
  <2>1. f = [i \in 0 .. N |-> f[i]] /\ f[0] = HeaderSize /\ \A i \in 1 .. N : f[i] = next[i][f[i - 1]]
    BY <1>5 DEF MadeTo
  <2>2. \A i \in 1 .. N : f[i - 1] \in Nat
    BY <1>1, <1>5 DEF MadeTo
  <2>3. \A i \in 1 .. N : f[i] = G(i, f[i - 1])
    BY <2>1, <2>2
  <2>4. ASSUME NEW i \in 0 .. N PROVE f[i] = IF i = 0 THEN HeaderSize ELSE G(i, f[i - 1])
    <3>1. CASE i = 0
      BY Zenon, <2>1, <3>1
    <3>2. CASE i # 0
      <4>1. i \in 1 .. N
        BY <1>1, <3>2
      <4>2. f[i] = G(i, f[i - 1])
        BY <2>3, <4>1
      <4>3. QED
        BY Zenon, <3>2, <4>2
    <3>3. QED
      BY <3>1, <3>2
  <2> HIDE DEF next
  <2>5. QED
    BY <2>1, <2>4
<1>7. e = F(e)
  <2> HIDE DEF F
  <2>1. QED
    BY <1>4, <1>6
<1>8. e = [i \in 0 .. N |-> e[i]] /\ e[0] = HeaderSize /\ \A i \in 1 .. N : e[i] = G(i, e[i - 1])
  BY <1>1, <1>7
<1>9. MadeTo(e, N, Nat, HeaderSize, next)
  <2>1. \A i \in 1 .. N : e[i - 1] \in Nat => e[i] = next[i][e[i - 1]]
    BY <1>8
  <2> HIDE DEF next
  <2>2. QED
    BY <1>1, <1>2, <1>3, <1>8, <2>1, AllMade
<1>10. QED
  BY <1>8, <1>9 DEF MadeTo, N, G, e

LEMMA EndsGrow ==
  ASSUME NEW r, IsReply(r), NEW i \in 0 .. Len(r.items)
  PROVE  Ends(r)[i] <= Ends(r)[Len(r.items)]
<1> DEFINE N == Len(r.items)
           e == Ends(r)
           S == {k \in 0 .. N : e[N - k] <= e[N]}
<1>1. N \in Nat /\ \A m \in 0 .. N : e[m] \in Nat
  BY EndsAre DEF IsReply
<1>2. ASSUME NEW m \in 1 .. N PROVE e[m - 1] <= e[m]
  <2>1. e[m] = e[m - 1] + r.items[m].length + FeatureHeader
    BY EndsAre
  <2>2. r.items[m].length \in Nat
    <3>1. r.items[m] \in Descriptor
      BY <1>1 DEF IsReply
    <3>2. QED
      BY <3>1, LengthIs
  <2>3. e[m - 1] \in Nat
    BY <1>1
  <2> HIDE DEF e
  <2>4. QED
    BY <2>1, <2>2, <2>3 DEF FeatureHeader
<1> HIDE DEF e
<1>3. 0 \in S
  BY <1>1
<1>4. ASSUME NEW k \in 0 .. N - 1, k \in S PROVE k + 1 \in S
  <2>2. N - k \in 1 .. N /\ N - (k + 1) = (N - k) - 1
    BY <1>1
  <2>3. e[N - (k + 1)] <= e[N - k] /\ e[N - (k + 1)] \in Nat /\ e[N - k] \in Nat /\ e[N] \in Nat
    <3>1. N - (k + 1) \in 0 .. N /\ N - k \in 0 .. N /\ N \in 0 .. N
      BY <1>1
    <3>2. QED
      BY <1>1, <1>2, <2>2, <3>1
  <2>4. e[N - k] <= e[N]
    BY <1>4
  <2>5. QED
    BY <1>1, <2>3, <2>4
<1>5. N - i \in S
  <2> HIDE DEF S
  <2>1. \A n \in 0 .. N : n \in S
    BY <1>1, <1>3, <1>4, NumbersUpTo
  <2>2. N - i \in 0 .. N
    BY <1>1
  <2>3. QED
    BY <2>1, <2>2
<1>6. N - (N - i) = i
  BY <1>1
<1>7. QED
  BY <1>5, <1>6 DEF e

\* The walk reads all descriptors of a reply that keeps to the specification, and
\* nothing behind them.
LEMMA WalkIsWhole ==
  ASSUME NEW r, IsReply(r), WellFormed(r)
  PROVE  Walked(r) = DOMAIN r.items /\ ~Padded(r)
<1> DEFINE N == Len(r.items)
           e == Ends(r)
<1>1. N \in Nat /\ DOMAIN r.items = 1 .. N /\ r.length \in Nat /\ \A m \in 0 .. N : e[m] \in Nat
  BY EndsAre DEF IsReply
<1>2. e[N] = r.length + 4
  <2>1. (N + 1) - 1 = N
    BY <1>1
  <2>2. r.length + 4 = Start(r, N + 1)
    BY DEF WellFormed
  <2>3. QED
    BY <2>1, <2>2 DEF Start
<1>3. ASSUME NEW i \in 1 .. N PROVE Start(r, i) < r.length
  <2>1. i \in 0 .. N /\ i - 1 \in 0 .. N
    BY <1>1
  <2>2. e[i] = e[i - 1] + r.items[i].length + FeatureHeader
    BY <2>1, EndsAre
  <2>3. e[i] <= e[N]
    BY <2>1, EndsGrow
  <2>4. r.items[i].length \in Nat /\ r.items[i].length > 0
    <3>1. r.items[i] \in Descriptor
      BY <1>1 DEF IsReply
    <3>2. QED
      BY <1>1, <3>1, LengthIs DEF WellFormed
  <2>5. e[i] \in Nat /\ e[i - 1] \in Nat
    BY <1>1, <2>1
  <2> HIDE DEF e
  <2>6. e[i - 1] < r.length
    BY <1>1, <1>2, <2>2, <2>3, <2>4, <2>5 DEF FeatureHeader
  <2>7. QED
    BY <2>6 DEF Start, e
<1>4. Walked(r) = DOMAIN r.items
  BY <1>1, <1>3 DEF Walked
<1>5. ~Padded(r)
  <2>1. Start(r, N + 1) = r.length + 4
    BY DEF WellFormed
  <2>2. QED
    BY <1>1, <2>1 DEF Padded
<1>6. QED
  BY <1>4, <1>5

\* So each feature is known by its own descriptor.
LEMMA FeaturesRight ==
  ASSUME NEW r, IsReply(r), WellFormed(r)
  PROVE  /\ DOMAIN RawFeatures(r) = {r.items[i].code : i \in DOMAIN r.items}
         /\ \A i \in DOMAIN r.items : RawFeatures(r)[r.items[i].code] = r.items[i]
<1> DEFINE D == DOMAIN r.items
           codes == {r.items[i].code : i \in D}
           First(c) == Min({i \in D : r.items[i].code = c})
<1>1. RawFeatures(r) = [c \in codes |-> r.items[First(c)]]
  <2>1. Walked(r) = D /\ ~Padded(r)
    BY WalkIsWhole
  <2>2. RawFeatures(r) = [c \in codes \cup {} |-> IF c \in codes THEN r.items[First(c)] ELSE NoFeature]
    BY <2>1 DEF RawFeatures
  <2>3. codes \cup {} = codes
    OBVIOUS
  <2> HIDE DEF codes, First
  <2>4. QED
    BY <2>2, <2>3
<1>2. ASSUME NEW i \in D PROVE First(r.items[i].code) = i
  <2> DEFINE S == {j \in D : r.items[j].code = r.items[i].code}
  <2>1. \A j \in D : r.items[j].code = r.items[i].code => j = i
    BY DEF WellFormed
  <2>2. S = {i}
    BY <2>1
  <2>3. i \in Int
    BY DEF IsReply
  <2> HIDE DEF S
  <2>4. i \in S /\ S \in SUBSET Int /\ \A j \in S : i <= j
    BY <2>2, <2>3
  <2>5. Min(S) = i
    BY <2>3, <2>4, LeastIs
  <2>6. QED
    BY <2>5 DEF S
<1>3. ASSUME NEW i \in D PROVE RawFeatures(r)[r.items[i].code] = r.items[i]
  <2>1. r.items[i].code \in codes
    OBVIOUS
  <2> HIDE DEF codes, First
  <2>2. QED
    BY <1>1, <1>2, <2>1
<1>4. DOMAIN RawFeatures(r) = codes
  BY <1>1
<1>5. QED
  BY <1>3, <1>4

LEMMA SscAre ==
  ASSUME NEW t
  PROVE  /\ DeviceOf(t) \in Ssc => Has(t, DeviceOf(t))
         /\ DeviceOf(t) # "none" /\ Has(t, "opalV2") => DeviceOf(t) = "opalV2"
         /\ DeviceOf(t) \in {"none", "generic", "opalV2", "opalV1", "enterprise"}
BY DEF DeviceOf, Ssc

LEMMA DiscoveredRight ==
  ASSUME NEW r, IsReply(r), WellFormed(r), NEW room \in Rooms, NEW device,
         device \in {"none", DeviceOf(Discovered("OK", r, room))}
  PROVE  Tells(Discovered("OK", r, room), device, r)
<1> DEFINE t == Discovered("OK", r, room)
           F == RawFeatures(r)
<1>1. r.length <= room /\ ~(r.length > room)
  BY QueriesAssumption DEF WellFormed, IsReply, MIN_BUFFER_LENGTH
<1>2. t = [support |-> 1, features |-> F]
  BY <1>1 DEF Discovered
<1> HIDE DEF t
<1>3. t.support = 1 /\ t.features = F
  BY <1>2
<1>4. Descriptors(r) = {r.items[i] : i \in DOMAIN r.items}
  BY DEF Descriptors, ToSet
<1>5. /\ DOMAIN F = {item.code : item \in Descriptors(r)}
      /\ \A item \in Descriptors(r) : item.code \in DOMAIN F /\ F[item.code] = item
  <2>1. /\ DOMAIN F = {r.items[i].code : i \in DOMAIN r.items}
        /\ \A i \in DOMAIN r.items : F[r.items[i].code] = r.items[i]
    BY FeaturesRight
  <2> HIDE DEF F
  <2>2. DOMAIN F = {item.code : item \in Descriptors(r)}
    BY <1>4, <2>1
  <2>3. \A item \in Descriptors(r) : item.code \in DOMAIN F /\ F[item.code] = item
    BY <1>4, <2>1
  <2>4. QED
    BY <2>2, <2>3
<1> HIDE DEF F
<1>6. \A item \in Descriptors(r) : Has(t, item.code) /\ t.features[item.code] = item
  BY <1>3, <1>5 DEF Has
<1>7. device \in Ssc => \E item \in Descriptors(r) : item.code = device /\ BaseComId(t, device) = item.comId
  <2>1. SUFFICES ASSUME device \in Ssc
                 PROVE  \E item \in Descriptors(r) : item.code = device /\ BaseComId(t, device) = item.comId
    OBVIOUS
  <2>2. device = DeviceOf(t)
    BY <2>1 DEF Ssc, t
  <2>3. device \in DOMAIN F
    BY <1>3, <2>1, <2>2, SscAre DEF Has
  <2>4. PICK item \in Descriptors(r) : item.code = device
    BY <1>5, <2>3
  <2>5. F[device] = item
    BY <1>5, <2>4
  <2>6. QED
    BY <1>3, <2>1, <2>4, <2>5 DEF BaseComId
<1>8. device # "none" => \A item \in Descriptors(r) : item.code = "opalV2" => device = "opalV2"
  <2>1. SUFFICES ASSUME device # "none", NEW item \in Descriptors(r), item.code = "opalV2"
                 PROVE  device = "opalV2"
    OBVIOUS
  <2>2. Has(t, "opalV2")
    BY <1>6, <2>1
  <2>3. device = DeviceOf(t)
    BY <2>1 DEF t
  <2>4. QED
    BY <2>1, <2>2, <2>3, SscAre
<1>9. QED
  BY <1>3, <1>5, <1>6, <1>7, <1>8 DEF Tells, t

-----------------------------------------------------------------------------
(* What was made of the drive's answers *)

\* Each is what the code computes from what the drive said: the device and the
\* features, the SMART attributes, the volumes.
ToldInv ==
  /\ call.method = "open" /\ step = "told" =>
       \E room \in Rooms :
         /\ answer = [code |-> "OK", info |-> answer.info, tcg |-> Discovered(code, truth.reply, room),
                      device |-> answer.device]
         /\ answer.device \in {"none", DeviceOf(answer.tcg)}
  /\ call.method = "smart" =>
       /\ step = "back" => code \in {"OK", "FAILED"}
       /\ step = "told" =>
            \/ answer.code \in {"NOT_IMPL", "FAILED"}
            \/ answer.attributes = SmartAttributes(truth.values, truth.thresholds)
  /\ call.method = "volumes" /\ step = "told" =>
       \/ answer.code = "SYS"
       \/ answer.code = "CRASH" /\ Crashes(truth)
       \/ /\ answer.code # "CRASH"
          /\ answer.volumes = findVolumesByDrive(VolumeList(truth), call.p.drive)

LEMMA ToldInit == QInit => ToldInv
BY DEF QInit, ToldInv

LEMMA ToldNext == QInv /\ ToldInv /\ [QNext]_allVars => ToldInv'
<1> SUFFICES ASSUME QInv, ToldInv, [QNext]_allVars PROVE ToldInv'
  OBVIOUS
<1>1. CASE UNCHANGED allVars \/ Over
  BY <1>1 DEF Over, allVars, queryVars, ToldInv
<1>2. CASE AskSanitize \/ AskSanitizeNvme \/ AskNative \/ AskDco \/ AskSmart
  <2>1. step' = "sent" /\ call' = call
    BY <1>2 DEF AskSanitize, AskSanitizeNvme, AskNative, AskDco, AskSmart
  <2>2. QED
    BY <2>1 DEF ToldInv
<1>3. CASE SanitizeBack \/ NativeBack \/ DcoBack \/ AskCapacity \/ AskTaskfile \/ AskEstimates
  <2>1. call.method \notin {"open", "smart", "volumes"} /\ call' = call
    BY <1>3 DEF SanitizeBack, NativeBack, DcoBack, AskCapacity, AskTaskfile, AskEstimates, IsAta
  <2>2. QED
    BY <2>1 DEF ToldInv
<1>4. CASE LogStep \/ LogBack
  <2>1. call.method \notin {"open", "smart", "volumes"} /\ call' = call
    BY <1>4 DEF LogStep, LogBack, Logged, queryVars
  <2>2. QED
    BY <2>1 DEF ToldInv
<1>5. CASE Driver
  <2>1. step' \in {"sent2", "back"} /\ code' \in {"OK", "FAILED"} /\ call' = call
    BY <1>5 DEF Driver
  <2>2. QED
    BY <2>1 DEF ToldInv
<1>6. CASE SmartBack
  <2>1. /\ call' = call /\ truth' = truth /\ call.method = "smart" /\ step = "back" /\ step' = "told"
        /\ answer' = [code |-> code, attributes |-> IF code = "OK"
                                                    THEN SmartAttributes(truth.values, truth.thresholds)
                                                    ELSE <<>>]
    BY <1>6 DEF SmartBack, Tell
  <2>2. code \in {"OK", "FAILED"}
    BY <2>1 DEF ToldInv
  <2>3. \/ answer'.code \in {"NOT_IMPL", "FAILED"}
        \/ answer'.attributes = SmartAttributes(truth.values, truth.thresholds)
    BY <2>1, <2>2
  <2>4. QED
    BY <2>1, <2>3 DEF ToldInv
<1>7. CASE AskVolumes
  <2>1. /\ call' = call /\ truth' = truth /\ call.method = "volumes"
        /\ answer' = IF ~call.p.readable
                     THEN [code |-> "SYS", volumes |-> findVolumesByDrive(NoVolumes, call.p.drive)]
                     ELSE IF Crashes(truth) THEN [code |-> "CRASH"]
                     ELSE [code |-> "OK", volumes |-> findVolumesByDrive(VolumeList(truth), call.p.drive)]
    BY <1>7 DEF AskVolumes, Tell
  <2>2. \/ answer'.code = "SYS"
        \/ answer'.code = "CRASH" /\ Crashes(truth)
        \/ /\ answer'.code = "OK"
           /\ answer'.volumes = findVolumesByDrive(VolumeList(truth), call.p.drive)
    BY <2>1
  <2>3. QED
    BY <2>1, <2>2 DEF ToldInv
<1>8. CASE Refuse
  <2>1. /\ call' = call /\ call.method \notin {"open", "volumes"} /\ step' = "told"
        /\ call.method = "smart" => answer' = [code |-> "NOT_IMPL"]
    BY <1>8 DEF Refuse, Tell
  <2>2. call.method = "smart" => answer'.code = "NOT_IMPL"
    BY <2>1
  <2>3. QED
    BY <2>1, <2>2 DEF ToldInv
<1>9. CASE ParseIdentify \/ Inquire
  <2>1. call' = call /\ step' \in {"parsed", "inquired"}
    BY <1>9 DEF ParseIdentify, Inquire
  <2>2. QED
    BY <2>1 DEF ToldInv
<1>10. CASE DiscoverTcg
  <2>1. PICK status \in {"OK", "NOT_SUPPORTED", "FAILED"}, room \in Rooms :
          /\ code' = status /\ call' = call /\ truth' = truth
          /\ answer' = [code |-> "OK", info |-> answer.info,
                        tcg |-> Discovered(status, truth.reply, room), device |-> "none"]
    BY <1>10 DEF DiscoverTcg, Tell
  <2>2. call.method = "open"
    BY <1>10 DEF DiscoverTcg, QInv, CommandInv
  <2>3. /\ answer' = [code |-> "OK", info |-> answer'.info, tcg |-> Discovered(code', truth'.reply, room),
                      device |-> answer'.device]
        /\ answer'.device = "none"
    BY <2>1
  <2>4. QED
    BY <2>1, <2>2, <2>3 DEF ToldInv
<1>11. CASE GetTcgDevice
  <2>1. /\ call' = call /\ truth' = truth /\ code' = code /\ call.method = "open" /\ step = "told"
        /\ answer' = [answer EXCEPT !.device = DeviceOf(answer.tcg)]
    BY <1>11 DEF GetTcgDevice
  <2>2. PICK room \in Rooms :
          answer = [code |-> "OK", info |-> answer.info, tcg |-> Discovered(code, truth.reply, room),
                    device |-> answer.device]
    BY <2>1 DEF ToldInv
  <2>3. /\ answer' = [code |-> "OK", info |-> answer'.info, tcg |-> Discovered(code', truth'.reply, room),
                      device |-> answer'.device]
        /\ answer'.device = DeviceOf(answer'.tcg)
    BY <2>1, <2>2
  <2>4. QED
    BY <2>1, <2>3 DEF ToldInv
<1>12. QED
  BY <1>1, <1>2, <1>3, <1>4, <1>5, <1>6, <1>7, <1>8, <1>9, <1>10, <1>11 DEF QNext

LEMMA AnswersMade == QSpec => []ToldInv
BY CallsKnown, ToldInit, ToldNext, PTL DEF QSpec

\* What is told of features, lock state, ComID and TCG device after an open is
\* what the drive said in a well-formed reply of any length; without a reply
\* there is no device of an SSC.
THEOREM DiscoveriesTold == QSpec => []DiscoveryTold
<1>1. ASSUME QInv, ToldInv PROVE DiscoveryTold
  <2>1. SUFFICES ASSUME step = "told", call.method = "open"
                 PROVE  /\ code = "OK" /\ WellFormed(truth.reply) =>
                             Tells(answer.tcg, answer.device, truth.reply)
                        /\ code # "OK" => answer.device \notin Ssc
    BY DEF DiscoveryTold
  <2>2. PICK room \in Rooms :
          /\ answer = [code |-> "OK", info |-> answer.info, tcg |-> Discovered(code, truth.reply, room),
                       device |-> answer.device]
          /\ answer.device \in {"none", DeviceOf(answer.tcg)}
    BY <1>1, <2>1 DEF ToldInv
  <2>3. answer.tcg = Discovered(code, truth.reply, room)
    BY <2>2
  <2>4. truth.reply \in Replies
    <3>1. truth \in Openings(call.driving)
      BY <1>1, <2>1 DEF QInv, CallKnown, Truths
    <3>2. (CHOOSE e \in Replies : TRUE) \in Replies
      BY QueriesAssumption
    <3>3. truth.reply \in Replies \/ truth.reply \in {CHOOSE e \in Replies : TRUE}
      BY <3>1 DEF Openings
    <3>4. QED
      BY <3>2, <3>3
  <2>5. IsReply(truth.reply)
    BY <2>4, QueriesAssumption
  <2>6. code = "OK" /\ WellFormed(truth.reply) => Tells(answer.tcg, answer.device, truth.reply)
    BY <2>2, <2>3, <2>5, DiscoveredRight
  <2>7. ASSUME code # "OK" PROVE answer.device \notin Ssc
    <3>1. answer.tcg.features = [c \in {} |-> NoFeature]
      BY <2>3, <2>7 DEF Discovered, Undiscovered
    <3>2. \A c : ~Has(answer.tcg, c)
      BY <3>1 DEF Has
    <3>3. "none" \notin Ssc
      BY DEF Ssc
    <3>4. QED
      BY <2>2, <3>2, <3>3, SscAre
  <2>8. QED
    BY <2>6, <2>7
<1>2. QED
  BY <1>1, CallsKnown, AnswersMade, PTL

-----------------------------------------------------------------------------
(* SMART attributes *)

Attribute == [id : Nat, from : Nat, threshold : Nat]
Bare(values, i) == [id |-> values[i], from |-> i, threshold |-> 0]

LEMMA UsedAre ==
  ASSUME NEW values \in [Slot -> Nat]
  PROVE  /\ Used(values)[0] = <<>>
         /\ \A i \in 0 .. Slots : Used(values)[i] \in Seq(Attribute)
         /\ \A i \in 1 .. Slots :
              Used(values)[i] = IF values[i] = 0 THEN Used(values)[i - 1]
                                ELSE Append(Used(values)[i - 1], Bare(values, i))
<1> DEFINE X == Seq(Attribute)
           G(i, x) == IF values[i] = 0 THEN x ELSE Append(x, Bare(values, i))
           next == [i \in 1 .. Slots |-> [x \in X |-> G(i, x)]]
           F(f) == [i \in 0 .. Slots |-> IF i = 0 THEN <<>> ELSE G(i, f[i - 1])]
           u == Used(values)
<1>1. Slots \in Nat /\ <<>> \in X
  BY QueriesAssumption
<1>2. next \in [1 .. Slots -> [X -> X]]
  <2>1. ASSUME NEW i \in 1 .. Slots, NEW x \in X PROVE G(i, x) \in X
    <3>1. i \in Nat /\ values[i] \in Nat
      BY DEF Slot
    <3>2. Bare(values, i) \in Attribute
      BY <3>1 DEF Bare, Attribute
    <3>3. QED
      BY <3>2
  <2> HIDE DEF X, G
  <2>2. QED
    BY <2>1
<1>3. u = CHOOSE f : f = F(f)
  BY Zenon DEF Used, Bare
<1> HIDE DEF X, G, u
<1>4. PICK f : MadeTo(f, Slots, X, <<>>, next)
  <2> HIDE DEF next
  <2>1. QED
    BY <1>1, <1>2, SomeMade
<1>5. f = F(f)
  <2>1. f = [i \in 0 .. Slots |-> f[i]] /\ f[0] = <<>> /\ \A i \in 1 .. Slots : f[i] = next[i][f[i - 1]]
    BY <1>4 DEF MadeTo
  <2>2. \A i \in 1 .. Slots : f[i - 1] \in X
    BY <1>1, <1>4 DEF MadeTo
  <2>3. \A i \in 1 .. Slots : f[i] = G(i, f[i - 1])
    BY <2>1, <2>2
  <2>4. \A i \in 0 .. Slots : f[i] = IF i = 0 THEN <<>> ELSE G(i, f[i - 1])
    BY <1>1, <2>1, <2>3
  <2> HIDE DEF next
  <2>5. QED
    BY <2>1, <2>4
<1>6. u = F(u)
  <2> HIDE DEF F
  <2>1. QED
    BY <1>3, <1>5
<1>7. u = [i \in 0 .. Slots |-> u[i]] /\ u[0] = <<>> /\ \A i \in 1 .. Slots : u[i] = G(i, u[i - 1])
  BY <1>1, <1>6
<1>8. MadeTo(u, Slots, X, <<>>, next)
  <2>1. \A i \in 1 .. Slots : u[i - 1] \in X => u[i] = next[i][u[i - 1]]
    BY <1>7
  <2> HIDE DEF next
  <2>2. QED
    BY <1>1, <1>2, <1>7, <2>1, AllMade
<1>9. QED
  BY <1>7, <1>8 DEF MadeTo, X, G, u

\* A list of the used slots up to i, in order, without thresholds.
ListsUsed(list, values, i) ==
  /\ list \in Seq(Attribute)
  /\ \A n \in 1 .. Len(list) :
       /\ list[n].from \in 1 .. i /\ values[list[n].from] # 0
       /\ list[n].id = values[list[n].from] /\ list[n].threshold = 0
  /\ \A n, l \in 1 .. Len(list) : n < l => list[n].from < list[l].from
  /\ \A j \in 1 .. i : values[j] # 0 => \E n \in 1 .. Len(list) : list[n].from = j

LEMMA ListsMore ==
  ASSUME NEW values \in [Slot -> Nat], NEW i \in 1 .. Slots, NEW list, ListsUsed(list, values, i - 1),
         values[i] # 0
  PROVE  ListsUsed(Append(list, Bare(values, i)), values, i)
<1> DEFINE a == Bare(values, i)
           more == Append(list, a)
           M == Len(list)
<1>1. list \in Seq(Attribute) /\ M \in Nat /\ i \in Nat /\ Slots \in Nat
  BY QueriesAssumption DEF ListsUsed
<1>2. a \in Attribute /\ a.from = i /\ a.id = values[i] /\ a.threshold = 0
  BY <1>1 DEF Bare, Attribute, Slot
<1> HIDE DEF a
<1>3. /\ more \in Seq(Attribute) /\ Len(more) = M + 1 /\ more[M + 1] = a
      /\ \A n \in 1 .. M : more[n] = list[n]
  BY <1>1, <1>2
<1> HIDE DEF more, M
<1>4. \A n \in 1 .. M : list[n].from \in 1 .. i - 1 /\ list[n].from < i /\ list[n].from \in 1 .. i
  <2>1. \A n \in 1 .. M : list[n].from \in 1 .. i - 1
    BY DEF ListsUsed, M
  <2>2. QED
    BY <1>1, <2>1
<1>5. ASSUME NEW n \in 1 .. M + 1
      PROVE  /\ more[n].from \in 1 .. i /\ values[more[n].from] # 0
             /\ more[n].id = values[more[n].from] /\ more[n].threshold = 0
  <2>1. CASE n = M + 1
    BY <1>1, <1>2, <1>3, <2>1
  <2>2. CASE n \in 1 .. M
    <3>1. values[list[n].from] # 0 /\ list[n].id = values[list[n].from] /\ list[n].threshold = 0
      BY <2>2 DEF ListsUsed, M
    <3>2. QED
      BY <1>3, <1>4, <2>2, <3>1
  <2>3. QED
    BY <1>1, <2>1, <2>2
<1>6. ASSUME NEW n \in 1 .. M + 1, NEW l \in 1 .. M + 1, n < l
      PROVE  more[n].from < more[l].from
  <2>1. n \in 1 .. M /\ more[n] = list[n]
    BY <1>1, <1>3, <1>6
  <2>2. CASE l = M + 1
    BY <1>2, <1>3, <1>4, <2>1, <2>2
  <2>3. CASE l \in 1 .. M
    <3>1. list[n].from < list[l].from
      BY <1>6, <2>1, <2>3 DEF ListsUsed, M
    <3>2. QED
      BY <1>3, <2>1, <2>3, <3>1
  <2>4. QED
    BY <1>1, <2>2, <2>3
<1>7. ASSUME NEW j \in 1 .. i, values[j] # 0
      PROVE  \E n \in 1 .. M + 1 : more[n].from = j
  <2>1. CASE j = i
    <3>1. M + 1 \in 1 .. M + 1
      BY <1>1
    <3>2. QED
      BY <1>2, <1>3, <2>1, <3>1
  <2>2. CASE j \in 1 .. i - 1
    <3>1. PICK n \in 1 .. M : list[n].from = j
      BY <1>7, <2>2 DEF ListsUsed, M
    <3>2. n \in 1 .. M + 1
      BY <1>1
    <3>3. QED
      BY <1>3, <3>1, <3>2
  <2>3. QED
    BY <1>1, <2>1, <2>2
<1>8. QED
  BY <1>3, <1>5, <1>6, <1>7 DEF ListsUsed, more, a, M

LEMMA ListsSame ==
  ASSUME NEW values, NEW i \in Nat \ {0}, NEW list, ListsUsed(list, values, i - 1), values[i] = 0
  PROVE  ListsUsed(list, values, i)
<1>1. 1 .. i - 1 \subseteq 1 .. i
  OBVIOUS
<1>2. \A j \in 1 .. i : values[j] # 0 => j \in 1 .. i - 1
  OBVIOUS
<1>3. QED
  BY <1>1, <1>2 DEF ListsUsed

LEMMA UsedRight ==
  ASSUME NEW values \in [Slot -> Nat]
  PROVE  ListsUsed(Used(values)[Slots], values, Slots)
<1> DEFINE u == Used(values)
           S == {i \in 0 .. Slots : ListsUsed(u[i], values, i)}
<1>1. /\ Slots \in Nat /\ u[0] = <<>>
      /\ \A i \in 1 .. Slots : u[i] = IF values[i] = 0 THEN u[i - 1] ELSE Append(u[i - 1], Bare(values, i))
  BY UsedAre, QueriesAssumption
<1> HIDE DEF u
<1>2. 0 \in S
  <2>1. ListsUsed(<<>>, values, 0)
    BY DEF ListsUsed
  <2>2. QED
    BY <1>1, <2>1
<1>3. \A i \in 0 .. Slots - 1 : i \in S => i + 1 \in S
  <2> SUFFICES ASSUME NEW i \in 0 .. Slots - 1, i \in S PROVE i + 1 \in S
    OBVIOUS
  <2>1. i + 1 \in 1 .. Slots /\ (i + 1) - 1 = i /\ i + 1 \in Nat \ {0} /\ i + 1 \in 0 .. Slots
    BY <1>1
  <2>2. ListsUsed(u[i], values, (i + 1) - 1)
    BY <2>1
  <2>3. u[i + 1] = IF values[i + 1] = 0 THEN u[i] ELSE Append(u[i], Bare(values, i + 1))
    BY <1>1, <2>1
  <2>4. ListsUsed(u[i + 1], values, i + 1)
    <3>1. CASE values[i + 1] = 0
      BY <2>1, <2>2, <2>3, <3>1, ListsSame
    <3>2. CASE values[i + 1] # 0
      BY <2>1, <2>2, <2>3, <3>2, ListsMore
    <3>3. QED
      BY <3>1, <3>2
  <2>5. QED
    BY <2>1, <2>4
<1>4. Slots \in S
  <2> HIDE DEF S
  <2>1. \A i \in 0 .. Slots : i \in S
    BY <1>1, <1>2, <1>3, NumbersUpTo
  <2>2. QED
    BY <1>1, <2>1
<1>5. QED
  BY <1>4 DEF u

\* Of set, that it is list but for the threshold of the first attribute of an id.
SetsFirst(set, list, M, id, i) ==
  \A n \in 1 .. M :
    /\ set[n].id = list[n].id /\ set[n].from = list[n].from
    /\ set[n].threshold = IF id # 0 /\ list[n].id = id /\ (\A l \in 1 .. n - 1 : list[l].id # id)
                          THEN i ELSE list[n].threshold

LEMMA ThresholdSet ==
  ASSUME NEW M \in Nat, NEW list \in [1 .. M -> Attribute], NEW id \in Nat, NEW i \in Nat
  PROVE  /\ SetThreshold(list, id, i) \in [1 .. M -> Attribute]
         /\ SetsFirst(SetThreshold(list, id, i), list, M, id, i)
<1> DEFINE first(n) == id # 0 /\ list[n].id = id /\ (\A l \in 1 .. n - 1 : list[l].id # id)
           set == SetThreshold(list, id, i)
<1>1. set = [n \in 1 .. M |-> IF first(n) THEN [list[n] EXCEPT !.threshold = i] ELSE list[n]]
  BY DEF SetThreshold
<1>2. ASSUME NEW n \in 1 .. M
      PROVE  /\ [list[n] EXCEPT !.threshold = i] \in Attribute
             /\ [list[n] EXCEPT !.threshold = i].id = list[n].id
             /\ [list[n] EXCEPT !.threshold = i].from = list[n].from
             /\ [list[n] EXCEPT !.threshold = i].threshold = i
             /\ list[n] \in Attribute
  <2>1. list[n] \in Attribute
    OBVIOUS
  <2>2. QED
    BY <2>1 DEF Attribute
<1> HIDE DEF first, set
<1>3. ASSUME NEW n \in 1 .. M
      PROVE  /\ set[n] \in Attribute /\ set[n].id = list[n].id /\ set[n].from = list[n].from
             /\ set[n].threshold = IF first(n) THEN i ELSE list[n].threshold
  <2>1. set[n] = IF first(n) THEN [list[n] EXCEPT !.threshold = i] ELSE list[n]
    BY <1>1
  <2>2. CASE first(n)
    BY <1>2, <2>1, <2>2
  <2>3. CASE ~first(n)
    BY <1>2, <2>1, <2>3
  <2>4. QED
    BY <2>2, <2>3
<1>4. set \in [1 .. M -> Attribute]
  BY <1>1, <1>3
<1>5. QED
  BY <1>3, <1>4 DEF first, set, SetsFirst

LEMMA ComparedAre ==
  ASSUME NEW values \in [Slot -> Nat], NEW thresholds \in [Slot -> Nat], NEW M \in Nat,
         Used(values)[Slots] \in [1 .. M -> Attribute]
  PROVE  /\ Compared(values, thresholds)[0] = Used(values)[Slots]
         /\ \A i \in 0 .. Slots : Compared(values, thresholds)[i] \in [1 .. M -> Attribute]
         /\ \A i \in 1 .. Slots :
              Compared(values, thresholds)[i]
                = SetThreshold(Compared(values, thresholds)[i - 1], thresholds[i], i)
<1> DEFINE X == [1 .. M -> Attribute]
           B == Used(values)[Slots]
           G(i, x) == SetThreshold(x, thresholds[i], i)
           next == [i \in 1 .. Slots |-> [x \in X |-> G(i, x)]]
           F(f) == [i \in 0 .. Slots |-> IF i = 0 THEN B ELSE G(i, f[i - 1])]
           c == Compared(values, thresholds)
<1>1. Slots \in Nat /\ B \in X
  BY QueriesAssumption
<1>2. next \in [1 .. Slots -> [X -> X]]
  <2>1. ASSUME NEW i \in 1 .. Slots, NEW x \in X PROVE G(i, x) \in X
    <3>1. i \in Nat /\ thresholds[i] \in Nat
      BY DEF Slot
    <3>2. QED
      BY <3>1, ThresholdSet
  <2> HIDE DEF X, G
  <2>2. QED
    BY <2>1
<1>3. c = CHOOSE f : f = F(f)
  BY Zenon DEF Compared
<1> HIDE DEF X, G, c, B
<1>4. PICK f : MadeTo(f, Slots, X, B, next)
  <2> HIDE DEF next
  <2>1. QED
    BY <1>1, <1>2, SomeMade
<1>5. f = F(f)
  <2>1. f = [i \in 0 .. Slots |-> f[i]] /\ f[0] = B /\ \A i \in 1 .. Slots : f[i] = next[i][f[i - 1]]
    BY <1>4 DEF MadeTo
  <2>2. \A i \in 1 .. Slots : f[i - 1] \in X
    BY <1>1, <1>4 DEF MadeTo
  <2>3. \A i \in 1 .. Slots : f[i] = G(i, f[i - 1])
    BY <2>1, <2>2
  <2>4. ASSUME NEW i \in 0 .. Slots PROVE f[i] = IF i = 0 THEN B ELSE G(i, f[i - 1])
    <3>1. i # 0 => i \in 1 .. Slots
      BY <1>1
    <3>2. QED
      BY Zenon, <2>1, <2>3, <3>1
  <2> HIDE DEF next
  <2>5. QED
    BY <2>1, <2>4
<1>6. c = F(c)
  <2> HIDE DEF F
  <2>1. QED
    BY <1>3, <1>5
<1>7. c = [i \in 0 .. Slots |-> c[i]] /\ c[0] = B /\ \A i \in 1 .. Slots : c[i] = G(i, c[i - 1])
  <2>1. 0 \in 0 .. Slots /\ \A i \in 1 .. Slots : i \in 0 .. Slots /\ i # 0
    BY <1>1
  <2>2. \A i \in 0 .. Slots : c[i] = IF i = 0 THEN B ELSE G(i, c[i - 1])
    BY Zenon, <1>6
  <2>3. DOMAIN c = 0 .. Slots
    BY Zenon, <1>6
  <2>4. c = [i \in 0 .. Slots |-> c[i]]
    BY Zenon, <1>6, <2>3
  <2>5. QED
    BY Zenon, <2>1, <2>2, <2>4
<1>8. MadeTo(c, Slots, X, B, next)
  <2>1. \A i \in 1 .. Slots : c[i - 1] \in X => c[i] = next[i][c[i - 1]]
    BY <1>7
  <2> HIDE DEF next
  <2>2. QED
    BY <1>1, <1>2, <1>7, <2>1, AllMade
<1>9. QED
  BY <1>7, <1>8 DEF MadeTo, X, G, c, B

\* Of a list of different attributes, each has the one threshold of its id among
\* the slots up to i.
HasThresholds(list, bare, thresholds, i) ==
  /\ \A n \in DOMAIN bare : list[n].id = bare[n].id /\ list[n].from = bare[n].from
  /\ \A n \in DOMAIN bare, j \in 1 .. Slots :
       list[n].threshold = j <=> j <= i /\ thresholds[j] = bare[n].id

LEMMA ThresholdsGrow ==
  ASSUME NEW M \in Nat, NEW list \in [1 .. M -> Attribute], NEW bare \in [1 .. M -> Attribute],
         NEW thresholds \in [Slot -> Nat], Distinct(thresholds), NEW i \in 1 .. Slots,
         \A n \in 1 .. M : bare[n].id # 0,
         \A n, l \in 1 .. M : bare[n].id = bare[l].id => n = l,
         HasThresholds(list, bare, thresholds, i - 1)
  PROVE  HasThresholds(SetThreshold(list, thresholds[i], i), bare, thresholds, i)
<1> DEFINE id == thresholds[i]
           set == SetThreshold(list, id, i)
<1>1. i \in Nat /\ Slots \in Nat /\ id \in Nat /\ DOMAIN bare = 1 .. M
  BY QueriesAssumption DEF Slot
<1>2. \A n \in 1 .. M : list[n].id = bare[n].id /\ list[n].from = bare[n].from
  BY <1>1 DEF HasThresholds
<1> HIDE DEF id
<1>3. SetsFirst(set, list, M, id, i)
  BY <1>1, ThresholdSet
<1>4. ASSUME NEW n \in 1 .. M
      PROVE  /\ set[n].id = bare[n].id /\ set[n].from = bare[n].from
             /\ set[n].threshold = IF bare[n].id = id THEN i ELSE list[n].threshold
  <2>1. /\ set[n].id = list[n].id /\ set[n].from = list[n].from
        /\ set[n].threshold = IF id # 0 /\ list[n].id = id /\ (\A l \in 1 .. n - 1 : list[l].id # id)
                              THEN i ELSE list[n].threshold
    BY <1>3 DEF SetsFirst
  <2>2. ASSUME bare[n].id = id PROVE id # 0 /\ \A l \in 1 .. n - 1 : list[l].id # id
    <3>1. \A l \in 1 .. n - 1 : l \in 1 .. M /\ l # n
      OBVIOUS
    <3>2. QED
      BY <1>2, <2>2, <3>1
  <2> HIDE DEF set
  <2>3. QED
    BY <1>2, <2>1, <2>2
<1> HIDE DEF set
<1>5. ASSUME NEW n \in 1 .. M, NEW j \in 1 .. Slots
      PROVE  set[n].threshold = j <=> j <= i /\ thresholds[j] = bare[n].id
  <2>1. list[n].threshold = j <=> j <= i - 1 /\ thresholds[j] = bare[n].id
    BY <1>1 DEF HasThresholds
  <2>2. CASE bare[n].id = id
    <3>1. id # 0
      BY <2>2
    <3>2. thresholds[j] = id => j = i
      BY <3>1 DEF Distinct, Slot, id
    <3>3. QED
      BY <1>1, <1>4, <2>2, <3>2 DEF id
  <2>3. CASE bare[n].id # id
    <3>1. thresholds[j] = bare[n].id => j # i
      BY <2>3 DEF id
    <3>2. j <= i - 1 <=> j <= i /\ j # i
      BY <1>1
    <3>3. set[n].threshold = list[n].threshold
      BY <1>4, <2>3
    <3>4. QED
      BY <2>1, <3>1, <3>2, <3>3
  <2>4. QED
    BY <2>2, <2>3
<1>6. QED
  BY <1>1, <1>4, <1>5 DEF HasThresholds, set, id

\* Two tables without an id twice: each used attribute with its own threshold.
SmartIsRight(list, values, thresholds) ==
  /\ {list[n].from : n \in DOMAIN list} = {i \in Slot : values[i] # 0}
  /\ \A n, l \in DOMAIN list : n < l => list[n].from < list[l].from
  /\ \A n \in DOMAIN list :
       /\ list[n].id = values[list[n].from]
       /\ \A i \in Slot : thresholds[i] = list[n].id <=> list[n].threshold = i

LEMMA SmartRight ==
  ASSUME NEW values \in [Slot -> Nat], NEW thresholds \in [Slot -> Nat],
         Distinct(values), Distinct(thresholds)
  PROVE  SmartIsRight(SmartAttributes(values, thresholds), values, thresholds)
<1> DEFINE B == Used(values)[Slots]
           M == Len(B)
           c == Compared(values, thresholds)
           S == {i \in 0 .. Slots : HasThresholds(c[i], B, thresholds, i)}
<1>1. ListsUsed(B, values, Slots)
  BY UsedRight
<1>2. M \in Nat /\ B \in [1 .. M -> Attribute] /\ DOMAIN B = 1 .. M /\ Slots \in Nat
  <2>1. B \in Seq(Attribute)
    BY <1>1 DEF ListsUsed
  <2> HIDE DEF B
  <2>2. QED
    BY <2>1, QueriesAssumption
<1>3. /\ c[0] = B /\ \A i \in 0 .. Slots : c[i] \in [1 .. M -> Attribute]
      /\ \A i \in 1 .. Slots : c[i] = SetThreshold(c[i - 1], thresholds[i], i)
  <2> HIDE DEF M
  <2>1. QED
    BY <1>2, ComparedAre
<1> HIDE DEF c, M, B
<1>4. \A n \in 1 .. M : /\ B[n].from \in 1 .. Slots /\ values[B[n].from] # 0
                        /\ B[n].id = values[B[n].from] /\ B[n].threshold = 0
  BY <1>1 DEF ListsUsed, M
<1>5. \A n, l \in 1 .. M : n < l => B[n].from < B[l].from
  BY <1>1 DEF ListsUsed, M
<1>6. ASSUME NEW n \in 1 .. M, NEW l \in 1 .. M, B[n].id = B[l].id PROVE n = l
  <2>1. B[n].from = B[l].from
    BY <1>4, <1>6 DEF Distinct, Slot
  <2>2. B[n].from \in Nat /\ ~(n < l) /\ ~(l < n)
    BY <1>4, <1>5, <2>1
  <2>3. QED
    BY <1>2, <2>2
<1>7. 0 \in S
  <2>1. HasThresholds(B, B, thresholds, 0)
    <3>1. \A n \in 1 .. M, j \in 1 .. Slots : B[n].threshold # j /\ ~(j <= 0)
      BY <1>2, <1>4
    <3>2. QED
      BY <1>2, <3>1 DEF HasThresholds
  <2>2. QED
    BY <1>2, <1>3, <2>1
<1>8. ASSUME NEW k \in 1 .. Slots, HasThresholds(c[k - 1], B, thresholds, k - 1)
      PROVE  HasThresholds(c[k], B, thresholds, k)
  <2>1. k - 1 \in 0 .. Slots
    BY <1>2
  <2>2. c[k] = SetThreshold(c[k - 1], thresholds[k], k) /\ c[k - 1] \in [1 .. M -> Attribute]
    BY <1>3, <2>1
  <2>3. /\ \A n \in 1 .. M : B[n].id # 0
        /\ \A n, l \in 1 .. M : B[n].id = B[l].id => n = l
    BY <1>4, <1>6
  <2>4. HasThresholds(SetThreshold(c[k - 1], thresholds[k], k), B, thresholds, k)
    BY <1>2, <1>8, <2>2, <2>3, ThresholdsGrow
  <2>5. QED
    BY <2>2, <2>4
<1>9. \A i \in 0 .. Slots - 1 : i \in S => i + 1 \in S
  <2> SUFFICES ASSUME NEW i \in 0 .. Slots - 1, i \in S PROVE i + 1 \in S
    OBVIOUS
  <2>1. i + 1 \in 1 .. Slots /\ (i + 1) - 1 = i /\ i + 1 \in 0 .. Slots
    BY <1>2
  <2>2. HasThresholds(c[(i + 1) - 1], B, thresholds, (i + 1) - 1)
    BY <2>1
  <2>3. QED
    BY <1>8, <2>1, <2>2
<1>10. HasThresholds(c[Slots], B, thresholds, Slots)
  <2> HIDE DEF S
  <2>1. \A i \in 0 .. Slots : i \in S
    BY <1>2, <1>7, <1>9, NumbersUpTo
  <2>2. Slots \in S
    BY <1>2, <2>1
  <2>3. QED
    BY <2>2 DEF S
<1> DEFINE list == c[Slots]
<1>11. DOMAIN list = 1 .. M
  BY <1>2, <1>3
<1>12. ASSUME NEW n \in 1 .. M
       PROVE  /\ list[n].from = B[n].from /\ list[n].id = B[n].id
              /\ \A j \in 1 .. Slots : list[n].threshold = j <=> thresholds[j] = B[n].id
  <2>1. /\ list[n].from = B[n].from /\ list[n].id = B[n].id
        /\ \A j \in 1 .. Slots : list[n].threshold = j <=> j <= Slots /\ thresholds[j] = B[n].id
    BY <1>2, <1>10 DEF HasThresholds
  <2>2. \A j \in 1 .. Slots : j <= Slots
    BY <1>2
  <2>3. QED
    BY <2>1, <2>2
<1> HIDE DEF list
<1>13. {list[n].from : n \in DOMAIN list} = {i \in Slot : values[i] # 0}
  <2>1. \A i \in 1 .. Slots : values[i] # 0 => \E n \in 1 .. M : B[n].from = i
    BY <1>1 DEF ListsUsed, M
  <2>2. QED
    BY <1>4, <1>11, <1>12, <2>1 DEF Slot
<1>14. \A n, l \in DOMAIN list : n < l => list[n].from < list[l].from
  BY <1>5, <1>11, <1>12
<1>15. \A n \in DOMAIN list :
         /\ list[n].id = values[list[n].from]
         /\ \A i \in Slot : thresholds[i] = list[n].id <=> list[n].threshold = i
  BY <1>4, <1>11, <1>12 DEF Slot
<1>16. SmartAttributes(values, thresholds) = list
  BY DEF SmartAttributes, list, c
<1>17. QED
  BY <1>13, <1>14, <1>15, <1>16 DEF SmartIsRight

\* Each used SMART attribute is told in order with its own threshold, for tables
\* of any number of slots that have no id twice, wherever the threshold is.
THEOREM AttributesTold == QSpec => []SmartTold
<1>1. ASSUME QInv, ToldInv PROVE SmartTold
  <2>1. SUFFICES ASSUME step = "told", call.method = "smart", answer.code \notin {"NOT_IMPL", "FAILED"},
                        Distinct(truth.values), Distinct(truth.thresholds)
                 PROVE  SmartIsRight(answer.attributes, truth.values, truth.thresholds)
    BY DEF SmartTold, SmartIsRight
  <2>2. answer.attributes = SmartAttributes(truth.values, truth.thresholds)
    BY <1>1, <2>1 DEF ToldInv
  <2>3. truth \in [values : [Slot -> Ids], thresholds : [Slot -> Ids]]
    BY <1>1, <2>1 DEF QInv, CallKnown, Truths
  <2>4. truth.values \in [Slot -> Nat] /\ truth.thresholds \in [Slot -> Nat]
    <3>1. truth.values \in [Slot -> Ids] /\ truth.thresholds \in [Slot -> Ids]
      BY <2>3
    <3>2. QED
      BY <3>1, QueriesAssumption
  <2>5. QED
    BY <2>1, <2>2, <2>4, SmartRight
<1>2. QED
  BY <1>1, CallsKnown, AnswersMade, PTL

-----------------------------------------------------------------------------
(* Volumes *)

\* Names of devices, and of directories and file systems.
Devices == {<<"a", "1">>, <<"a", "2">>, <<"a", "a", "1">>, <<"rest">>}
Names == {"/data", "/mnt", "ext4", "none", "0"}
Entry == [filesystem : Names, mount_points : Seq(Names)]
Volumes == UNION {[D -> Entry] : D \in SUBSET Devices}
IsLine(line) == line.device \in Devices /\ line.dir \in Names /\ line.filesystem \in Names

Points(list, device) == IF device \in DOMAIN list THEN list[device].mount_points ELSE <<>>

\* Of more, that it is list with a line.
HasLine(more, list, line) ==
  /\ DOMAIN more = DOMAIN list \cup {line.device}
  /\ \A d \in Devices :
       Points(more, d) = IF d = line.device THEN Append(Points(list, d), line.dir) ELSE Points(list, d)

LEMMA LineAdded ==
  ASSUME NEW list \in Volumes, NEW line, IsLine(line)
  PROVE  AddLine(list, line) \in Volumes /\ HasLine(AddLine(list, line), list, line)
<1> DEFINE more == AddLine(list, line)
           dev == line.device
           old == [list[dev] EXCEPT !.mount_points = Append(list[dev].mount_points, line.dir)]
           new == [filesystem |-> line.filesystem, mount_points |-> <<line.dir>>]
           at == IF dev \in DOMAIN list THEN old ELSE new
<1>1. PICK D \in SUBSET Devices : list \in [D -> Entry]
  BY DEF Volumes
<1>2. DOMAIN list = D
  BY <1>1
<1>3. at \in Entry /\ at.mount_points = Append(Points(list, dev), line.dir)
  <2>1. ASSUME dev \in DOMAIN list
        PROVE  old \in Entry /\ old.mount_points = Append(list[dev].mount_points, line.dir)
    <3>1. list[dev] \in Entry
      BY <1>1, <1>2, <2>1
    <3>2. Append(list[dev].mount_points, line.dir) \in Seq(Names)
      BY <3>1 DEF Entry, IsLine
    <3>3. QED
      BY <3>1, <3>2 DEF Entry
  <2>2. new \in Entry /\ new.mount_points = Append(<<>>, line.dir)
    <3>1. <<line.dir>> \in Seq(Names) /\ <<line.dir>> = Append(<<>>, line.dir)
      BY DEF IsLine
    <3>2. QED
      BY <3>1 DEF Entry, IsLine
  <2> HIDE DEF old, new
  <2>3. CASE dev \in DOMAIN list
    BY <2>1, <2>3 DEF Points
  <2>4. CASE dev \notin DOMAIN list
    BY <2>2, <2>4 DEF Points
  <2>5. QED
    BY <2>3, <2>4
<1>4. more = [d \in D \cup {dev} |-> IF d # dev THEN list[d] ELSE at]
  BY Zenon, <1>2 DEF AddLine
<1> HIDE DEF more, at
<1>5. more \in [D \cup {dev} -> Entry]
  BY <1>1, <1>3, <1>4
<1>6. D \cup {dev} \in SUBSET Devices
  BY DEF IsLine
<1>7. more \in Volumes
  BY <1>5, <1>6 DEF Volumes
<1>8. DOMAIN more = DOMAIN list \cup {dev}
  BY <1>2, <1>4
<1>9. ASSUME NEW d \in Devices
      PROVE  Points(more, d) = IF d = dev THEN Append(Points(list, d), line.dir) ELSE Points(list, d)
  <2>1. CASE d = dev
    <3>1. d \in DOMAIN more /\ more[d] = at
      BY <1>4, <2>1
    <3>2. Points(more, d) = at.mount_points
      BY <3>1 DEF Points
    <3>3. QED
      BY <1>3, <2>1, <3>2
  <2>2. CASE d # dev
    <3>1. d \in DOMAIN more <=> d \in DOMAIN list
      BY <1>8, <2>2
    <3>2. d \in DOMAIN list => more[d] = list[d]
      BY <1>2, <1>4, <2>2
    <3>3. QED
      BY <2>2, <3>1, <3>2 DEF Points
  <2>3. QED
    BY <2>1, <2>2
<1>10. QED
  BY <1>7, <1>8, <1>9 DEF HasLine, more

LEMMA RestIsLine == IsLine(Rest) /\ Rest.device = <<"rest">>
BY DEF IsLine, Rest, Devices, Names

\* Of more, that it is list with a line and may be with the rest of one.
HasLines(more, list, line) ==
  /\ DOMAIN list \cup {line.device} \subseteq DOMAIN more
  /\ DOMAIN more \subseteq DOMAIN list \cup {line.device, <<"rest">>}
  /\ \A d \in Devices \ {<<"rest">>} :
       Points(more, d) = IF d = line.device THEN Append(Points(list, d), line.dir) ELSE Points(list, d)

LEMMA LinesAdded ==
  ASSUME NEW list \in Volumes, NEW line, IsLine(line)
  PROVE  AddLines(list, line) \in Volumes /\ HasLines(AddLines(list, line), list, line)
<1> DEFINE more == AddLine(list, line)
           rest == AddLine(more, Rest)
<1>1. more \in Volumes /\ HasLine(more, list, line)
  BY LineAdded
<1> HIDE DEF more
<1>2. rest \in Volumes /\ HasLine(rest, more, Rest)
  BY <1>1, LineAdded, RestIsLine
<1> HIDE DEF rest
<1>3. HasLines(more, list, line)
  BY <1>1 DEF HasLine, HasLines
<1>4. HasLines(rest, list, line)
  BY <1>1, <1>2, RestIsLine DEF HasLine, HasLines
<1>5. AddLines(list, line) = IF line.rest > 0 THEN rest ELSE more
  BY DEF AddLines, more, rest
<1>6. QED
  BY <1>1, <1>2, <1>3, <1>4, <1>5

IsFile(mounts) == Len(mounts) \in Nat /\ \A n \in 1 .. Len(mounts) : IsLine(mounts[n])

LEMMA VolumeListsAre ==
  ASSUME NEW mounts, IsFile(mounts)
  PROVE  /\ VolumeLists(mounts)[0] = NoVolumes
         /\ \A n \in 0 .. Len(mounts) : VolumeLists(mounts)[n] \in Volumes
         /\ \A n \in 1 .. Len(mounts) :
              VolumeLists(mounts)[n] = AddLines(VolumeLists(mounts)[n - 1], mounts[n])
<1> DEFINE N == Len(mounts)
           G(n, x) == AddLines(x, mounts[n])
           next == [n \in 1 .. N |-> [x \in Volumes |-> G(n, x)]]
           F(f) == [n \in 0 .. N |-> IF n = 0 THEN NoVolumes ELSE G(n, f[n - 1])]
           v == VolumeLists(mounts)
<1>1. N \in Nat /\ NoVolumes \in Volumes
  <2>1. NoVolumes \in [{} -> Entry]
    BY DEF NoVolumes
  <2>2. {} \in SUBSET Devices
    OBVIOUS
  <2>3. QED
    BY <2>1, <2>2 DEF Volumes, IsFile
<1>2. next \in [1 .. N -> [Volumes -> Volumes]]
  <2>1. ASSUME NEW n \in 1 .. N, NEW x \in Volumes PROVE G(n, x) \in Volumes
    BY LinesAdded DEF IsFile
  <2> HIDE DEF G
  <2>2. QED
    BY <2>1
<1>3. v = CHOOSE f : f = F(f)
  BY Zenon DEF VolumeLists
<1> HIDE DEF G, v, N
<1>4. PICK f : MadeTo(f, N, Volumes, NoVolumes, next)
  <2> HIDE DEF next
  <2>1. QED
    BY <1>1, <1>2, SomeMade
<1>5. f = F(f)
  <2>1. f = [n \in 0 .. N |-> f[n]] /\ f[0] = NoVolumes /\ \A n \in 1 .. N : f[n] = next[n][f[n - 1]]
    BY <1>4 DEF MadeTo
  <2>2. \A n \in 1 .. N : f[n - 1] \in Volumes
    BY <1>1, <1>4 DEF MadeTo
  <2>3. \A n \in 1 .. N : f[n] = G(n, f[n - 1])
    BY <2>1, <2>2
  <2>4. ASSUME NEW n \in 0 .. N PROVE f[n] = IF n = 0 THEN NoVolumes ELSE G(n, f[n - 1])
    <3>1. n # 0 => n \in 1 .. N
      BY <1>1
    <3>2. QED
      BY Zenon, <2>1, <2>3, <3>1
  <2> HIDE DEF next
  <2>5. QED
    BY <2>1, <2>4
<1>6. v = F(v)
  <2> HIDE DEF F
  <2>1. QED
    BY <1>3, <1>5
<1>7. v = [n \in 0 .. N |-> v[n]] /\ v[0] = NoVolumes /\ \A n \in 1 .. N : v[n] = G(n, v[n - 1])
  <2>1. 0 \in 0 .. N /\ \A n \in 1 .. N : n \in 0 .. N /\ n # 0
    BY <1>1
  <2>2. \A n \in 0 .. N : v[n] = IF n = 0 THEN NoVolumes ELSE G(n, v[n - 1])
    BY Zenon, <1>6
  <2>3. DOMAIN v = 0 .. N
    BY Zenon, <1>6
  <2>4. v = [n \in 0 .. N |-> v[n]]
    BY Zenon, <1>6, <2>3
  <2>5. QED
    BY Zenon, <2>1, <2>2, <2>4
<1>8. MadeTo(v, N, Volumes, NoVolumes, next)
  <2>1. \A n \in 1 .. N : v[n - 1] \in Volumes => v[n] = next[n][v[n - 1]]
    BY <1>7
  <2> HIDE DEF next
  <2>2. QED
    BY <1>1, <1>2, <1>7, <2>1, AllMade
<1>9. QED
  BY <1>7, <1>8 DEF MadeTo, G, v, N

LEMMA MountPointsAre ==
  ASSUME NEW mounts, IsFile(mounts), NEW device
  PROVE  /\ MountPointsOf(mounts, device)[0] = <<>>
         /\ \A n \in 1 .. Len(mounts) :
              MountPointsOf(mounts, device)[n] =
                IF mounts[n].device = device THEN Append(MountPointsOf(mounts, device)[n - 1], mounts[n].dir)
                ELSE MountPointsOf(mounts, device)[n - 1]
<1> DEFINE N == Len(mounts)
           X == Seq(Names)
           G(n, x) == IF mounts[n].device = device THEN Append(x, mounts[n].dir) ELSE x
           next == [n \in 1 .. N |-> [x \in X |-> G(n, x)]]
           F(f) == [n \in 0 .. N |-> IF n = 0 THEN <<>> ELSE G(n, f[n - 1])]
           p == MountPointsOf(mounts, device)
<1>1. N \in Nat /\ <<>> \in X
  BY DEF IsFile
<1>2. next \in [1 .. N -> [X -> X]]
  <2>1. ASSUME NEW n \in 1 .. N, NEW x \in X PROVE G(n, x) \in X
    <3>1. mounts[n].dir \in Names
      BY DEF IsFile, IsLine
    <3> HIDE DEF N
    <3>2. QED
      BY <3>1
  <2> HIDE DEF G, X
  <2>2. QED
    BY <2>1
<1>3. p = CHOOSE f : f = F(f)
  BY Zenon DEF MountPointsOf
<1> HIDE DEF G, p, N, X
<1>4. PICK f : MadeTo(f, N, X, <<>>, next)
  <2> HIDE DEF next
  <2>1. QED
    BY <1>1, <1>2, SomeMade
<1>5. f = F(f)
  <2>1. f = [n \in 0 .. N |-> f[n]] /\ f[0] = <<>> /\ \A n \in 1 .. N : f[n] = next[n][f[n - 1]]
    BY <1>4 DEF MadeTo
  <2>2. \A n \in 1 .. N : f[n - 1] \in X
    BY <1>1, <1>4 DEF MadeTo
  <2>3. \A n \in 1 .. N : f[n] = G(n, f[n - 1])
    BY <2>1, <2>2
  <2>4. ASSUME NEW n \in 0 .. N PROVE f[n] = IF n = 0 THEN <<>> ELSE G(n, f[n - 1])
    <3>1. n # 0 => n \in 1 .. N
      BY <1>1
    <3>2. QED
      BY Zenon, <2>1, <2>3, <3>1
  <2> HIDE DEF next
  <2>5. QED
    BY <2>1, <2>4
<1>6. p = F(p)
  <2> HIDE DEF F
  <2>1. QED
    BY <1>3, <1>5
<1>7. p[0] = <<>> /\ \A n \in 1 .. N : p[n] = G(n, p[n - 1])
  <2>1. 0 \in 0 .. N /\ \A n \in 1 .. N : n \in 0 .. N /\ n # 0
    BY <1>1
  <2>2. \A n \in 0 .. N : p[n] = IF n = 0 THEN <<>> ELSE G(n, p[n - 1])
    BY Zenon, <1>6
  <2>3. QED
    BY Zenon, <2>1, <2>2
<1>8. QED
  BY <1>7 DEF G, p, N

\* The list after n lines: the devices of these and may be what is left of a long
\* line, each with its directories so far.
ListsLines(list, mounts, n) ==
  /\ {mounts[i].device : i \in 1 .. n} \subseteq DOMAIN list
  /\ DOMAIN list \subseteq {mounts[i].device : i \in 1 .. n} \cup {<<"rest">>}
  /\ \A d \in Devices \ {<<"rest">>} : Points(list, d) = MountPointsOf(mounts, d)[n]

LEMMA ListGrows ==
  ASSUME NEW mounts, IsFile(mounts), NEW n \in 1 .. Len(mounts), NEW list \in Volumes,
         ListsLines(list, mounts, n - 1)
  PROVE  ListsLines(AddLines(list, mounts[n]), mounts, n)
<1> DEFINE more == AddLines(list, mounts[n])
           dev == mounts[n].device
           seen(k) == {mounts[i].device : i \in 1 .. k}
<1>1. n \in Nat /\ n \in 1 .. n /\ IsLine(mounts[n])
  BY DEF IsFile
<1>2. HasLines(more, list, mounts[n])
  BY <1>1, LinesAdded
<1> HIDE DEF more
<1>3. seen(n) = seen(n - 1) \cup {dev}
  <2>1. \A i \in 1 .. n : i = n \/ i \in 1 .. n - 1
    BY <1>1
  <2>2. \A i \in 1 .. n - 1 : i \in 1 .. n
    BY <1>1
  <2>3. QED
    BY <1>1, <2>1, <2>2
<1> HIDE DEF seen
<1>4. seen(n) \subseteq DOMAIN more /\ DOMAIN more \subseteq seen(n) \cup {<<"rest">>}
  <2>1. seen(n - 1) \subseteq DOMAIN list /\ DOMAIN list \subseteq seen(n - 1) \cup {<<"rest">>}
    BY DEF ListsLines, seen
  <2>2. DOMAIN list \cup {dev} \subseteq DOMAIN more /\ DOMAIN more \subseteq DOMAIN list \cup {dev, <<"rest">>}
    BY <1>2 DEF HasLines
  <2>3. QED
    BY Zenon, <1>3, <2>1, <2>2
<1>5. ASSUME NEW d \in Devices \ {<<"rest">>}
      PROVE  Points(more, d) = MountPointsOf(mounts, d)[n]
  <2>1. Points(more, d) = IF d = dev THEN Append(Points(list, d), mounts[n].dir) ELSE Points(list, d)
    BY <1>2 DEF HasLines
  <2>2. Points(list, d) = MountPointsOf(mounts, d)[n - 1]
    BY DEF ListsLines
  <2>3. MountPointsOf(mounts, d)[n] =
          IF dev = d THEN Append(MountPointsOf(mounts, d)[n - 1], mounts[n].dir)
          ELSE MountPointsOf(mounts, d)[n - 1]
    BY MountPointsAre
  <2>4. QED
    BY Zenon, <2>1, <2>2, <2>3
<1>6. QED
  BY <1>4, <1>5 DEF ListsLines, more, seen

LEMMA ListIsRight ==
  ASSUME NEW mounts, IsFile(mounts)
  PROVE  ListsLines(VolumeList(mounts), mounts, Len(mounts))
<1> DEFINE N == Len(mounts)
           v == VolumeLists(mounts)
           S == {n \in 0 .. N : ListsLines(v[n], mounts, n)}
<1>1. /\ N \in Nat /\ v[0] = NoVolumes /\ \A n \in 0 .. N : v[n] \in Volumes
      /\ \A n \in 1 .. N : v[n] = AddLines(v[n - 1], mounts[n])
  BY VolumeListsAre DEF IsFile
<1> HIDE DEF v
<1>2. 0 \in S
  <2>1. DOMAIN NoVolumes = {} /\ {mounts[i].device : i \in 1 .. 0} = {}
    BY DEF NoVolumes
  <2>2. \A d : Points(NoVolumes, d) = <<>> /\ MountPointsOf(mounts, d)[0] = <<>>
    BY <2>1, MountPointsAre DEF Points
  <2>3. ListsLines(NoVolumes, mounts, 0)
    BY <2>1, <2>2 DEF ListsLines
  <2>4. QED
    BY <1>1, <2>3
<1>3. ASSUME NEW k \in 1 .. N, ListsLines(v[k - 1], mounts, k - 1)
      PROVE  ListsLines(v[k], mounts, k)
  <2>1. k - 1 \in 0 .. N
    BY <1>1
  <2>2. v[k - 1] \in Volumes /\ v[k] = AddLines(v[k - 1], mounts[k])
    BY <1>1, <2>1
  <2>3. QED
    BY <1>3, <2>2, ListGrows
<1>4. \A n \in 0 .. N - 1 : n \in S => n + 1 \in S
  <2> SUFFICES ASSUME NEW n \in 0 .. N - 1, n \in S PROVE n + 1 \in S
    OBVIOUS
  <2>1. n + 1 \in 1 .. N /\ (n + 1) - 1 = n /\ n + 1 \in 0 .. N
    BY <1>1
  <2>2. ListsLines(v[(n + 1) - 1], mounts, (n + 1) - 1)
    BY <2>1
  <2>3. QED
    BY <1>3, <2>1, <2>2
<1>5. N \in S
  <2> HIDE DEF S
  <2>1. \A n \in 0 .. N : n \in S
    BY <1>1, <1>2, <1>4, NumbersUpTo
  <2>2. QED
    BY <1>1, <2>1
<1>6. QED
  BY <1>5 DEF v, VolumeList

\* The devices that Begins finds, by the kernel's names.
LEMMA NamesBegin ==
  ASSUME NEW d \in Devices, NEW drive \in {<<"a">>, <<"a", "a">>}
  PROVE  /\ Begins(d, drive) => d # <<"rest">>
         /\ Begins(d, drive) => IsPartition(d, drive) \/ (drive = <<"a">> /\ IsPartition(d, <<"a", "a">>))
<1>1. d \in {<<"a", "1">>, <<"a", "2">>, <<"a", "a", "1">>, <<"rest">>}
  BY DEF Devices
<1>2. CASE d = <<"a", "1">> \/ d = <<"a", "2">>
  <2>1. Len(d) = 2 /\ d[1] = "a" /\ d[2] \in Digit
    BY <1>2 DEF Digit
  <2>2. CASE drive = <<"a">>
    <3>1. Len(drive) = 1 /\ drive[1] = "a"
      BY <2>2
    <3>2. QED
      BY <2>1, <3>1 DEF IsPartition, Begins
  <2>3. CASE drive = <<"a", "a">>
    <3>1. Len(drive) = 2 /\ drive[2] = "a" /\ d[2] # "a"
      BY <1>2, <2>3
    <3>2. ~Begins(d, drive)
      BY <2>1, <3>1 DEF Begins
    <3>3. QED
      BY <3>2
  <2>4. QED
    BY <2>2, <2>3
<1>3. CASE d = <<"a", "a", "1">>
  <2>1. Len(d) = 3 /\ d[1] = "a" /\ d[2] = "a" /\ d[3] \in Digit /\ d # <<"rest">>
    <3>1. Len(d) = 3 /\ d[1] = "a" /\ d[2] = "a" /\ d[3] \in Digit
      BY <1>3 DEF Digit
    <3>2. Len(<<"rest">>) = 1
      OBVIOUS
    <3>3. QED
      BY <3>1, <3>2
  <2> DEFINE two == <<"a", "a">>
  <2>2. Len(two) = 2 /\ two[1] = "a" /\ two[2] = "a"
    OBVIOUS
  <2> HIDE DEF two
  <2>3. IsPartition(d, two)
    BY <2>1, <2>2 DEF IsPartition, Begins
  <2>4. QED
    BY <2>1, <2>3 DEF two
<1>4. CASE d = <<"rest">>
  <2>1. d[1] = "rest" /\ drive[1] = "a" /\ 1 \in 1 .. Len(drive)
    BY <1>4
  <2>2. ~Begins(d, drive)
    BY <2>1 DEF Begins
  <2>3. QED
    BY <2>2
<1>5. QED
  BY <1>1, <1>2, <1>3, <1>4

LEMMA MountsAre ==
  ASSUME NEW mounts \in BoundedSeq(Mounts, MaxMounts)
  PROVE  IsFile(mounts) /\ DOMAIN mounts = 1 .. Len(mounts)
         /\ \A i \in DOMAIN mounts : mounts[i].device # <<"rest">> /\ mounts[i].rest \in 0 .. 3
<1>1. PICK m \in 0 .. MaxMounts : mounts \in [1 .. m -> Mounts]
  BY DEF BoundedSeq, SeqOf
<1>2. m \in Nat
  BY <1>1, QueriesAssumption
<1>3. Len(mounts) = m /\ DOMAIN mounts = 1 .. m
  BY <1>1, <1>2, FunctionsAreSequences
<1>4. ASSUME NEW line \in Mounts PROVE IsLine(line) /\ line.device # <<"rest">> /\ line.rest \in 0 .. 3
  <2> DEFINE A == [device : {<<"a", "1">>, <<"a", "2">>, <<"a", "a", "1">>},
                   dir : {"/data"}, filesystem : {"ext4"}, rest : {0}]
             B == [device : {<<"a", "1">>, <<"a", "a", "1">>}, dir : {"/mnt"}, filesystem : {"none"}, rest : 0 .. 3]
  <2>1. line \in A \/ line \in B
    BY Zenon DEF Mounts
  <2>2. line.device \in {<<"a", "1">>, <<"a", "2">>, <<"a", "a", "1">>}
        /\ line.rest \in 0 .. 3
        /\ line.dir \in {"/data", "/mnt"} /\ line.filesystem \in {"ext4", "none"}
    BY <2>1
  <2>3. line.device # <<"rest">>
    <3>1. line.device[1] = "a" /\ <<"rest">>[1] = "rest"
      BY <2>2
    <3>2. QED
      BY <3>1
  <2>4. QED
    BY <2>2, <2>3 DEF IsLine, Devices, Names
<1>5. QED
  BY <1>1, <1>2, <1>3, <1>4 DEF IsFile

\* Of a drive each mounted partition is told with all its mount points in order,
\* for files of any length; what else is told is mounted and of a drive whose name
\* goes on with letters.  The program does not end over them unless what a long
\* line leaves has one word or two.
THEOREM VolumesOfDriveTold == QSpec => []VolumesTold
<1>1. ASSUME QInv, ToldInv PROVE VolumesTold
  <2> DEFINE drive == call.p.drive
             mounted == {truth[i].device : i \in DOMAIN truth}
             list == VolumeList(truth)
  <2>0. CASE step = "told" /\ call.method = "volumes" /\ answer.code = "CRASH"
    <3>1. Crashes(truth)
      BY <1>1, <2>0 DEF ToldInv
    <3>2. truth \in BoundedSeq(Mounts, MaxMounts)
      BY <1>1, <2>0 DEF QInv, CallKnown, Truths
    <3>3. \E i \in DOMAIN truth : truth[i].rest \in {1, 2}
      BY <3>1, <3>2, MountsAre DEF Crashes
    <3>4. QED
      BY <2>0, <3>3 DEF VolumesTold
  <2>1. SUFFICES ASSUME step = "told", call.method = "volumes", answer.code \notin {"SYS", "CRASH"}
                 PROVE  /\ {d \in mounted : IsPartition(d, drive)} \subseteq DOMAIN answer.volumes
                        /\ \A d \in DOMAIN answer.volumes :
                             /\ d \in mounted
                             /\ answer.volumes[d].mount_points = MountPoints(truth, d)
                             /\ IsPartition(d, drive) \/ (drive = <<"a">> /\ IsPartition(d, <<"a", "a">>))
    BY <2>0 DEF VolumesTold
  <2>2. answer.volumes = [d \in {d \in DOMAIN list : Begins(d, drive)} |-> list[d]]
    BY <1>1, <2>1 DEF ToldInv, findVolumesByDrive
  <2>3. truth \in BoundedSeq(Mounts, MaxMounts) /\ drive \in {<<"a">>, <<"a", "a">>}
    <3>1. truth \in BoundedSeq(Mounts, MaxMounts)
      BY <1>1, <2>1 DEF QInv, CallKnown, Truths
    <3>2. call.p \in [drive : {<<"a">>, <<"a", "a">>}, readable : BOOLEAN]
      BY <1>1, <2>1 DEF QInv, CallKnown, Parameters
    <3>3. QED
      BY <3>1, <3>2
  <2>4. IsFile(truth) /\ DOMAIN truth = 1 .. Len(truth) /\ mounted \subseteq Devices \ {<<"rest">>}
    <3>1. IsFile(truth) /\ DOMAIN truth = 1 .. Len(truth) /\ \A i \in DOMAIN truth : truth[i].device # <<"rest">>
      BY <2>3, MountsAre
    <3>2. \A i \in DOMAIN truth : truth[i].device \in Devices
      BY <3>1 DEF IsFile, IsLine
    <3>3. QED
      BY <3>1, <3>2
  <2>5. /\ mounted \subseteq DOMAIN list /\ DOMAIN list \subseteq mounted \cup {<<"rest">>}
        /\ \A d \in Devices \ {<<"rest">>} : Points(list, d) = MountPoints(truth, d)
    BY <2>4, ListIsRight DEF ListsLines, MountPoints
  <2> HIDE DEF list, mounted, drive
  <2>6. ASSUME NEW d \in mounted, IsPartition(d, drive) PROVE d \in DOMAIN answer.volumes
    BY <2>2, <2>5, <2>6 DEF IsPartition
  <2>7. ASSUME NEW d \in DOMAIN answer.volumes
        PROVE  /\ d \in mounted
               /\ answer.volumes[d].mount_points = MountPoints(truth, d)
               /\ IsPartition(d, drive) \/ (drive = <<"a">> /\ IsPartition(d, <<"a", "a">>))
    <3>1. d \in DOMAIN list /\ Begins(d, drive) /\ answer.volumes[d] = list[d]
      BY <2>2
    <3>2. d \in Devices
      <4>1. <<"rest">> \in Devices
        BY DEF Devices
      <4>2. QED
        BY Zenon, <2>4, <2>5, <3>1, <4>1
    <3>3. d # <<"rest">> /\ (IsPartition(d, drive) \/ (drive = <<"a">> /\ IsPartition(d, <<"a", "a">>)))
      BY <2>3, <3>1, <3>2, NamesBegin
    <3>4. d \in mounted
      BY Zenon, <2>5, <3>1, <3>3
    <3>5. Points(list, d) = MountPoints(truth, d)
      BY Zenon, <2>5, <3>2, <3>3
    <3>6. QED
      BY Zenon, <3>1, <3>3, <3>4, <3>5 DEF Points
  <2>8. QED
    BY <2>6, <2>7
<1>2. QED
  BY <1>1, CallsKnown, AnswersMade, PTL
=============================================================================
