---------------------------- MODULE AtaTaskfile -----------------------------
(***************************************************************************)
(* ATA taskfiles (src/ata_utils.cc): which operations take 48-bit          *)
(* registers, which are DMA, and how an address gets into the registers    *)
(* and out of them again.                                                  *)
(*                                                                         *)
(* An LBA is a pair: lo has its 24 low bits, hi the rest.                  *)
(***************************************************************************)
EXTENDS Integers

ATA_OP_DSM == 6
ATA_OP_READ_NATIVE_MAX_EXT == 39
ATA_OP_TRUSTED_RECV == 92
ATA_OP_TRUSTED_SEND == 94
ATA_OP_SMART == 176
ATA_OP_DCO == 177
ATA_OP_SANITIZE == 180
ATA_OP_IDENTIFY == 236
ATA_OP_READ_NATIVE_MAX == 248

ATA_USING_LBA == 64

Lo == 16777216
Lba(hi, lo) == [hi |-> hi, lo |-> lo]
Zero == Lba(0, 0)

\* A byte of an address.
Byte0(n) == n % 256
Byte1(n) == (n \div 256) % 256
Byte2(n) == (n \div 65536) % 256

\* The address of the last of nsect sectors.
LastSector(lba, nsect) == Lba(lba.hi + ((lba.lo + nsect - 1) \div Lo), (lba.lo + nsect - 1) % Lo)

\* lba28_limit is 2^28 - 1.
Reaches28(lba) == lba.hi > 15 \/ (lba.hi = 15 /\ lba.lo = Lo - 1)

\* DSM, READ/WRITE ... EXT, READ NATIVE MAX EXT, SET MAX EXT, FLUSH CACHE EXT
ExtOps == {6, 36, 37, 52, 53, 66, 69, 39, 55, 234}
\* SECURITY ERASE PREPARE and UNIT, vendor specific 80h, SMART
ShortOps == {243, 244, 128, 176}

\* (Mutant: the first sector is looked at, not the last.)
needs_lba48_First(op, lba, nsect) ==
  \/ op \in ExtOps
  \/ op \notin ShortOps /\ (Reaches28(lba) \/ nsect > 255)

needs_lba48(op, lba, nsect) ==
  \/ op \in ExtOps
  \/ /\ op \notin ShortOps
     /\ \/ Reaches28(lba)
        \/ nsect > 255
        \/ nsect > 0 /\ Reaches28(LastSector(lba, nsect))

\* DSM, READ/WRITE DMA (EXT), READ/WRITE FPDMA
is_dma(op) == op \in {6, 37, 96, 53, 97, 200, 202}

-----------------------------------------------------------------------------
(* Registers *)

NoBank == [feat |-> 0, nsect |-> 0, lbal |-> 0, lbam |-> 0, lbah |-> 0]

\* The registers of the low and of the high order byte.
tf_init(op, lba, nsect) ==
  LET ext == needs_lba48(op, lba, nsect)
  IN [command |-> op,
      ext |-> ext,
      dev |-> IF ext THEN ATA_USING_LBA ELSE ATA_USING_LBA + (lba.hi % 16),
      lob |-> [NoBank EXCEPT !.nsect = nsect % 256,
                 !.lbal = Byte0(lba.lo), !.lbam = Byte1(lba.lo), !.lbah = Byte2(lba.lo)],
      hob |-> IF ext
              THEN [NoBank EXCEPT !.nsect = (nsect \div 256) % 256,
                      !.lbal = Byte0(lba.hi), !.lbam = Byte1(lba.hi), !.lbah = Byte2(lba.hi)]
              ELSE NoBank]

Whole(bank) == (65536 * bank.lbah) + (256 * bank.lbam) + bank.lbal

\* As the SG driver reads it, and a drive.
tf_to_lba(tf) == Lba(IF tf.ext THEN Whole(tf.hob) ELSE tf.dev % 16, Whole(tf.lob))
Sectors(tf) == IF tf.ext THEN (256 * tf.hob.nsect) + tf.lob.nsect ELSE tf.lob.nsect
=============================================================================
