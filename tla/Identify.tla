------------------------------ MODULE Identify ------------------------------
(***************************************************************************)
(* What DriveHandleBase makes of a drive's identification                  *)
(* (drive_handle_base.cc, parseIdentifyDevice, with the strings of         *)
(* intl_utils.cc).  A character is a blank, a NUL or another one; an ATA   *)
(* drive stores each pair of characters in reverse.                        *)
(***************************************************************************)
EXTENDS Integers, Sequences, FiniteSetsExt

Space == "space"
NUL == "nul"

UpToNul(s) == SubSeq(s, 1, Min({i \in DOMAIN s : s[i] = NUL} \cup {Len(s) + 1}) - 1)

TrimRight(s) == SubSeq(s, 1, Max({i \in DOMAIN s : s[i] # Space} \cup {0}))

\* A field that is read up to a NUL and loses the blanks behind it.
readString(s) == TrimRight(UpToNul(s))

Swapped(s) == [i \in DOMAIN s |-> IF i % 2 = 1 THEN s[i + 1] ELSE s[i - 1]]

\* (Mutant: the characters are taken as they come.)
fixAtaStringOrderNot(s) == readString(s)

fixAtaStringOrder(s) == readString(Swapped(s))

trimString(s) ==
  LET inner == {i \in DOMAIN s : s[i] # Space}
  IN  IF inner = {} THEN <<>> ELSE SubSeq(s, Min(inner), Max(inner))

\* DriveInfo as it is constructed.
NoInfo == [serial |-> <<>>, raw_serial |-> <<>>, is_ssd |-> FALSE, smart_enabled |-> FALSE,
           sanitize |-> [crypto |-> 0, block |-> 0, overwrite |-> 0]]

\* IDENTIFY DEVICE; a buffer that is too short changes nothing.
ParseAta(id) ==
  IF ~id.whole THEN NoInfo ELSE
  [serial |-> trimString(fixAtaStringOrder(id.field)),
   raw_serial |-> Swapped(id.field),
   is_ssd |-> id.rotation \in {0, 1},
   smart_enabled |-> id.smart = {"supported", "active"},
   sanitize |-> [kind \in {"crypto", "block", "overwrite"} |->
                   IF ~id.sanitize \/ kind \notin id.kinds THEN 0
                   ELSE IF id.security THEN 1 ELSE 2]]

\* The identification of an NVMe controller.
ParseNvme(id) ==
  IF ~id.whole THEN NoInfo ELSE
  [serial |-> readString(id.field), raw_serial |-> id.field, is_ssd |-> TRUE, smart_enabled |-> TRUE,
   sanitize |-> [kind \in {"crypto", "block", "overwrite"} |-> IF kind \in id.kinds THEN 1 ELSE 0]]

parseIdentifyDevice(driving, id) ==
  CASE driving = "ata" -> ParseAta(id) [] driving = "nvme" -> ParseNvme(id) [] OTHER -> NoInfo
=============================================================================
