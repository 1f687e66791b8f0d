----------------------------- MODULE Discovery ------------------------------
(***************************************************************************)
(* TCG Level 0 Discovery (drive_handle_base.cc, tcgDiscovery0 and          *)
(* getTcgDevice) and what the TCG devices make of it.                      *)
(*                                                                         *)
(* A drive answers with a header, whose length field does not count its    *)
(* own four bytes, and feature descriptors; the walk takes the length for  *)
(* the end of the response.  A reply is the header's length and the        *)
(* descriptors behind the header: code, length (which does not count the   *)
(* descriptor's own four bytes), ComID and lock state.  Behind them the    *)
(* buffer is zero.                                                         *)
(***************************************************************************)
EXTENDS Integers, Sequences, SequencesExt, FiniteSetsExt

HeaderSize == 48
FeatureHeader == 4
MIN_BUFFER_LENGTH == 2048

Ssc == {"opalV2", "opalV1", "enterprise"}
FeatureCode == Ssc \cup {"tper", "locking", "geometry", "singleUser", "dataStore", "zero", "vendor"}

\* The bytes of a descriptor's fields: all of a lock state, both ComID fields.
Needed(code) == CASE code = "locking" -> 1 [] code \in Ssc -> 4 [] OTHER -> 0

\* A descriptor, and a reply: the length is of 32 bits.
LockFlag == {"supported", "enabled", "locked", "mediaEncryption", "mbrEnabled", "mbrDone"}
Descriptor == [code : FeatureCode, length : Nat, comId : Nat, locks : SUBSET LockFlag]
IsReply(r) == r.length \in Nat /\ r.items \in Seq(Descriptor)

NoFeature == [code |-> "zero", length |-> 0, comId |-> 0, locks |-> {}]

\* Where each descriptor ends, the header's end at 0.
Ends(r) ==
  LET end[i \in 0 .. Len(r.items)] ==
        IF i = 0 THEN HeaderSize ELSE end[i - 1] + r.items[i].length + FeatureHeader
  IN  end

\* Where descriptor i begins, and where the one behind the last would.
Start(r, i) == Ends(r)[i - 1]

\* (Mutant: only a descriptor that ends before the end of the walk is read.)
WalkedWhole(r) == {i \in DOMAIN r.items : Start(r, i + 1) <= r.length}

\* The descriptors the walk reads.
Walked(r) == {i \in DOMAIN r.items : Start(r, i) < r.length}

Padded(r) == Start(r, Len(r.items) + 1) < r.length

\* tcg_raw_features: emplace keeps the first descriptor of a code.
RawFeatures(r) ==
  LET First(c) == Min({i \in Walked(r) : r.items[i].code = c})
      codes == {r.items[i].code : i \in Walked(r)}
  IN  [c \in codes \cup (IF Padded(r) THEN {"zero"} ELSE {}) |->
         IF c \in codes THEN r.items[First(c)] ELSE NoFeature]

\* No discovery, or none yet: as DriveInfo is constructed.
Undiscovered(support) == [support |-> support, features |-> [c \in {} |-> NoFeature]]

\* tcgDiscovery0 after the security command ended with status; room is what
\* the buffer has behind its first aligned byte.
Discovered(status, r, room) ==
  CASE status = "NOT_SUPPORTED" -> Undiscovered(0)
    [] status = "OK" /\ r.length > room -> Undiscovered(1)
    [] status = "OK" /\ r.length <= room -> [support |-> 1, features |-> RawFeatures(r)]
    [] OTHER -> Undiscovered(-1)

-----------------------------------------------------------------------------
(* The TCG devices.  The flag of a feature is set with its descriptor. *)

Has(t, code) == code \in DOMAIN t.features

\* getTcgDevice
DeviceOf(t) ==
  IF t.support = 0 THEN "none"
  ELSE IF Has(t, "opalV2") THEN "opalV2" ELSE IF Has(t, "opalV1") THEN "opalV1"
  ELSE IF Has(t, "enterprise") THEN "enterprise" ELSE "generic"

\* isLockingEnabled, isLocked, isMBREnabled, isMBRDone, isMediaEncryption.
LockState(t) == IF Has(t, "locking") THEN t.features["locking"].locks ELSE {}

\* getBaseComId: each SSC's device reads the descriptor of that SSC.
BaseComId(t, device) == IF device \in Ssc THEN t.features[device].comId ELSE 0

-----------------------------------------------------------------------------
(* What a drive says that keeps to the specification: its descriptors fill *)
(* the length, each has all its fields, none comes twice.                  *)

WellFormed(r) ==
  /\ Len(r.items) > 0
  /\ r.length + 4 = Start(r, Len(r.items) + 1)
  /\ r.length + 4 <= MIN_BUFFER_LENGTH
  /\ \A i \in DOMAIN r.items : r.items[i].length > 0 /\ r.items[i].length >= Needed(r.items[i].code)
  /\ \A i, j \in DOMAIN r.items : r.items[i].code = r.items[j].code => i = j

\* The drive's descriptor of a feature.
Descriptors(r) == ToSet(r.items)

\* The TCG device of the handle (if it was asked for) and the features agree
\* with what the drive said: every descriptor found, the lock state the
\* drive's, the device of the newest SSC, the ComID that SSC's.
Tells(t, device, r) ==
  /\ t.support = 1
  /\ \A item \in Descriptors(r) : Has(t, item.code) /\ t.features[item.code] = item
  /\ DOMAIN t.features = {item.code : item \in Descriptors(r)}
  /\ device \in Ssc =>
       \E item \in Descriptors(r) : item.code = device /\ BaseComId(t, device) = item.comId
  /\ device # "none" =>
       \A item \in Descriptors(r) : item.code = "opalV2" => device = "opalV2"
=============================================================================
