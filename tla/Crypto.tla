------------------------------- MODULE Crypto -------------------------------
(***************************************************************************)
(* Passwords of a TCG device (src/crypto, src/tcg/tcg_intl.cc): SHA-1 over *)
(* data that comes in chunks, HMAC and PBKDF2 on top of it, and the key    *)
(* that is made of a password.                                             *)
(*                                                                         *)
(* A byte is the set of the unknowns that are xored in it, so that a zero  *)
(* byte is {}.  The compression function is free of collisions: its state  *)
(* is the sequence of the blocks it took in, and each byte of a digest is  *)
(* an unknown of its own.                                                  *)
(***************************************************************************)
EXTENDS Integers, Sequences

CONSTANTS
  BlockSize,    \* 64 bytes
  DigestSize,   \* 20 bytes
  WordSize,     \* 4 bytes
  Word,         \* 2^32
  MaxPassword,  \* 32
  Iterations,   \* 75000
  KeyLength,    \* 32
  Chunks,       \* the lengths that data comes in
  KeyLens,      \* the lengths of HMAC keys
  PasswordLens, \* the lengths of passwords
  SaltLens,     \* the lengths of salts
  RoundCounts,  \* the rounds of a derivation
  DerivedLens,  \* the lengths of derived keys
  MaxLen        \* bound: bytes of a message

ASSUME CryptoAssumption ==
  /\ WordSize \in Nat \ {0} /\ BlockSize \in Nat /\ 2 * WordSize <= BlockSize
  /\ Word \in Nat \ {0} /\ Word % (8 * BlockSize) = 0
  /\ DigestSize \in Nat \ {0} /\ MaxPassword \in 0 .. BlockSize
  /\ Iterations \in Nat /\ KeyLength \in Nat
  /\ Chunks \subseteq Nat /\ KeyLens \subseteq Nat /\ PasswordLens \subseteq Nat
  /\ SaltLens \subseteq Nat /\ RoundCounts \subseteq Nat /\ DerivedLens \subseteq Nat

\* Lengths are 32-bit numbers, those of keys and salts signed: what is added to
\* them, or multiplied, does not make them wrap.  The length in an atom is a byte.
ASSUME LengthAssumption ==
  /\ \A n \in Chunks : n + BlockSize <= Word
  /\ \A n \in KeyLens \cup PasswordLens \cup SaltLens : 2 * (n + BlockSize) <= Word
  /\ \A n \in DerivedLens \cup {KeyLength, DigestSize} : 2 * n * DigestSize < Word
  /\ MaxPassword < 256 /\ KeyLength < 256

VARIABLES
  kind,  \* the object: a plain hash, or an HMAC and its key
  hash,  \* the HashSha1 object: its own, or message_hash_
  msg,   \* history: the data since the last reset
  ready, \* history: it was reset after its last digest
  out    \* the last result, and what it is a result of

vars == <<kind, hash, msg, ready, out>>

-----------------------------------------------------------------------------
(* Bytes *)

Byte(name, n) == {<<name, n>>}
Text(name, n) == [i \in 1 .. n |-> Byte(name, i)]
Num(n) == IF n = 0 THEN {} ELSE Byte("num", n)
int_to_bytes(n) == [i \in 1 .. WordSize |-> IF n = 0 THEN {} ELSE {<<"num", n, i>>}]
Xor(a, b) == (a \ b) \cup (b \ a)
bytes_xor(s, t) == [i \in DOMAIN s |-> Xor(s[i], t[i])]
bytes_xor_all(s, value) == [i \in DOMAIN s |-> Xor(s[i], value)]
Zeros(n) == [i \in 1 .. n |-> {}]

-----------------------------------------------------------------------------
(* HashSha1 *)

\* state_ as the blocks it stands for, buffer_ and count_.
Fresh == [blocks |-> <<>>, buffer |-> Zeros(BlockSize), count |-> <<0, 0>>]

\* sha1Final wipes the object: its state is then none that a message leads to.
Wiped == [Fresh EXCEPT !.blocks = <<Text("wiped", BlockSize)>>]

sha1Transform(blocks, block) == Append(blocks, block)

\* (Mutant: the carry into the second word is forgotten.)
CountNoCarry(count, len) ==
  <<(count[1] + (8 * len)) % Word, (count[2] + ((8 * len) \div Word)) % Word>>

\* count_[0] counts bits and wraps, which shows in its being less than what
\* was added; the bits that a length has beyond it go to count_[1] directly.
Count(count, len) ==
  LET add == (8 * len) % Word
      low == (count[1] + add) % Word
  IN <<low, (count[2] + (IF low < add THEN 1 ELSE 0) + ((8 * len) \div Word)) % Word>>

\* What of the buffer is used.
Used(count) == (count[1] \div 8) % BlockSize

\* The buffer is filled up and taken in as soon as it is full, then whole blocks
\* of the data; the rest waits in the buffer.
sha1Update(h, data) ==
  LET len == Len(data)
      j == Used(h.count)
      first == BlockSize - j
      direct == (len - first) \div BlockSize
      full == [p \in 1 .. BlockSize |-> IF p <= j THEN h.buffer[p] ELSE data[p - j]]
      whole == [b \in 1 .. direct |-> [p \in 1 .. BlockSize |-> data[first + (b - 1) * BlockSize + p]]]
      After(blocks, buffer, at, i) ==
        [blocks |-> blocks, count |-> Count(h.count, len),
         buffer |-> [p \in 1 .. BlockSize |->
                       IF p > at /\ p <= at + len - i THEN data[i + p - at] ELSE buffer[p]]]
  IN IF j + len > BlockSize - 1
     THEN After(sha1Transform(h.blocks, full) \o whole, full, 0, first + direct * BlockSize)
     ELSE After(h.blocks, h.buffer, j, 0)

\* The state after each zero byte of the padding.
ZerosTaken(h) ==
  LET padded[n \in 0 .. BlockSize] == IF n = 0 THEN h ELSE sha1Update(padded[n - 1], Zeros(1))
  IN padded

\* The padding: 80h, zeros up to the place of the length, byte by byte, and the
\* length before all that.
sha1Final(h) ==
  LET padded == ZerosTaken(sha1Update(h, <<Num(128)>>))
      Stops(n) == Used(padded[n].count) = BlockSize - 2 * WordSize
      zeros == CHOOSE n \in 0 .. BlockSize - 1 : Stops(n) /\ \A i \in 0 .. n - 1 : ~ Stops(i)
      finalcount == int_to_bytes(h.count[2]) \o int_to_bytes(h.count[1])
  IN sha1Update(padded[zeros], finalcount).blocks

\* The digest of a state.
DigestOf(blocks) == [i \in 1 .. DigestSize |-> {<<"sha1", blocks, i>>}]

\* Hash::hash, on an object of its own.
Sha1(data) == DigestOf(sha1Final(sha1Update(Fresh, data)))

-----------------------------------------------------------------------------
(* Hmac *)

\* A key longer than a block is hashed, and lengthened by more hashes until it
\* fills the block (RFC 2104 fills it with zeros).  Passwords are shorter.
Longer(h, k) == IF Len(h) < BlockSize THEN h \o Sha1(h \o k) ELSE h

Lengthened(k) ==
  LET longer[n \in 0 .. BlockSize] == IF n = 0 THEN Sha1(k) ELSE Longer(longer[n - 1], k)
  IN longer

BlockKey(k) ==
  IF Len(k) > BlockSize THEN SubSeq(Lengthened(k)[BlockSize], 1, BlockSize)
  ELSE [i \in 1 .. BlockSize |-> IF i <= Len(k) THEN k[i] ELSE {}]

i_key_pad(k) == bytes_xor_all(k.block_key, Num(54))
o_key_pad(k) == bytes_xor_all(k.block_key, Num(92))

Plain == [keyed |-> FALSE, key |-> <<>>, block_key |-> <<>>]
Keyed(k) == [keyed |-> TRUE, key |-> k, block_key |-> BlockKey(k)]

\* HashSha1::reset and Hmac::reset.
ResetHash(k) == IF k.keyed THEN sha1Update(Fresh, i_key_pad(k)) ELSE Fresh

Digest(k, h) ==
  LET digest == DigestOf(sha1Final(h))
  IN IF k.keyed THEN Sha1(o_key_pad(k) \o digest) ELSE digest

-----------------------------------------------------------------------------
(* PBKDF2 and the key of a password *)

\* The one Hmac object is reset for each round.
Round(k, so_far) ==
  LET block == Digest(k, sha1Update(ResetHash(k), so_far.block))
  IN [block |-> block, U_r |-> bytes_xor(so_far.U_r, block)]

Salted(salt, index) == [block |-> salt \o int_to_bytes(index), U_r |-> Zeros(DigestSize)]

Rounds(k, salt, index, rounds) ==
  LET made[i \in 0 .. rounds] == IF i = 0 THEN Salted(salt, index) ELSE Round(k, made[i - 1])
  IN made

\* (Mutant: a block of the key is the last digest, not the xor of all.)
FLast(k, salt, index, rounds) == Rounds(k, salt, index, rounds)[rounds].block

F(k, salt, index, rounds) == Rounds(k, salt, index, rounds)[rounds].U_r

\* More than are needed: as many blocks as the key has bytes.
Blocks(length) == IF length > DigestSize THEN length ELSE DigestSize

BlocksMade(k, salt, rounds, length) ==
  LET tbuf[i \in 0 .. Blocks(length)] == IF i = 0 THEN <<>> ELSE tbuf[i - 1] \o F(k, salt, i, rounds)
  IN tbuf

pbkdf2(k, salt, rounds, length) ==
  SubSeq(BlocksMade(Keyed(k), salt, rounds, length)[Blocks(length)], 1, length)

\* strnlen: a longer password is cut.
Cut(password) == SubSeq(password, 1, IF Len(password) < MaxPassword THEN Len(password) ELSE MaxPassword)

\* (Mutant: the length before the password is the whole one.)
tcgHashPasswordUncut(no_hash, serial, password) ==
  <<Num(208), Num(Len(password))>> \o
    (IF no_hash THEN Cut(password) ELSE pbkdf2(Cut(password), <<>>, Iterations, KeyLength))

\* The serial number is made a salt, which key_spec does not get.
tcgHashPassword(no_hash, serial, password) ==
  LET bytes == IF no_hash THEN Cut(password) ELSE pbkdf2(Cut(password), <<>>, Iterations, KeyLength)
  IN <<Num(208), Num(Len(bytes))>> \o bytes

-----------------------------------------------------------------------------
(* The objects in use *)

NoResult == [of |-> "none", kind |-> Plain, arg |-> <<>>, bytes |-> <<>>]

Init ==
  /\ kind \in {Plain} \cup {Keyed(Text("key", n)) : n \in KeyLens}
  /\ hash = ResetHash(kind)
  /\ msg = <<>>
  /\ ready = TRUE
  /\ out = NoResult

Update(n) ==
  /\ Len(msg) + n <= MaxLen
  /\ LET data == [i \in 1 .. n |-> Byte("msg", Len(msg) + i)]
     IN hash' = sha1Update(hash, data) /\ msg' = msg \o data
  /\ out' = NoResult
  /\ UNCHANGED <<kind, ready>>

TakeDigest ==
  /\ out' = [of |-> IF ready THEN "digest" ELSE "spoiled", kind |-> kind, arg |-> msg,
             bytes |-> Digest(kind, hash)]
  /\ hash' = Wiped
  /\ ready' = FALSE
  /\ UNCHANGED <<kind, msg>>

Reset ==
  /\ hash' = ResetHash(kind)
  /\ msg' = <<>>
  /\ ready' = TRUE
  /\ out' = NoResult
  /\ UNCHANGED kind

\* Not before an object is used: the others are independent of it.
Derive(password, salt, rounds, length) ==
  /\ kind = Plain /\ msg = <<>> /\ ready /\ out = NoResult
  /\ out' = [of |-> "derive", kind |-> Keyed(password),
             arg |-> [salt |-> salt, rounds |-> rounds, length |-> length],
             bytes |-> pbkdf2(password, salt, rounds, length)]
  /\ UNCHANGED <<kind, hash, msg, ready>>

HashPassword(no_hash, serial, password) ==
  /\ kind = Plain /\ msg = <<>> /\ ready /\ out = NoResult
  /\ out' = [of |-> "password", kind |-> Keyed(password), arg |-> [plain |-> no_hash, serial |-> serial],
             bytes |-> tcgHashPassword(no_hash, serial, password)]
  /\ UNCHANGED <<kind, hash, msg, ready>>

Next ==
  \/ \E n \in Chunks : Update(n)
  \/ TakeDigest
  \/ Reset
  \/ \E n \in KeyLens, s \in SaltLens, rounds \in RoundCounts, length \in DerivedLens :
       Derive(Text("key", n), Text("salt", s), rounds, length)
  \/ \E no_hash \in BOOLEAN, serial \in {"s1", "s2"}, n \in PasswordLens, name \in {"p", "q"} :
       HashPassword(no_hash, serial, Text(name, n))

Spec == Init /\ [][Next]_vars

-----------------------------------------------------------------------------
(* What the standards say *)

\* FIPS 180: the message, a one bit, zeros, and the length in bits in the last
\* two words of the last block.
Padded(m) ==
  LET zeros == CHOOSE z \in 0 .. BlockSize - 1 : (Len(m) + 1 + z + 2 * WordSize) % BlockSize = 0
      bits == 8 * Len(m)
  IN m \o <<Num(128)>> \o Zeros(zeros) \o int_to_bytes((bits \div Word) % Word) \o int_to_bytes(bits % Word)

InBlocks(m) ==
  [b \in 1 .. Len(m) \div BlockSize |-> [p \in 1 .. BlockSize |-> m[(b - 1) * BlockSize + p]]]

StdHash(m) == DigestOf(InBlocks(Padded(m)))

\* RFC 2104: a key longer than a block is hashed first; zeros fill the block.
StdHmac(k, m) ==
  LET short == IF Len(k) > BlockSize THEN StdHash(k) ELSE k
      padded == short \o Zeros(BlockSize - Len(short))
      With(value) == [i \in 1 .. BlockSize |-> Xor(padded[i], Num(value))]
  IN StdHash(With(92) \o StdHash(With(54) \o m))

\* RFC 8018: U_c is the HMAC of the one before, U_1 that of salt and index.
StdU(k, a, index) ==
  LET U[c \in 0 .. a.rounds] ==
        IF c = 0 THEN a.salt \o int_to_bytes(index) ELSE StdHmac(k, U[c - 1])
  IN U

\* A byte of the xor of U_1 to U_c.
StdTs(k, a, index, at) ==
  LET T[c \in 0 .. a.rounds] == IF c = 0 THEN {} ELSE Xor(T[c - 1], StdU(k, a, index)[c][at])
  IN T

StdT(k, a, index, at) == StdTs(k, a, index, at)[a.rounds]

\* Byte n of the key is one of block T_i.
StdDerived(k, a, n) == StdT(k, a, ((n - 1) \div DigestSize) + 1, ((n - 1) % DigestSize) + 1)

-----------------------------------------------------------------------------
(* Properties *)

\* The key that an Hmac works with.  The exception: in place of one longer than
\* a block it takes a block of its own making, which is not RFC 2104's.
KeyTaken(k) == IF Len(k.key) > BlockSize THEN k.block_key ELSE k.key

\* The digest of an object that was reset after the one before is that of the
\* standard, SHA-1's or HMAC's (of the block that Hmac makes of a key longer
\* than a block), in whatever chunks the data came, also where the bit counter
\* wraps, and however often the object is used.
DigestIsStandard ==
  out.of = "digest" =>
    out.bytes = IF out.kind.keyed THEN StdHmac(KeyTaken(out.kind), out.arg) ELSE StdHash(out.arg)

\* PBKDF2 gives a key of the length asked for, although it derives more blocks
\* than the key has, up to several digests.  It is the key that RFC 8018 defines
\* if the password is no longer than a block; of a longer one it is not, because
\* Hmac does not take it as RFC 2104 says.
DerivedIsStandard ==
  out.of = "derive" =>
    /\ Len(out.bytes) = out.arg.length
    /\ Len(out.kind.key) <= BlockSize =>
         \A n \in 1 .. out.arg.length : out.bytes[n] = StdDerived(out.kind.key, out.arg, n)

\* The key of a password is a TCG atom of just its bytes: the first 32
\* characters of the password themselves, or the key that RFC 8018 derives of
\* them without a salt.  So the drive's serial number plays no part, and two
\* passwords have the same key only if they begin with the same 32 characters.
PasswordIsAtom ==
  out.of = "password" =>
    LET password == Cut(out.kind.key)
        key == SubSeq(out.bytes, 3, Len(out.bytes))
    IN /\ out.bytes[1] = Num(208) /\ out.bytes[2] = Num(Len(key))
       /\ out.arg.plain => key = password
       /\ ~out.arg.plain =>
            /\ Len(key) = KeyLength
            /\ \A n \in 1 .. KeyLength :
                 key[n] = StdDerived(password, [salt |-> <<>>, rounds |-> Iterations], n)
=============================================================================
