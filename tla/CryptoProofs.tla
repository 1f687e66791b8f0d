---------------------------- MODULE CryptoProofs -----------------------------
(***************************************************************************)
(* That the digests, keys and passwords of Crypto are the standards': what *)
(* a hash object holds is the message so far, cut into blocks, and each of *)
(* the loops makes step by step what the standard defines.                 *)
(***************************************************************************)
EXTENDS Crypto, SequenceTheorems, WellFoundedInduction, TLAPS

-----------------------------------------------------------------------------
(* Quotients and remainders *)

LEMMA Divided ==
  ASSUME NEW a \in Nat, NEW b \in Nat \ {0}
  PROVE  /\ a \div b \in Nat /\ a % b \in Nat /\ a % b < b
         /\ a = (a \div b) * b + (a % b)
OBVIOUS

LEMMA Product ==
  ASSUME NEW a \in Int, NEW b \in Int, NEW c \in Int
  PROVE  /\ a * c \in Int /\ (a + b) * c = a * c + b * c /\ (a - b) * c = a * c - b * c
OBVIOUS

LEMMA Ordered ==
  ASSUME NEW a \in Int, NEW b \in Int, NEW c \in Nat, a <= b
  PROVE  a * c <= b * c
OBVIOUS

LEMMA QuotientIs ==
  ASSUME NEW q \in Nat, NEW r \in Nat, NEW b \in Nat \ {0}, r < b
  PROVE  (q * b + r) \div b = q /\ (q * b + r) % b = r
OBVIOUS

LEMMA SameRemainder ==
  ASSUME NEW k \in Nat, NEW a \in Nat, NEW b \in Nat \ {0}
  PROVE  (k * b + a) % b = a % b /\ (k * b + a) \div b = k + (a \div b)
<1> DEFINE q == a \div b
           r == a % b
<1>1. q \in Nat /\ r \in Nat /\ r < b /\ a = q * b + r
  BY Divided
<1> HIDE DEF q, r
<1> DEFINE Q == k + q
<1>2. k * b + a = Q * b + r /\ Q \in Nat
  BY <1>1, Product
<1>3. Q = k + q
  OBVIOUS
<1> HIDE DEF Q
<1>4. (Q * b + r) \div b = Q /\ (Q * b + r) % b = r
  BY <1>1, <1>2, QuotientIs
<1>5. QED
  BY <1>2, <1>3, <1>4 DEF q, r

LEMMA RemainderOfSum ==
  ASSUME NEW a \in Nat, NEW c \in Nat, NEW b \in Nat \ {0}
  PROVE  ((a % b) + c) % b = (a + c) % b
<1> DEFINE q == a \div b
           r == a % b
<1>1. q \in Nat /\ r \in Nat /\ r < b /\ a = q * b + r
  BY Divided
<1> HIDE DEF q, r
<1> DEFINE d == r + c
<1>2. a + c = q * b + d /\ d \in Nat
  BY <1>1, Product
<1>3. d = r + c
  OBVIOUS
<1> HIDE DEF d
<1>4. (q * b + d) % b = d % b
  BY <1>1, <1>2, SameRemainder
<1>5. QED
  BY <1>2, <1>3, <1>4 DEF r

\* What is added to a % b fits, or fills it up and is cut itself.
LEMMA QuotientOfSum ==
  ASSUME NEW a \in Nat, NEW d \in Nat, NEW b \in Nat \ {0}
  PROVE  /\ (a % b) + d < b => (a + d) \div b = a \div b /\ (a + d) % b = (a % b) + d
         /\ (a % b) + d >= b =>
              /\ (a + d) \div b = (a \div b) + 1 + ((d - (b - (a % b))) \div b)
              /\ (a + d) % b = (d - (b - (a % b))) % b
<1> DEFINE q == a \div b
           r == a % b
<1>1. q \in Nat /\ r \in Nat /\ r < b /\ a = q * b + r
  BY Divided
<1> HIDE DEF q, r
<1>2. ASSUME r + d < b PROVE (a + d) \div b = q /\ (a + d) % b = r + d
  <2> DEFINE s == r + d
  <2>1. a + d = q * b + s /\ s \in Nat /\ s = r + d /\ s < b
    BY <1>1, <1>2, Product
  <2> HIDE DEF s
  <2>2. (q * b + s) \div b = q /\ (q * b + s) % b = s
    BY <1>1, <2>1, QuotientIs
  <2>3. QED
    BY <2>1, <2>2
<1>3. ASSUME r + d >= b
      PROVE  (a + d) \div b = q + 1 + ((d - (b - r)) \div b) /\ (a + d) % b = (d - (b - r)) % b
  <2> DEFINE e == d - (b - r)
  <2>1. e \in Nat
    BY <1>1, <1>3
  <2> DEFINE Q == q + 1
  <2>2. a + d = Q * b + e /\ Q \in Nat
    BY <1>1, Product
  <2>3. Q = q + 1
    OBVIOUS
  <2> HIDE DEF e, Q
  <2>4. (Q * b + e) \div b = Q + (e \div b) /\ (Q * b + e) % b = e % b
    BY <1>1, <2>1, <2>2, SameRemainder
  <2>5. QED
    BY <2>2, <2>3, <2>4 DEF e
<1>4. QED
  BY <1>2, <1>3 DEF q, r

\* A counter of bits in two words counts bits, in two words' width.
LEMMA WordsAdd ==
  ASSUME NEW x \in Nat, NEW d \in Nat, NEW W \in Nat \ {0}
  PROVE  LET add == d % W
             low == ((x % W) + add) % W
         IN /\ low = (x + d) % W
            /\ (((x \div W) % W) + (IF low < add THEN 1 ELSE 0) + (d \div W)) % W = ((x + d) \div W) % W
<1> DEFINE q == x \div W
           r == x % W
           p == d \div W
           add == d % W
           low == (r + add) % W
           carry == IF low < add THEN 1 ELSE 0
<1>1. q \in Nat /\ r \in Nat /\ r < W /\ x = q * W + r
  BY Divided
<1>2. p \in Nat /\ add \in Nat /\ add < W /\ d = p * W + add
  BY Divided
<1> HIDE DEF q, r, p, add
<1> DEFINE Q == q + p
           s == r + add
<1>3. x + d = Q * W + s /\ Q \in Nat /\ s \in Nat /\ low = s % W
  BY <1>1, <1>2, Product
<1>4. (x + d) % W = low /\ (x + d) \div W = (q + p) + (s \div W)
  <2> HIDE DEF Q, s
  <2>1. (Q * W + s) % W = s % W /\ (Q * W + s) \div W = Q + (s \div W)
    BY <1>3, SameRemainder
  <2>2. QED
    BY <1>3, <2>1 DEF Q
<1>5. carry = s \div W
  <2>1. CASE r + add < W
    <3>1. s \div W = 0 /\ s % W = s
      BY <1>3, <2>1
    <3>2. QED
      BY <1>1, <1>2, <1>3, <3>1
  <2>2. CASE r + add >= W
    <3> DEFINE t == s - W
    <3>1. s = 1 * W + t /\ t \in Nat /\ t < W
      BY <1>1, <1>2, <1>3, <2>2
    <3> HIDE DEF s, t
    <3>2. (1 * W + t) \div W = 1 /\ (1 * W + t) % W = t
      BY <3>1, QuotientIs
    <3>3. s \div W = 1 /\ s % W = t /\ t = s - W /\ s = r + add
      BY <3>1, <3>2 DEF s, t
    <3>4. t < add
      BY <1>1, <1>2, <3>3
    <3>5. QED
      BY <1>3, <3>3, <3>4
  <2>3. QED
    BY <1>1, <1>2, <2>1, <2>2
<1> HIDE DEF s, Q
<1>6. carry \in Nat /\ q \in Nat /\ p \in Nat
  BY <1>1, <1>2
<1> HIDE DEF carry, low
<1>7. ((q % W) + (carry + p)) % W = (q + (carry + p)) % W
  <2> DEFINE t == carry + p
  <2>1. t \in Nat
    BY <1>6
  <2> HIDE DEF t
  <2>2. ((q % W) + t) % W = (q + t) % W
    BY <1>6, <2>1, RemainderOfSum
  <2>3. QED
    BY <2>2 DEF t
<1>8. q % W \in Nat
  BY <1>6, Divided
<1>9. (q % W) + carry + p = (q % W) + (carry + p) /\ q + (carry + p) = q + p + carry
  BY <1>6, <1>8
<1>10. ((q % W) + carry + p) % W = ((x + d) \div W) % W
  BY <1>4, <1>5, <1>7, <1>9
<1>11. QED
  BY <1>4, <1>10 DEF q, r, p, add, low, carry

\* The bytes that a counter of bits tells in a buffer.
LEMMA BitsTell ==
  ASSUME NEW L \in Nat, NEW W \in Nat \ {0}, NEW b \in Nat \ {0}, W % (8 * b) = 0
  PROVE  (((8 * L) % W) \div 8) % b = L % b
<1> DEFINE K == W \div (8 * b)
           q == (8 * L) \div W
           c == (8 * L) % W
           e == L - (q * K) * b
<1>1. 8 * b \in Nat \ {0} /\ 8 * L \in Nat
  OBVIOUS
<1>2. K \in Nat /\ W = K * (8 * b)
  <2>1. K \in Nat /\ W = K * (8 * b) + 0
    BY <1>1, Divided
  <2>2. K * (8 * b) \in Int
    BY <1>1, <2>1
  <2> HIDE DEF K
  <2>3. QED
    BY <2>1, <2>2
<1>3. q \in Nat /\ c \in Nat /\ 8 * L = q * W + c
  BY <1>1, Divided
<1> HIDE DEF K, q, c
<1>4. q * W = 8 * ((q * K) * b) /\ q * K \in Nat /\ (q * K) * b \in Nat
  BY <1>2, <1>3
<1>5. c = 8 * e /\ e \in Nat /\ L = (q * K) * b + e
  <2> DEFINE P == (q * K) * b
             M == q * W
  <2>1. P \in Nat /\ M = 8 * P /\ 8 * L = M + c /\ e = L - P
    BY <1>3, <1>4
  <2> HIDE DEF P, M, e
  <2>2. c = 8 * e /\ e \in Nat /\ L = P + e
    BY <1>3, <2>1
  <2>3. QED
    BY <2>2 DEF P
<1> HIDE DEF e
<1>6. c \div 8 = e
  BY <1>5
<1>7. L % b = e % b
  <2> DEFINE Q == q * K
  <2>1. Q \in Nat /\ L = Q * b + e
    BY <1>4, <1>5
  <2> HIDE DEF Q
  <2>2. (Q * b + e) % b = e % b
    BY <1>5, <2>1, SameRemainder
  <2>3. QED
    BY <2>1, <2>2
<1>8. QED
  BY <1>6, <1>7 DEF c

-----------------------------------------------------------------------------
(* Sequences of bytes, whatever a byte is *)

IsSeq(s) == \E S : s \in Seq(S)

LEMMA SeqIs ==
  ASSUME NEW s, IsSeq(s)
  PROVE  Len(s) \in Nat /\ DOMAIN s = 1 .. Len(s) /\ s = [i \in 1 .. Len(s) |-> s[i]]
<1>1. PICK S : s \in Seq(S)
  BY DEF IsSeq
<1>2. Len(s) \in Nat /\ s \in [1 .. Len(s) -> S] /\ DOMAIN s = 1 .. Len(s)
  BY <1>1, LenProperties
<1>3. QED
  BY <1>2

LEMMA SeqMade ==
  ASSUME NEW n \in Nat, NEW s, s = [i \in 1 .. n |-> s[i]]
  PROVE  IsSeq(s) /\ Len(s) = n
<1> DEFINE S == {s[i] : i \in 1 .. n}
<1>1. s \in [1 .. n -> S]
  OBVIOUS
<1> HIDE DEF S
<1>2. s \in UNION {[1 .. m -> S] : m \in Nat}
  BY <1>1
<1>3. s \in Seq(S)
  BY <1>2, SeqDef
<1>4. Len(s) \in Nat /\ DOMAIN s = 1 .. Len(s) /\ DOMAIN s = 1 .. n
  BY <1>1, <1>3, LenProperties
<1>5. Len(s) = n
  BY <1>4
<1>6. QED
  BY <1>3, <1>5 DEF IsSeq

LEMMA SameSeq ==
  ASSUME NEW s, NEW t, IsSeq(s), IsSeq(t), Len(s) = Len(t), \A i \in 1 .. Len(s) : s[i] = t[i]
  PROVE  s = t
BY SeqIs

LEMMA Joined ==
  ASSUME NEW s, NEW t, IsSeq(s), IsSeq(t)
  PROVE  /\ IsSeq(s \o t) /\ Len(s \o t) = Len(s) + Len(t)
         /\ \A i \in 1 .. Len(s) : (s \o t)[i] = s[i]
         /\ \A i \in 1 .. Len(t) : (s \o t)[Len(s) + i] = t[i]
<1>1. PICK S : s \in Seq(S)
  BY DEF IsSeq
<1>2. PICK T : t \in Seq(T)
  BY DEF IsSeq
<1> DEFINE U == S \cup T
<1>3. s \in Seq(U) /\ t \in Seq(U)
  BY <1>1, <1>2, SeqMonotonic
<1> HIDE DEF U
<1>4. /\ s \o t \in Seq(U)
      /\ Len(s \o t) = Len(s) + Len(t)
      /\ \A i \in 1 .. Len(s) + Len(t) : (s \o t)[i] = IF i <= Len(s) THEN s[i] ELSE t[i - Len(s)]
  BY <1>3, ConcatProperties
<1>5. Len(s) \in Nat /\ Len(t) \in Nat
  BY SeqIs
<1>6. IsSeq(s \o t)
  BY <1>4 DEF IsSeq
<1>7. ASSUME NEW i \in 1 .. Len(s) PROVE (s \o t)[i] = s[i]
  BY <1>4, <1>5
<1>8. ASSUME NEW i \in 1 .. Len(t) PROVE (s \o t)[Len(s) + i] = t[i]
  <2>1. Len(s) + i \in 1 .. Len(s) + Len(t) /\ ~ (Len(s) + i <= Len(s)) /\ (Len(s) + i) - Len(s) = i
    BY <1>5
  <2>2. QED
    BY <1>4, <2>1
<1>9. QED
  BY <1>4, <1>6, <1>7, <1>8

\* By the place in the whole.
LEMMA JoinedAt ==
  ASSUME NEW s, NEW t, IsSeq(s), IsSeq(t), NEW i \in Nat, Len(s) < i, i <= Len(s) + Len(t)
  PROVE  (s \o t)[i] = t[i - Len(s)]
<1>1. Len(s) \in Nat /\ Len(t) \in Nat
  BY SeqIs
<1>2. i - Len(s) \in 1 .. Len(t) /\ Len(s) + (i - Len(s)) = i
  BY <1>1
<1>3. QED
  BY <1>2, Joined

LEMMA Appended ==
  ASSUME NEW s, NEW e, IsSeq(s)
  PROVE  /\ IsSeq(Append(s, e)) /\ Len(Append(s, e)) = Len(s) + 1
         /\ \A i \in 1 .. Len(s) : Append(s, e)[i] = s[i]
         /\ Append(s, e)[Len(s) + 1] = e
<1>1. PICK S : s \in Seq(S)
  BY DEF IsSeq
<1> DEFINE U == S \cup {e}
<1>2. s \in Seq(U) /\ e \in U
  BY <1>1, SeqMonotonic
<1> HIDE DEF U
<1>3. QED
  BY <1>2, AppendProperties DEF IsSeq

LEMMA Associative ==
  ASSUME NEW s, NEW t, NEW u, IsSeq(s), IsSeq(t), IsSeq(u)
  PROVE  (s \o t) \o u = s \o (t \o u)
<1>1. PICK S : s \in Seq(S)
  BY DEF IsSeq
<1>2. PICK T : t \in Seq(T)
  BY DEF IsSeq
<1>3. PICK V : u \in Seq(V)
  BY DEF IsSeq
<1> DEFINE U == S \cup T \cup V
<1>4. s \in Seq(U) /\ t \in Seq(U) /\ u \in Seq(U)
  BY <1>1, <1>2, <1>3, SeqMonotonic
<1> HIDE DEF U
<1>5. QED
  BY <1>4, ConcatAssociative

LEMMA EmptyIs == IsSeq(<<>>) /\ Len(<<>>) = 0
<1>1. <<>> \in Seq({}) /\ Len(<<>>) = 0
  BY EmptySeq
<1>2. QED
  BY <1>1 DEF IsSeq

LEMMA EmptyJoined ==
  ASSUME NEW s, IsSeq(s)
  PROVE  <<>> \o s = s /\ s \o <<>> = s
<1>1. PICK S : s \in Seq(S)
  BY DEF IsSeq
<1>2. QED
  BY <1>1, ConcatEmptySeq

LEMMA BeginningIs ==
  ASSUME NEW s, IsSeq(s), NEW n \in Nat, n <= Len(s)
  PROVE  /\ IsSeq(SubSeq(s, 1, n)) /\ Len(SubSeq(s, 1, n)) = n
         /\ \A i \in 1 .. n : SubSeq(s, 1, n)[i] = s[i]
<1>1. Len(s) \in Nat
  BY SeqIs
<1> DEFINE S == {s[i] : i \in 1 .. Len(s)}
<1>2. \A i \in 1 .. n : s[i] \in S
  BY <1>1
<1> HIDE DEF S
<1>3. /\ SubSeq(s, 1, n) \in Seq(S)
      /\ Len(SubSeq(s, 1, n)) = IF 1 <= n THEN n - 1 + 1 ELSE 0
      /\ \A i \in 1 .. n - 1 + 1 : SubSeq(s, 1, n)[i] = s[1 + i - 1]
  BY <1>2, SubSeqProperties
<1>4. n - 1 + 1 = n /\ (n = 0 \/ 1 <= n) /\ \A i \in 1 .. n : 1 + i - 1 = i
  OBVIOUS
<1>5. IsSeq(SubSeq(s, 1, n))
  BY <1>3 DEF IsSeq
<1>6. QED
  BY <1>3, <1>4, <1>5

LEMMA SingleIs ==
  ASSUME NEW e
  PROVE  IsSeq(<<e>>) /\ Len(<<e>>) = 1 /\ <<e>>[1] = e
<1>1. <<e>> \in Seq({e}) /\ Len(<<e>>) = 1 /\ <<e>>[1] = e
  OBVIOUS
<1>2. QED
  BY <1>1 DEF IsSeq

LEMMA PairIs ==
  ASSUME NEW e, NEW f
  PROVE  IsSeq(<<e, f>>) /\ Len(<<e, f>>) = 2 /\ <<e, f>>[1] = e /\ <<e, f>>[2] = f
<1>1. <<e, f>> \in Seq({e, f}) /\ Len(<<e, f>>) = 2 /\ <<e, f>>[1] = e /\ <<e, f>>[2] = f
  OBVIOUS
<1>2. QED
  BY <1>1 DEF IsSeq

LEMMA ZerosAre ==
  ASSUME NEW n \in Nat
  PROVE  IsSeq(Zeros(n)) /\ Len(Zeros(n)) = n /\ \A i \in 1 .. n : Zeros(n)[i] = {}
<1>1. Zeros(n) = [i \in 1 .. n |-> Zeros(n)[i]] /\ \A i \in 1 .. n : Zeros(n)[i] = {}
  BY DEF Zeros
<1>2. QED
  BY <1>1, SeqMade

LEMMA WordIs ==
  ASSUME NEW n
  PROVE  IsSeq(int_to_bytes(n)) /\ Len(int_to_bytes(n)) = WordSize
<1>1. int_to_bytes(n) = [i \in 1 .. WordSize |-> int_to_bytes(n)[i]] /\ WordSize \in Nat
  BY CryptoAssumption DEF int_to_bytes
<1>2. QED
  BY <1>1, SeqMade

LEMMA TextIs ==
  ASSUME NEW name, NEW n \in Nat
  PROVE  IsSeq(Text(name, n)) /\ Len(Text(name, n)) = n
<1>1. Text(name, n) = [i \in 1 .. n |-> Text(name, n)[i]]
  BY DEF Text
<1>2. QED
  BY <1>1, SeqMade

LEMMA DigestIs ==
  ASSUME NEW blocks
  PROVE  IsSeq(DigestOf(blocks)) /\ Len(DigestOf(blocks)) = DigestSize
<1>1. DigestOf(blocks) = [i \in 1 .. DigestSize |-> DigestOf(blocks)[i]] /\ DigestSize \in Nat
  BY CryptoAssumption DEF DigestOf
<1>2. QED
  BY <1>1, SeqMade

-----------------------------------------------------------------------------
(* What an object holds *)

\* The object took in data: its whole blocks, the rest in the buffer, the bits.
Holds(h, data) ==
  /\ h.blocks = InBlocks(data)
  /\ \A p \in 1 .. Len(data) % BlockSize : h.buffer[p] = data[(Len(data) \div BlockSize) * BlockSize + p]
  /\ h.count = <<(8 * Len(data)) % Word, ((8 * Len(data)) \div Word) % Word>>

LEMMA SizesAre ==
  /\ BlockSize \in Nat \ {0} /\ WordSize \in Nat \ {0} /\ 2 * WordSize <= BlockSize
  /\ Word \in Nat \ {0} /\ Word % (8 * BlockSize) = 0 /\ DigestSize \in Nat \ {0}
BY CryptoAssumption

LEMMA InBlocksAre ==
  ASSUME NEW m, IsSeq(m)
  PROVE  /\ IsSeq(InBlocks(m)) /\ Len(InBlocks(m)) = Len(m) \div BlockSize
         /\ Len(m) \div BlockSize \in Nat
         /\ \A b \in 1 .. Len(m) \div BlockSize :
              InBlocks(m)[b] = [p \in 1 .. BlockSize |-> m[(b - 1) * BlockSize + p]]
<1>1. Len(m) \div BlockSize \in Nat
  BY SeqIs, SizesAre, Divided
<1>2. InBlocks(m) = [b \in 1 .. Len(m) \div BlockSize |-> InBlocks(m)[b]]
  BY DEF InBlocks
<1>3. IsSeq(InBlocks(m)) /\ Len(InBlocks(m)) = Len(m) \div BlockSize
  BY <1>1, <1>2, SeqMade
<1>4. \A b \in 1 .. Len(m) \div BlockSize :
              InBlocks(m)[b] = [p \in 1 .. BlockSize |-> m[(b - 1) * BlockSize + p]]
  BY DEF InBlocks
<1>5. QED
  BY <1>1, <1>3, <1>4

\* Byte p of block b is in front of the end of block q.
LEMMA Place ==
  ASSUME NEW q \in Nat, NEW b \in 1 .. q, NEW p \in 1 .. BlockSize
  PROVE  (b - 1) * BlockSize + p \in 1 .. q * BlockSize
<1>1. BlockSize \in Nat \ {0}
  BY SizesAre
<1>2. (b - 1) * BlockSize \in Int /\ 0 * BlockSize <= (b - 1) * BlockSize
  BY <1>1, Ordered, Product
<1>3. b * BlockSize <= q * BlockSize /\ b * BlockSize = (b - 1) * BlockSize + BlockSize
  BY <1>1, Ordered, Product
<1>4. q * BlockSize \in Int /\ 0 * BlockSize = 0
  BY <1>1
<1> DEFINE x == (b - 1) * BlockSize
           y == q * BlockSize
<1>5. x \in Int /\ 0 <= x /\ x + BlockSize <= y /\ y \in Int
  BY <1>2, <1>3, <1>4
<1> HIDE DEF x, y
<1>6. x + p \in 1 .. y
  BY <1>1, <1>5
<1>7. QED
  BY <1>6 DEF x, y

LEMMA CountIs ==
  ASSUME NEW L \in Nat, NEW len \in Nat
  PROVE  Count(<<(8 * L) % Word, ((8 * L) \div Word) % Word>>, len)
           = <<(8 * (L + len)) % Word, ((8 * (L + len)) \div Word) % Word>>
<1> DEFINE x == 8 * L
           d == 8 * len
<1>1. x \in Nat /\ d \in Nat /\ 8 * (L + len) = x + d /\ Word \in Nat \ {0}
  BY SizesAre
<1> HIDE DEF x, d
<1>2. Count(<<x % Word, (x \div Word) % Word>>, len) = <<(x + d) % Word, ((x + d) \div Word) % Word>>
  <2>1. LET add == d % Word
            low == ((x % Word) + add) % Word
        IN /\ low = (x + d) % Word
           /\ (((x \div Word) % Word) + (IF low < add THEN 1 ELSE 0) + (d \div Word)) % Word
                = ((x + d) \div Word) % Word
    BY <1>1, WordsAdd
  <2> DEFINE c == <<x % Word, (x \div Word) % Word>>
  <2>2. c[1] = x % Word /\ c[2] = (x \div Word) % Word
    OBVIOUS
  <2> HIDE DEF c
  <2>3. Count(c, len) = <<(x + d) % Word, ((x + d) \div Word) % Word>>
    BY <2>1, <2>2 DEF Count, d
  <2>4. QED
    BY <2>3 DEF c
<1>3. QED
  BY <1>1, <1>2 DEF x

\* sha1Update, as it says it: the two cases and what they leave.
After(h, data, blocks, buffer, at, i) ==
  [blocks |-> blocks, count |-> Count(h.count, Len(data)),
   buffer |-> [p \in 1 .. BlockSize |->
                 IF p > at /\ p <= at + Len(data) - i THEN data[i + p - at] ELSE buffer[p]]]

Full(h, data, j) == [p \in 1 .. BlockSize |-> IF p <= j THEN h.buffer[p] ELSE data[p - j]]

Whole(data, first, direct) ==
  [b \in 1 .. direct |-> [p \in 1 .. BlockSize |-> data[first + (b - 1) * BlockSize + p]]]

LEMMA UpdateIs ==
  ASSUME NEW h, NEW data, NEW j, j = Used(h.count), j \in Nat, Len(data) \in Nat,
         NEW first, first = BlockSize - j, NEW direct, direct = (Len(data) - first) \div BlockSize
  PROVE  /\ j + Len(data) < BlockSize =>
              sha1Update(h, data) = After(h, data, h.blocks, h.buffer, j, 0)
         /\ j + Len(data) >= BlockSize =>
              sha1Update(h, data) =
                After(h, data, sha1Transform(h.blocks, Full(h, data, j)) \o Whole(data, first, direct),
                      Full(h, data, j), 0, first + direct * BlockSize)
<1>1. BlockSize \in Nat
  BY SizesAre
<1>2. ASSUME j + Len(data) < BlockSize
      PROVE  sha1Update(h, data) = After(h, data, h.blocks, h.buffer, j, 0)
  <2>1. ~ (j + Len(data) > BlockSize - 1)
    BY <1>1, <1>2
  <2>2. QED
    BY Zenon, <2>1 DEF sha1Update, After
<1>3. ASSUME j + Len(data) >= BlockSize
      PROVE  sha1Update(h, data) =
                After(h, data, sha1Transform(h.blocks, Full(h, data, j)) \o Whole(data, first, direct),
                      Full(h, data, j), 0, first + direct * BlockSize)
  <2>1. j + Len(data) > BlockSize - 1
    BY <1>1, <1>3
  <2>2. QED
    BY Zenon, <2>1 DEF sha1Update, After, Full, Whole
<1>4. QED
  BY <1>2, <1>3

LEMMA UsedIs ==
  ASSUME NEW h, NEW data, IsSeq(data), Holds(h, data)
  PROVE  Used(h.count) = Len(data) % BlockSize
<1>1. h.count[1] = (8 * Len(data)) % Word
  BY DEF Holds
<1>2. Len(data) \in Nat
  BY SeqIs
<1>3. (((8 * Len(data)) % Word) \div 8) % BlockSize = Len(data) % BlockSize
  BY <1>2, SizesAre, BitsTell
<1>4. QED
  BY <1>1, <1>3 DEF Used

\* The blocks in front stay what they are when data comes behind.
LEMMA BlocksStay ==
  ASSUME NEW m, NEW data, IsSeq(m), IsSeq(data), NEW b \in 1 .. Len(m) \div BlockSize
  PROVE  [p \in 1 .. BlockSize |-> (m \o data)[(b - 1) * BlockSize + p]] = InBlocks(m)[b]
<1> DEFINE q == Len(m) \div BlockSize
<1>1. q \in Nat /\ Len(m) \in Nat /\ q * BlockSize \in Int /\ q * BlockSize <= Len(m)
  <2>1. q \in Nat /\ Len(m) \in Nat /\ (Len(m) % BlockSize) \in Nat
        /\ Len(m) = q * BlockSize + (Len(m) % BlockSize)
    BY SeqIs, SizesAre, Divided
  <2>2. q * BlockSize \in Int
    BY <2>1, SizesAre, Product
  <2> HIDE DEF q
  <2>3. QED
    BY <2>1, <2>2
<1>2. ASSUME NEW p \in 1 .. BlockSize
      PROVE  (m \o data)[(b - 1) * BlockSize + p] = m[(b - 1) * BlockSize + p]
  <2> DEFINE x == (b - 1) * BlockSize + p
             y == q * BlockSize
  <2>1. x \in 1 .. y
    BY <1>1, Place
  <2>2. y \in Int /\ y <= Len(m) /\ Len(m) \in Nat
    BY <1>1
  <2> HIDE DEF x, y
  <2>3. x \in 1 .. Len(m)
    BY <2>1, <2>2
  <2>4. (m \o data)[x] = m[x]
    BY <2>3, Joined
  <2>5. QED
    BY <2>4 DEF x
<1>3. [p \in 1 .. BlockSize |-> (m \o data)[(b - 1) * BlockSize + p]]
        = [p \in 1 .. BlockSize |-> m[(b - 1) * BlockSize + p]]
  BY <1>2
<1>4. InBlocks(m)[b] = [p \in 1 .. BlockSize |-> m[(b - 1) * BlockSize + p]]
  BY InBlocksAre
<1>5. QED
  BY <1>3, <1>4

\* However data comes, the object holds it behind what it held.
LEMMA Updated ==
  ASSUME NEW h, NEW m, NEW data, IsSeq(m), IsSeq(data), Holds(h, m)
  PROVE  Holds(sha1Update(h, data), m \o data) /\ IsSeq(m \o data)
<1> DEFINE B == BlockSize
           L == Len(m)
           len == Len(data)
           E == m \o data
           q == L \div B
           j == L % B
           first == B - j
           direct == (len - first) \div B
           new == sha1Update(h, data)
<1>1. B \in Nat \ {0} /\ L \in Nat /\ len \in Nat
  BY SizesAre, SeqIs
<1>2. q \in Nat /\ j \in Nat /\ j < B /\ L = q * B + j
  BY <1>1, Divided
<1>3. IsSeq(E) /\ Len(E) = L + len
  BY Joined
<1>4. j = Used(h.count)
  BY UsedIs
<1>5. /\ j + len < B => new = After(h, data, h.blocks, h.buffer, j, 0)
      /\ j + len >= B => new = After(h, data, sha1Transform(h.blocks, Full(h, data, j)) \o Whole(data, first, direct),
                                     Full(h, data, j), 0, first + direct * B)
  BY <1>1, <1>2, <1>4, UpdateIs
<1>6. new.count = <<(8 * Len(E)) % Word, ((8 * Len(E)) \div Word) % Word>>
  <2>1. new.count = Count(h.count, len)
    <3>1. CASE j + len < B
      BY <1>5, <3>1 DEF After
    <3>2. CASE j + len >= B
      BY <1>5, <3>2 DEF After
    <3>3. QED
      BY <1>1, <1>2, <3>1, <3>2
  <2>2. h.count = <<(8 * L) % Word, ((8 * L) \div Word) % Word>>
    BY DEF Holds
  <2>3. Count(<<(8 * L) % Word, ((8 * L) \div Word) % Word>>, len)
          = <<(8 * (L + len)) % Word, ((8 * (L + len)) \div Word) % Word>>
    BY <1>1, CountIs
  <2>4. QED
    BY <1>3, <2>1, <2>2, <2>3
<1>7. /\ h.blocks = InBlocks(m)
      /\ \A p \in 1 .. j : h.buffer[p] = m[q * B + p]
  BY DEF Holds
<1>8. /\ j + len < B => Len(E) \div B = q /\ Len(E) % B = j + len
      /\ j + len >= B => Len(E) \div B = q + 1 + direct /\ Len(E) % B = (len - first) % B
  <2> HIDE DEF L, len, B
  <2>1. /\ (L % B) + len < B => (L + len) \div B = L \div B /\ (L + len) % B = (L % B) + len
        /\ (L % B) + len >= B =>
             /\ (L + len) \div B = (L \div B) + 1 + ((len - (B - (L % B))) \div B)
             /\ (L + len) % B = (len - (B - (L % B))) % B
    BY <1>1, QuotientOfSum
  <2>2. QED
    BY <1>3, <2>1
<1>9. \A b \in 1 .. q : [p \in 1 .. B |-> E[(b - 1) * B + p]] = InBlocks(m)[b]
  BY BlocksStay
<1>10. IsSeq(InBlocks(m)) /\ Len(InBlocks(m)) = q
  BY InBlocksAre
<1>11. q * B \in Nat
  BY <1>1, <1>2
\* What is at a place behind the data that was there.
<1>12. ASSUME NEW x \in Nat, x <= L + len
       PROVE  /\ x > L => E[x] = data[x - L]
              /\ x \in 1 .. L => E[x] = m[x]
  BY <1>12, JoinedAt, Joined
<1> HIDE DEF L, len, E, q, j, new, first, direct, B
<1>13. ASSUME j + len < B PROVE Holds(new, E)
  <2>1. Len(E) \div B = q /\ Len(E) % B = j + len /\ new = After(h, data, h.blocks, h.buffer, j, 0)
    BY <1>5, <1>8, <1>13
  <2>2. InBlocks(E) = InBlocks(m)
    <3>1. IsSeq(InBlocks(E)) /\ Len(InBlocks(E)) = q
      BY <1>3, <2>1, InBlocksAre DEF B
    <3>2. \A b \in 1 .. q : InBlocks(E)[b] = [p \in 1 .. B |-> E[(b - 1) * B + p]]
      BY <1>3, <2>1, InBlocksAre DEF B
    <3>3. \A b \in 1 .. q : InBlocks(E)[b] = InBlocks(m)[b]
      BY <1>9, <3>2
    <3>4. QED
      BY <1>10, <3>1, <3>3, SameSeq
  <2>3. new.blocks = InBlocks(E)
    BY <1>7, <2>1, <2>2 DEF After
  <2>4. ASSUME NEW p \in 1 .. j + len PROVE new.buffer[p] = E[q * B + p]
    <3>1. p \in 1 .. BlockSize
      BY <1>1, <1>2, <1>13 DEF B
    <3>2. new.buffer[p] = IF p > j /\ p <= j + len - 0 THEN data[0 + p - j] ELSE h.buffer[p]
      BY <2>1, <3>1 DEF After, len
    <3> DEFINE y == q * B
    <3>3. y \in Nat /\ L = y + j /\ y + p \in Nat /\ y + p <= L + len
      BY <1>1, <1>2, <1>11
    <3> HIDE DEF y
    <3>4. CASE p > j
      <4>1. new.buffer[p] = data[p - j]
        BY <1>1, <1>2, <3>2, <3>4
      <4>2. y + p > L /\ (y + p) - L = p - j
        BY <1>1, <1>2, <3>3, <3>4
      <4>3. E[y + p] = data[(y + p) - L]
        BY <1>12, <3>3, <4>2
      <4>4. QED
        BY <4>1, <4>2, <4>3 DEF y
    <3>5. CASE p <= j
      <4>1. new.buffer[p] = h.buffer[p] /\ p \in 1 .. j
        BY <1>1, <1>2, <3>2, <3>5
      <4>2. h.buffer[p] = m[y + p]
        BY <1>7, <4>1 DEF y
      <4>3. y + p \in 1 .. L
        BY <1>1, <1>2, <3>3, <3>5
      <4>4. E[y + p] = m[y + p]
        BY <1>12, <3>3, <4>3
      <4>5. QED
        BY <4>1, <4>2, <4>4 DEF y
    <3>6. QED
      BY <1>2, <3>4, <3>5
  <2>5. QED
    BY <1>6, <2>1, <2>3, <2>4 DEF Holds, B
<1>14. ASSUME j + len >= B PROVE Holds(new, E)
  <2> DEFINE full == Full(h, data, j)
             whole == Whole(data, first, direct)
             r == (len - first) % B
             y == q * B
             i == first + direct * B
  <2>1. /\ Len(E) \div B = q + 1 + direct /\ Len(E) % B = r
        /\ new = After(h, data, sha1Transform(h.blocks, full) \o whole, full, 0, i)
    BY <1>5, <1>8, <1>14
  <2>2. first \in Nat /\ first = B - j /\ len - first \in Nat
    BY <1>1, <1>2, <1>14 DEF first
  <2>3. direct \in Nat /\ r \in Nat /\ r < B /\ len - first = direct * B + r /\ direct * B \in Nat
    <3>1. direct \in Nat /\ r \in Nat /\ r < B /\ len - first = direct * B + r
      BY <1>1, <2>2, Divided DEF direct
    <3>2. QED
      BY <1>1, <3>1
  <2>4. y \in Nat /\ L = y + j
    BY <1>2, <1>11
  <2>5. IsSeq(whole) /\ Len(whole) = direct
    <3>1. whole = [b \in 1 .. direct |-> whole[b]]
      BY DEF Whole
    <3>2. QED
      BY <2>3, <3>1, SeqMade
  <2>6. /\ IsSeq(Append(InBlocks(m), full)) /\ Len(Append(InBlocks(m), full)) = q + 1
        /\ \A b \in 1 .. q : Append(InBlocks(m), full)[b] = InBlocks(m)[b]
        /\ Append(InBlocks(m), full)[q + 1] = full
    BY <1>10, Appended
  <2>7. new.blocks = Append(InBlocks(m), full) \o whole
    BY <1>7, <2>1 DEF After, sha1Transform
  <2> DEFINE made == Append(InBlocks(m), full) \o whole
  <2>8. /\ IsSeq(made) /\ Len(made) = q + 1 + direct
        /\ \A b \in 1 .. q + 1 : made[b] = Append(InBlocks(m), full)[b]
        /\ \A b \in 1 .. direct : made[q + 1 + b] = whole[b]
    <3> DEFINE front == Append(InBlocks(m), full)
    <3>1. IsSeq(front) /\ Len(front) = q + 1
      BY <2>6
    <3> HIDE DEF front, whole
    <3>2. /\ IsSeq(front \o whole) /\ Len(front \o whole) = Len(front) + Len(whole)
          /\ \A b \in 1 .. Len(front) : (front \o whole)[b] = front[b]
          /\ \A b \in 1 .. Len(whole) : (front \o whole)[Len(front) + b] = whole[b]
      BY <2>5, <3>1, Joined
    <3>3. made = front \o whole
      BY DEF front
    <3> HIDE DEF made
    <3>4. /\ IsSeq(made) /\ Len(made) = q + 1 + direct
          /\ \A b \in 1 .. q + 1 : made[b] = front[b]
          /\ \A b \in 1 .. direct : made[q + 1 + b] = whole[b]
      BY <2>5, <3>1, <3>2, <3>3
    <3>5. QED
      BY <3>4 DEF front
  <2>9. /\ IsSeq(InBlocks(E)) /\ Len(InBlocks(E)) = q + 1 + direct
        /\ \A b \in 1 .. q + 1 + direct : InBlocks(E)[b] = [p \in 1 .. B |-> E[(b - 1) * B + p]]
    <3>1. /\ IsSeq(InBlocks(E)) /\ Len(InBlocks(E)) = Len(E) \div B
          /\ \A b \in 1 .. Len(E) \div B : InBlocks(E)[b] = [p \in 1 .. B |-> E[(b - 1) * B + p]]
      BY <1>3, InBlocksAre DEF B
    <3>2. Len(E) \div B = q + 1 + direct
      BY <2>1
    <3>3. QED
      BY <3>1, <3>2
  <2> HIDE DEF made
  \* The blocks that were taken in before.
  <2>10. ASSUME NEW b \in 1 .. q PROVE made[b] = InBlocks(E)[b]
    <3>1. b \in 1 .. q + 1 /\ b \in 1 .. q + 1 + direct
      BY <1>2, <2>3
    <3>2. made[b] = InBlocks(m)[b]
      BY <2>6, <2>8, <3>1
    <3>3. QED
      BY <1>9, <2>9, <3>1, <3>2
  \* The buffer that was filled up.
  <2>11. made[q + 1] = InBlocks(E)[q + 1]
    <3>1. q + 1 \in 1 .. q + 1 /\ q + 1 \in 1 .. q + 1 + direct /\ (q + 1) - 1 = q
      BY <1>2, <2>3
    <3>2. made[q + 1] = full
      BY <2>6, <2>8, <3>1
    <3>3. InBlocks(E)[q + 1] = [p \in 1 .. B |-> E[y + p]]
      BY <2>9, <3>1
    <3>4. ASSUME NEW p \in 1 .. B PROVE full[p] = E[y + p]
      <4>1. full[p] = IF p <= j THEN h.buffer[p] ELSE data[p - j]
        BY DEF Full, B
      <4> HIDE DEF y
      <4>2. y + p \in Nat /\ y + p <= L + len
        BY <1>1, <1>2, <1>14, <2>4
      <4>3. CASE p <= j
        <5>1. p \in 1 .. j /\ y + p \in 1 .. L
          BY <1>1, <1>2, <2>4, <4>3
        <5>2. h.buffer[p] = m[y + p]
          BY <1>7, <5>1 DEF y
        <5>3. E[y + p] = m[y + p]
          BY <1>12, <4>2, <5>1
        <5>4. QED
          BY <4>1, <4>3, <5>2, <5>3
      <4>4. CASE p > j
        <5>1. y + p > L /\ (y + p) - L = p - j /\ ~ (p <= j)
          BY <1>1, <1>2, <2>4, <4>4
        <5>2. E[y + p] = data[(y + p) - L]
          BY <1>12, <4>2, <5>1
        <5>3. QED
          BY <4>1, <5>1, <5>2
      <4>5. QED
        BY <1>2, <4>3, <4>4
    <3>5. full = [p \in 1 .. B |-> full[p]]
      BY DEF Full, B
    <3> HIDE DEF full
    <3>6. QED
      BY <3>2, <3>3, <3>4, <3>5
  \* The blocks that come from the data directly.
  <2>12. ASSUME NEW b \in 1 .. direct PROVE made[q + 1 + b] = InBlocks(E)[q + 1 + b]
    <3>1. q + 1 + b \in 1 .. q + 1 + direct /\ (q + 1 + b) - 1 = q + b
      BY <1>2, <2>3
    <3>2. made[q + 1 + b] = [p \in 1 .. B |-> data[first + (b - 1) * B + p]]
      BY <2>8 DEF Whole, B
    <3>3. InBlocks(E)[q + 1 + b] = [p \in 1 .. B |-> E[(q + b) * B + p]]
      BY <2>9, <3>1
    <3>4. ASSUME NEW p \in 1 .. B PROVE E[(q + b) * B + p] = data[first + (b - 1) * B + p]
      <4> DEFINE x == (q + b) * B
                 z == (b - 1) * B
      <4>1. x = y + z + B /\ z \in Int
        BY <1>1, <1>2, Product
      <4>2. z + p \in 1 .. direct * B
        BY <2>3, Place DEF B
      <4> DEFINE w == direct * B
      <4>3. w \in Nat /\ len - first = w + r
        BY <2>3
      <4> HIDE DEF x, y, z, w
      <4>4. x + p = y + z + B + p /\ z + p <= w /\ 1 <= z + p
        BY <1>1, <2>4, <4>1, <4>2 DEF w
      <4>5. x + p \in Nat /\ x + p <= L + len /\ x + p > L /\ (x + p) - L = first + z + p
        BY <1>1, <1>2, <2>2, <2>3, <2>4, <4>1, <4>3, <4>4
      <4>6. E[x + p] = data[(x + p) - L]
        BY <1>12, <4>5
      <4>7. QED
        BY <4>5, <4>6 DEF x, z
    <3>5. [p \in 1 .. B |-> E[(q + b) * B + p]] = [p \in 1 .. B |-> data[first + (b - 1) * B + p]]
      BY <3>4
    <3>6. QED
      BY <3>2, <3>3, <3>5
  <2>13. made = InBlocks(E)
    <3>1. ASSUME NEW b \in 1 .. q + 1 + direct PROVE made[b] = InBlocks(E)[b]
      <4>1. CASE b \in 1 .. q
        BY <2>10, <4>1
      <4>2. CASE b = q + 1
        BY <2>11, <4>2
      <4>3. CASE b > q + 1
        <5>1. b - (q + 1) \in 1 .. direct /\ q + 1 + (b - (q + 1)) = b
          BY <1>2, <2>3, <4>3
        <5>2. QED
          BY <2>12, <5>1
      <4>4. QED
        BY <1>2, <2>3, <4>1, <4>2, <4>3
    <3>2. QED
      BY <2>8, <2>9, <3>1, SameSeq
  <2>14. ASSUME NEW p \in 1 .. r PROVE new.buffer[p] = E[(q + 1 + direct) * B + p]
    <3> DEFINE w == direct * B
               x == (q + 1 + direct) * B
    <3>1. p \in 1 .. BlockSize
      BY <1>1, <2>3 DEF B
    <3>2. new.buffer[p] = IF p > 0 /\ p <= 0 + len - i THEN data[i + p - 0] ELSE full[p]
      BY <2>1, <3>1 DEF After, len
    <3>3. x = y + B + w
      BY <1>1, <1>2, <2>3, Product
    <3>4. w \in Nat /\ len - first = w + r /\ i = first + w
      BY <2>3
    <3> HIDE DEF x, y, w, i, r
    <3>5. p <= 0 + len - i /\ i + p - 0 = i + p
      BY <1>1, <2>2, <2>3, <3>4
    <3>6. new.buffer[p] = data[i + p]
      BY <3>2, <3>5
    <3>7. x + p \in Nat /\ x + p <= L + len /\ x + p > L /\ (x + p) - L = i + p
      BY <1>1, <1>2, <2>2, <2>3, <2>4, <3>3, <3>4
    <3>8. E[x + p] = data[(x + p) - L]
      BY <1>12, <3>7
    <3>9. QED
      BY <3>6, <3>7, <3>8 DEF x
  <2>15. QED
    BY <1>6, <2>1, <2>7, <2>13, <2>14 DEF Holds, B, made
<1>15. Holds(new, E)
  BY <1>1, <1>2, <1>13, <1>14
<1>16. QED
  BY <1>3, <1>15 DEF new, E

-----------------------------------------------------------------------------
(* Loops: a recursive function has the values that its definition gives it *)

\* What holds of 0 and of each next number holds of all: < is well-founded.
LEMMA AllNumbers ==
  ASSUME NEW S \in SUBSET Nat, 0 \in S, \A n \in S : n + 1 \in S
  PROVE  S = Nat
<1>1. IsWellFoundedOn(OpToRel(<, Nat), Nat)
  BY NatLessThanWellFounded
<1>2. ASSUME Nat \ S # {} PROVE FALSE
  <2>1. \E x \in Nat \ S : \A y \in Nat \ S : ~ (<<y, x>> \in OpToRel(<, Nat))
    BY <1>1, <1>2, WFMin
  <2>2. PICK x \in Nat \ S : \A y \in Nat \ S : ~ (y < x)
    BY <2>1 DEF OpToRel
  <2>3. x # 0 /\ x - 1 \in Nat /\ x - 1 < x /\ (x - 1) + 1 = x
    BY <2>2
  <2>4. QED
    BY <2>2, <2>3
<1>3. QED
  BY <1>2

LEMMA NumbersUpTo ==
  ASSUME NEW N \in Nat, NEW S, 0 \in S, \A n \in 0 .. N - 1 : n \in S => n + 1 \in S
  PROVE  \A n \in 0 .. N : n \in S
<1> DEFINE T == {n \in Nat : n <= N => n \in S}
<1>1. T \in SUBSET Nat /\ 0 \in T
  OBVIOUS
<1>2. \A n \in T : n + 1 \in T
  <2>1. SUFFICES ASSUME NEW n \in T, n + 1 <= N PROVE n + 1 \in S
    OBVIOUS
  <2>2. n \in 0 .. N - 1 /\ n \in S
    BY <2>1
  <2>3. QED
    BY <2>2
<1>3. T = Nat
  <2> HIDE DEF T
  <2>1. QED
    BY <1>1, <1>2, AllNumbers
<1>4. QED
  BY <1>3

\* The zero bytes of the padding, up to n of them.
ZerosTo(f, n, h) ==
  f = [i \in 0 .. n |-> IF i = 0 THEN h ELSE sha1Update(f[i - 1], Zeros(1))]

LEMMA ZerosTakenAre ==
  ASSUME NEW h
  PROVE  /\ ZerosTaken(h)[0] = h
         /\ \A i \in 1 .. BlockSize : ZerosTaken(h)[i] = sha1Update(ZerosTaken(h)[i - 1], Zeros(1))
<1> DEFINE S == {n \in 0 .. BlockSize : \E f : ZerosTo(f, n, h)}
           made == ZerosTaken(h)
<1>0. BlockSize \in Nat
  BY SizesAre
<1>1. 0 \in S
  <2> DEFINE g == [i \in 0 .. 0 |-> h]
  <2>1. g = [i \in 0 .. 0 |-> IF i = 0 THEN h ELSE sha1Update(g[i - 1], Zeros(1))]
    OBVIOUS
  <2> HIDE DEF g
  <2>2. ZerosTo(g, 0, h)
    BY <2>1 DEF ZerosTo
  <2>3. 0 \in 0 .. BlockSize
    BY <1>0
  <2>4. QED
    BY <2>2, <2>3
<1>2. \A n \in 0 .. BlockSize - 1 : n \in S => n + 1 \in S
  <2> SUFFICES ASSUME NEW n \in 0 .. BlockSize - 1, n \in S PROVE n + 1 \in S
    OBVIOUS
  <2>1. PICK f : ZerosTo(f, n, h)
    OBVIOUS
  <2>2. f = [i \in 0 .. n |-> IF i = 0 THEN h ELSE sha1Update(f[i - 1], Zeros(1))]
    BY <2>1 DEF ZerosTo
  <2> DEFINE next == sha1Update(f[n], Zeros(1))
             g == [i \in 0 .. n + 1 |-> IF i = n + 1 THEN next ELSE f[i]]
  <2>3. n \in Nat /\ n + 1 \in 0 .. BlockSize /\ (n + 1) - 1 = n /\ n + 1 # 0
    BY <1>0
  <2>4. g[n + 1] = next /\ \A i \in 0 .. n : g[i] = f[i]
    <3> HIDE DEF next
    <3>1. QED
      BY <2>3
  <2>5. g = [i \in 0 .. n + 1 |-> g[i]]
    OBVIOUS
  <2> HIDE DEF g
  <2>6. ASSUME NEW i \in 0 .. n + 1
        PROVE  g[i] = IF i = 0 THEN h ELSE sha1Update(g[i - 1], Zeros(1))
    <3>1. CASE i = 0
      <4>1. 0 \in 0 .. n /\ g[0] = f[0]
        BY <2>3, <2>4
      <4>2. f[0] = h
        BY Zenon, <2>2, <4>1
      <4>3. QED
        BY Zenon, <3>1, <4>1, <4>2
    <3>2. CASE i = n + 1
      <4>1. n \in 0 .. n /\ g[n] = f[n]
        BY <2>3, <2>4
      <4>2. g[i] = sha1Update(g[n], Zeros(1))
        BY <2>4, <3>2, <4>1
      <4>3. i - 1 = n /\ i # 0
        BY <2>3, <3>2
      <4>4. QED
        BY Zenon, <3>2, <4>2, <4>3
    <3>3. CASE i \in 1 .. n
      <4>1. i \in 0 .. n /\ i - 1 \in 0 .. n /\ i # 0
        BY <3>3
      <4>2. g[i] = f[i] /\ g[i - 1] = f[i - 1]
        BY <2>4, <4>1
      <4>3. f[i] = sha1Update(f[i - 1], Zeros(1))
        BY Zenon, <2>2, <4>1
      <4>4. QED
        BY Zenon, <4>1, <4>2, <4>3
    <3>4. QED
      BY <2>3, <3>1, <3>2, <3>3
  <2>7. g = [i \in 0 .. n + 1 |-> IF i = 0 THEN h ELSE sha1Update(g[i - 1], Zeros(1))]
    BY Zenon, <2>5, <2>6
  <2>8. ZerosTo(g, n + 1, h)
    BY Zenon, <2>7 DEF ZerosTo
  <2>9. QED
    BY <2>3, <2>8
<1>3. \E f : ZerosTo(f, BlockSize, h)
  <2> HIDE DEF S
  <2>1. BlockSize \in S
    <3>1. \A n \in 0 .. BlockSize : n \in S
      BY <1>0, <1>1, <1>2, NumbersUpTo
    <3>2. QED
      BY <1>0, <3>1
  <2>2. QED
    BY <2>1 DEF S
<1>4. made = CHOOSE f : ZerosTo(f, BlockSize, h)
  BY Zenon DEF ZerosTaken, ZerosTo
<1>5. ZerosTo(made, BlockSize, h)
  BY Zenon, <1>3, <1>4
<1> HIDE DEF made
<1>6. made = [i \in 0 .. BlockSize |-> IF i = 0 THEN h ELSE sha1Update(made[i - 1], Zeros(1))]
  BY Zenon, <1>5 DEF ZerosTo
<1>7. made[0] = h
  <2>1. 0 \in 0 .. BlockSize
    BY <1>0
  <2>2. QED
    BY Zenon, <1>6, <2>1
<1>8. ASSUME NEW i \in 1 .. BlockSize PROVE made[i] = sha1Update(made[i - 1], Zeros(1))
  <2>1. i \in 0 .. BlockSize /\ i # 0
    BY <1>0
  <2>2. QED
    BY Zenon, <1>6, <2>1
<1>9. QED
  BY Zenon, <1>7, <1>8 DEF made

\* A long key that was lengthened n times.
LengthenedTo(f, n, k) ==
  f = [i \in 0 .. n |-> IF i = 0 THEN Sha1(k) ELSE Longer(f[i - 1], k)]

LEMMA LengthenedAre ==
  ASSUME NEW k
  PROVE  /\ Lengthened(k)[0] = Sha1(k)
         /\ \A i \in 1 .. BlockSize : Lengthened(k)[i] = Longer(Lengthened(k)[i - 1], k)
<1> DEFINE S == {n \in 0 .. BlockSize : \E f : LengthenedTo(f, n, k)}
           made == Lengthened(k)
<1>0. BlockSize \in Nat
  BY SizesAre
<1>1. 0 \in S
  <2> DEFINE g == [i \in 0 .. 0 |-> Sha1(k)]
  <2>1. g = [i \in 0 .. 0 |-> IF i = 0 THEN Sha1(k) ELSE Longer(g[i - 1], k)]
    OBVIOUS
  <2> HIDE DEF g
  <2>2. LengthenedTo(g, 0, k)
    BY <2>1 DEF LengthenedTo
  <2>3. 0 \in 0 .. BlockSize
    BY <1>0
  <2>4. QED
    BY <2>2, <2>3
<1>2. \A n \in 0 .. BlockSize - 1 : n \in S => n + 1 \in S
  <2> SUFFICES ASSUME NEW n \in 0 .. BlockSize - 1, n \in S PROVE n + 1 \in S
    OBVIOUS
  <2>1. PICK f : LengthenedTo(f, n, k)
    OBVIOUS
  <2>2. f = [i \in 0 .. n |-> IF i = 0 THEN Sha1(k) ELSE Longer(f[i - 1], k)]
    BY <2>1 DEF LengthenedTo
  <2> DEFINE next == Longer(f[n], k)
             g == [i \in 0 .. n + 1 |-> IF i = n + 1 THEN next ELSE f[i]]
  <2>3. n \in Nat /\ n + 1 \in 0 .. BlockSize /\ (n + 1) - 1 = n /\ n + 1 # 0
    BY <1>0
  <2>4. g[n + 1] = next /\ \A i \in 0 .. n : g[i] = f[i]
    <3> HIDE DEF next
    <3>1. QED
      BY <2>3
  <2>5. g = [i \in 0 .. n + 1 |-> g[i]]
    OBVIOUS
  <2> HIDE DEF g
  <2>6. ASSUME NEW i \in 0 .. n + 1
        PROVE  g[i] = IF i = 0 THEN Sha1(k) ELSE Longer(g[i - 1], k)
    <3>1. CASE i = 0
      <4>1. 0 \in 0 .. n /\ g[0] = f[0]
        BY <2>3, <2>4
      <4>2. f[0] = Sha1(k)
        BY Zenon, <2>2, <4>1
      <4>3. QED
        BY Zenon, <3>1, <4>1, <4>2
    <3>2. CASE i = n + 1
      <4>1. n \in 0 .. n /\ g[n] = f[n]
        BY <2>3, <2>4
      <4>2. g[i] = Longer(g[n], k)
        BY <2>4, <3>2, <4>1
      <4>3. i - 1 = n /\ i # 0
        BY <2>3, <3>2
      <4>4. QED
        BY Zenon, <3>2, <4>2, <4>3
    <3>3. CASE i \in 1 .. n
      <4>1. i \in 0 .. n /\ i - 1 \in 0 .. n /\ i # 0
        BY <3>3
      <4>2. g[i] = f[i] /\ g[i - 1] = f[i - 1]
        BY <2>4, <4>1
      <4>3. f[i] = Longer(f[i - 1], k)
        BY Zenon, <2>2, <4>1
      <4>4. QED
        BY Zenon, <4>1, <4>2, <4>3
    <3>4. QED
      BY <2>3, <3>1, <3>2, <3>3
  <2>7. g = [i \in 0 .. n + 1 |-> IF i = 0 THEN Sha1(k) ELSE Longer(g[i - 1], k)]
    BY Zenon, <2>5, <2>6
  <2>8. LengthenedTo(g, n + 1, k)
    BY Zenon, <2>7 DEF LengthenedTo
  <2>9. QED
    BY <2>3, <2>8
<1>3. \E f : LengthenedTo(f, BlockSize, k)
  <2> HIDE DEF S
  <2>1. BlockSize \in S
    <3>1. \A n \in 0 .. BlockSize : n \in S
      BY <1>0, <1>1, <1>2, NumbersUpTo
    <3>2. QED
      BY <1>0, <3>1
  <2>2. QED
    BY <2>1 DEF S
<1>4. made = CHOOSE f : LengthenedTo(f, BlockSize, k)
  BY Zenon DEF Lengthened, LengthenedTo
<1>5. LengthenedTo(made, BlockSize, k)
  BY Zenon, <1>3, <1>4
<1> HIDE DEF made
<1>6. made = [i \in 0 .. BlockSize |-> IF i = 0 THEN Sha1(k) ELSE Longer(made[i - 1], k)]
  BY Zenon, <1>5 DEF LengthenedTo
<1>7. made[0] = Sha1(k)
  <2>1. 0 \in 0 .. BlockSize
    BY <1>0
  <2>2. QED
    BY Zenon, <1>6, <2>1
<1>8. ASSUME NEW i \in 1 .. BlockSize PROVE made[i] = Longer(made[i - 1], k)
  <2>1. i \in 0 .. BlockSize /\ i # 0
    BY <1>0
  <2>2. QED
    BY Zenon, <1>6, <2>1
<1>9. QED
  BY Zenon, <1>7, <1>8 DEF made

\* The rounds of a block of the key, up to n of them.
RoundsTo(f, n, k, salt, index, rounds) ==
  f = [i \in 0 .. n |-> IF i = 0 THEN Salted(salt, index) ELSE Round(k, f[i - 1])]

LEMMA RoundsAre ==
  ASSUME NEW k, NEW salt, NEW index, NEW rounds, rounds \in Nat
  PROVE  /\ Rounds(k, salt, index, rounds)[0] = Salted(salt, index)
         /\ \A i \in 1 .. rounds : Rounds(k, salt, index, rounds)[i] = Round(k, Rounds(k, salt, index, rounds)[i - 1])
<1> DEFINE S == {n \in 0 .. rounds : \E f : RoundsTo(f, n, k, salt, index, rounds)}
           made == Rounds(k, salt, index, rounds)
<1>0. rounds \in Nat
  OBVIOUS
<1>1. 0 \in S
  <2> DEFINE g == [i \in 0 .. 0 |-> Salted(salt, index)]
  <2>1. g = [i \in 0 .. 0 |-> IF i = 0 THEN Salted(salt, index) ELSE Round(k, g[i - 1])]
    OBVIOUS
  <2> HIDE DEF g
  <2>2. RoundsTo(g, 0, k, salt, index, rounds)
    BY <2>1 DEF RoundsTo
  <2>3. 0 \in 0 .. rounds
    BY <1>0
  <2>4. QED
    BY <2>2, <2>3
<1>2. \A n \in 0 .. rounds - 1 : n \in S => n + 1 \in S
  <2> SUFFICES ASSUME NEW n \in 0 .. rounds - 1, n \in S PROVE n + 1 \in S
    OBVIOUS
  <2>1. PICK f : RoundsTo(f, n, k, salt, index, rounds)
    OBVIOUS
  <2>2. f = [i \in 0 .. n |-> IF i = 0 THEN Salted(salt, index) ELSE Round(k, f[i - 1])]
    BY <2>1 DEF RoundsTo
  <2> DEFINE next == Round(k, f[n])
             g == [i \in 0 .. n + 1 |-> IF i = n + 1 THEN next ELSE f[i]]
  <2>3. n \in Nat /\ n + 1 \in 0 .. rounds /\ (n + 1) - 1 = n /\ n + 1 # 0
    BY <1>0
  <2>4. g[n + 1] = next /\ \A i \in 0 .. n : g[i] = f[i]
    <3> HIDE DEF next
    <3>1. QED
      BY <2>3
  <2>5. g = [i \in 0 .. n + 1 |-> g[i]]
    OBVIOUS
  <2> HIDE DEF g
  <2>6. ASSUME NEW i \in 0 .. n + 1
        PROVE  g[i] = IF i = 0 THEN Salted(salt, index) ELSE Round(k, g[i - 1])
    <3>1. CASE i = 0
      <4>1. 0 \in 0 .. n /\ g[0] = f[0]
        BY <2>3, <2>4
      <4>2. f[0] = Salted(salt, index)
        BY Zenon, <2>2, <4>1
      <4>3. QED
        BY Zenon, <3>1, <4>1, <4>2
    <3>2. CASE i = n + 1
      <4>1. n \in 0 .. n /\ g[n] = f[n]
        BY <2>3, <2>4
      <4>2. g[i] = Round(k, g[n])
        BY <2>4, <3>2, <4>1
      <4>3. i - 1 = n /\ i # 0
        BY <2>3, <3>2
      <4>4. QED
        BY Zenon, <3>2, <4>2, <4>3
    <3>3. CASE i \in 1 .. n
      <4>1. i \in 0 .. n /\ i - 1 \in 0 .. n /\ i # 0
        BY <3>3
      <4>2. g[i] = f[i] /\ g[i - 1] = f[i - 1]
        BY <2>4, <4>1
      <4>3. f[i] = Round(k, f[i - 1])
        BY Zenon, <2>2, <4>1
      <4>4. QED
        BY Zenon, <4>1, <4>2, <4>3
    <3>4. QED
      BY <2>3, <3>1, <3>2, <3>3
  <2>7. g = [i \in 0 .. n + 1 |-> IF i = 0 THEN Salted(salt, index) ELSE Round(k, g[i - 1])]
    BY Zenon, <2>5, <2>6
  <2>8. RoundsTo(g, n + 1, k, salt, index, rounds)
    BY Zenon, <2>7 DEF RoundsTo
  <2>9. QED
    BY <2>3, <2>8
<1>3. \E f : RoundsTo(f, rounds, k, salt, index, rounds)
  <2> HIDE DEF S
  <2>1. rounds \in S
    <3>1. \A n \in 0 .. rounds : n \in S
      BY <1>0, <1>1, <1>2, NumbersUpTo
    <3>2. QED
      BY <1>0, <3>1
  <2>2. QED
    BY <2>1 DEF S
<1>4. made = CHOOSE f : RoundsTo(f, rounds, k, salt, index, rounds)
  BY Zenon DEF Rounds, RoundsTo
<1>5. RoundsTo(made, rounds, k, salt, index, rounds)
  BY Zenon, <1>3, <1>4
<1> HIDE DEF made
<1>6. made = [i \in 0 .. rounds |-> IF i = 0 THEN Salted(salt, index) ELSE Round(k, made[i - 1])]
  BY Zenon, <1>5 DEF RoundsTo
<1>7. made[0] = Salted(salt, index)
  <2>1. 0 \in 0 .. rounds
    BY <1>0
  <2>2. QED
    BY Zenon, <1>6, <2>1
<1>8. ASSUME NEW i \in 1 .. rounds PROVE made[i] = Round(k, made[i - 1])
  <2>1. i \in 0 .. rounds /\ i # 0
    BY <1>0
  <2>2. QED
    BY Zenon, <1>6, <2>1
<1>9. QED
  BY Zenon, <1>7, <1>8 DEF made

\* The blocks of the key, up to n of them.
BlocksTo(f, n, k, salt, rounds, length) ==
  f = [i \in 0 .. n |-> IF i = 0 THEN <<>> ELSE f[i - 1] \o F(k, salt, i, rounds)]

LEMMA BlocksMadeAre ==
  ASSUME NEW k, NEW salt, NEW rounds, NEW length, length \in Nat
  PROVE  /\ BlocksMade(k, salt, rounds, length)[0] = <<>>
         /\ \A i \in 1 .. Blocks(length) : BlocksMade(k, salt, rounds, length)[i] = BlocksMade(k, salt, rounds, length)[i - 1] \o F(k, salt, i, rounds)
<1> DEFINE S == {n \in 0 .. Blocks(length) : \E f : BlocksTo(f, n, k, salt, rounds, length)}
           made == BlocksMade(k, salt, rounds, length)
<1>0. Blocks(length) \in Nat
  BY SizesAre DEF Blocks
<1>1. 0 \in S
  <2> DEFINE g == [i \in 0 .. 0 |-> <<>>]
  <2>1. g = [i \in 0 .. 0 |-> IF i = 0 THEN <<>> ELSE g[i - 1] \o F(k, salt, i, rounds)]
    OBVIOUS
  <2> HIDE DEF g
  <2>2. BlocksTo(g, 0, k, salt, rounds, length)
    BY <2>1 DEF BlocksTo
  <2>3. 0 \in 0 .. Blocks(length)
    BY <1>0
  <2>4. QED
    BY <2>2, <2>3
<1>2. \A n \in 0 .. Blocks(length) - 1 : n \in S => n + 1 \in S
  <2> SUFFICES ASSUME NEW n \in 0 .. Blocks(length) - 1, n \in S PROVE n + 1 \in S
    OBVIOUS
  <2>1. PICK f : BlocksTo(f, n, k, salt, rounds, length)
    OBVIOUS
  <2>2. f = [i \in 0 .. n |-> IF i = 0 THEN <<>> ELSE f[i - 1] \o F(k, salt, i, rounds)]
    BY <2>1 DEF BlocksTo
  <2> DEFINE next == f[n] \o F(k, salt, (n + 1), rounds)
             g == [i \in 0 .. n + 1 |-> IF i = n + 1 THEN next ELSE f[i]]
  <2>3. n \in Nat /\ n + 1 \in 0 .. Blocks(length) /\ (n + 1) - 1 = n /\ n + 1 # 0
    BY <1>0
  <2>4. g[n + 1] = next /\ \A i \in 0 .. n : g[i] = f[i]
    <3> HIDE DEF next
    <3>1. QED
      BY <2>3
  <2>5. g = [i \in 0 .. n + 1 |-> g[i]]
    OBVIOUS
  <2> HIDE DEF g
  <2>6. ASSUME NEW i \in 0 .. n + 1
        PROVE  g[i] = IF i = 0 THEN <<>> ELSE g[i - 1] \o F(k, salt, i, rounds)
    <3>1. CASE i = 0
      <4>1. 0 \in 0 .. n /\ g[0] = f[0]
        BY <2>3, <2>4
      <4>2. f[0] = <<>>
        BY Zenon, <2>2, <4>1
      <4>3. QED
        BY Zenon, <3>1, <4>1, <4>2
    <3>2. CASE i = n + 1
      <4>1. n \in 0 .. n /\ g[n] = f[n]
        BY <2>3, <2>4
      <4>2. g[i] = g[n] \o F(k, salt, (n + 1), rounds)
        BY <2>4, <3>2, <4>1
      <4>3. i - 1 = n /\ i # 0
        BY <2>3, <3>2
      <4>4. QED
        BY Zenon, <3>2, <4>2, <4>3
    <3>3. CASE i \in 1 .. n
      <4>1. i \in 0 .. n /\ i - 1 \in 0 .. n /\ i # 0
        BY <3>3
      <4>2. g[i] = f[i] /\ g[i - 1] = f[i - 1]
        BY <2>4, <4>1
      <4>3. f[i] = f[i - 1] \o F(k, salt, i, rounds)
        BY Zenon, <2>2, <4>1
      <4>4. QED
        BY Zenon, <4>1, <4>2, <4>3
    <3>4. QED
      BY <2>3, <3>1, <3>2, <3>3
  <2>7. g = [i \in 0 .. n + 1 |-> IF i = 0 THEN <<>> ELSE g[i - 1] \o F(k, salt, i, rounds)]
    BY Zenon, <2>5, <2>6
  <2>8. BlocksTo(g, n + 1, k, salt, rounds, length)
    BY Zenon, <2>7 DEF BlocksTo
  <2>9. QED
    BY <2>3, <2>8
<1>3. \E f : BlocksTo(f, Blocks(length), k, salt, rounds, length)
  <2> HIDE DEF S
  <2>1. Blocks(length) \in S
    <3>1. \A n \in 0 .. Blocks(length) : n \in S
      BY <1>0, <1>1, <1>2, NumbersUpTo
    <3>2. QED
      BY <1>0, <3>1
  <2>2. QED
    BY <2>1 DEF S
<1>4. made = CHOOSE f : BlocksTo(f, Blocks(length), k, salt, rounds, length)
  BY Zenon DEF BlocksMade, BlocksTo
<1>5. BlocksTo(made, Blocks(length), k, salt, rounds, length)
  BY Zenon, <1>3, <1>4
<1> HIDE DEF made
<1>6. made = [i \in 0 .. Blocks(length) |-> IF i = 0 THEN <<>> ELSE made[i - 1] \o F(k, salt, i, rounds)]
  BY Zenon, <1>5 DEF BlocksTo
<1>7. made[0] = <<>>
  <2>1. 0 \in 0 .. Blocks(length)
    BY <1>0
  <2>2. QED
    BY Zenon, <1>6, <2>1
<1>8. ASSUME NEW i \in 1 .. Blocks(length) PROVE made[i] = made[i - 1] \o F(k, salt, i, rounds)
  <2>1. i \in 0 .. Blocks(length) /\ i # 0
    BY <1>0
  <2>2. QED
    BY Zenon, <1>6, <2>1
<1>9. QED
  BY Zenon, <1>7, <1>8 DEF made

\* RFC 8018: the U_c up to n.
UTo(f, n, k, a, index) ==
  f = [i \in 0 .. n |-> IF i = 0 THEN a.salt \o int_to_bytes(index) ELSE StdHmac(k, f[i - 1])]

LEMMA StdUAre ==
  ASSUME NEW k, NEW a, NEW index, a.rounds \in Nat
  PROVE  /\ StdU(k, a, index)[0] = a.salt \o int_to_bytes(index)
         /\ \A i \in 1 .. a.rounds : StdU(k, a, index)[i] = StdHmac(k, StdU(k, a, index)[i - 1])
<1> DEFINE S == {n \in 0 .. a.rounds : \E f : UTo(f, n, k, a, index)}
           made == StdU(k, a, index)
<1>0. a.rounds \in Nat
  OBVIOUS
<1>1. 0 \in S
  <2> DEFINE g == [i \in 0 .. 0 |-> a.salt \o int_to_bytes(index)]
  <2>1. g = [i \in 0 .. 0 |-> IF i = 0 THEN a.salt \o int_to_bytes(index) ELSE StdHmac(k, g[i - 1])]
    OBVIOUS
  <2> HIDE DEF g
  <2>2. UTo(g, 0, k, a, index)
    BY <2>1 DEF UTo
  <2>3. 0 \in 0 .. a.rounds
    BY <1>0
  <2>4. QED
    BY <2>2, <2>3
<1>2. \A n \in 0 .. a.rounds - 1 : n \in S => n + 1 \in S
  <2> SUFFICES ASSUME NEW n \in 0 .. a.rounds - 1, n \in S PROVE n + 1 \in S
    OBVIOUS
  <2>1. PICK f : UTo(f, n, k, a, index)
    OBVIOUS
  <2>2. f = [i \in 0 .. n |-> IF i = 0 THEN a.salt \o int_to_bytes(index) ELSE StdHmac(k, f[i - 1])]
    BY <2>1 DEF UTo
  <2> DEFINE next == StdHmac(k, f[n])
             g == [i \in 0 .. n + 1 |-> IF i = n + 1 THEN next ELSE f[i]]
  <2>3. n \in Nat /\ n + 1 \in 0 .. a.rounds /\ (n + 1) - 1 = n /\ n + 1 # 0
    BY <1>0
  <2>4. g[n + 1] = next /\ \A i \in 0 .. n : g[i] = f[i]
    <3> HIDE DEF next
    <3>1. QED
      BY <2>3
  <2>5. g = [i \in 0 .. n + 1 |-> g[i]]
    OBVIOUS
  <2> HIDE DEF g
  <2>6. ASSUME NEW i \in 0 .. n + 1
        PROVE  g[i] = IF i = 0 THEN a.salt \o int_to_bytes(index) ELSE StdHmac(k, g[i - 1])
    <3>1. CASE i = 0
      <4>1. 0 \in 0 .. n /\ g[0] = f[0]
        BY <2>3, <2>4
      <4>2. f[0] = a.salt \o int_to_bytes(index)
        BY Zenon, <2>2, <4>1
      <4>3. QED
        BY Zenon, <3>1, <4>1, <4>2
    <3>2. CASE i = n + 1
      <4>1. n \in 0 .. n /\ g[n] = f[n]
        BY <2>3, <2>4
      <4>2. g[i] = StdHmac(k, g[n])
        BY <2>4, <3>2, <4>1
      <4>3. i - 1 = n /\ i # 0
        BY <2>3, <3>2
      <4>4. QED
        BY Zenon, <3>2, <4>2, <4>3
    <3>3. CASE i \in 1 .. n
      <4>1. i \in 0 .. n /\ i - 1 \in 0 .. n /\ i # 0
        BY <3>3
      <4>2. g[i] = f[i] /\ g[i - 1] = f[i - 1]
        BY <2>4, <4>1
      <4>3. f[i] = StdHmac(k, f[i - 1])
        BY Zenon, <2>2, <4>1
      <4>4. QED
        BY Zenon, <4>1, <4>2, <4>3
    <3>4. QED
      BY <2>3, <3>1, <3>2, <3>3
  <2>7. g = [i \in 0 .. n + 1 |-> IF i = 0 THEN a.salt \o int_to_bytes(index) ELSE StdHmac(k, g[i - 1])]
    BY Zenon, <2>5, <2>6
  <2>8. UTo(g, n + 1, k, a, index)
    BY Zenon, <2>7 DEF UTo
  <2>9. QED
    BY <2>3, <2>8
<1>3. \E f : UTo(f, a.rounds, k, a, index)
  <2> HIDE DEF S
  <2>1. a.rounds \in S
    <3>1. \A n \in 0 .. a.rounds : n \in S
      BY <1>0, <1>1, <1>2, NumbersUpTo
    <3>2. QED
      BY <1>0, <3>1
  <2>2. QED
    BY <2>1 DEF S
<1>4. made = CHOOSE f : UTo(f, a.rounds, k, a, index)
  BY Zenon DEF StdU, UTo
<1>5. UTo(made, a.rounds, k, a, index)
  BY Zenon, <1>3, <1>4
<1> HIDE DEF made
<1>6. made = [i \in 0 .. a.rounds |-> IF i = 0 THEN a.salt \o int_to_bytes(index) ELSE StdHmac(k, made[i - 1])]
  BY Zenon, <1>5 DEF UTo
<1>7. made[0] = a.salt \o int_to_bytes(index)
  <2>1. 0 \in 0 .. a.rounds
    BY <1>0
  <2>2. QED
    BY Zenon, <1>6, <2>1
<1>8. ASSUME NEW i \in 1 .. a.rounds PROVE made[i] = StdHmac(k, made[i - 1])
  <2>1. i \in 0 .. a.rounds /\ i # 0
    BY <1>0
  <2>2. QED
    BY Zenon, <1>6, <2>1
<1>9. QED
  BY Zenon, <1>7, <1>8 DEF made

\* RFC 8018: their xor up to n.
TTo(f, n, k, a, index, at) ==
  f = [i \in 0 .. n |-> IF i = 0 THEN {} ELSE Xor(f[i - 1], StdU(k, a, index)[i][at])]

LEMMA StdTAre ==
  ASSUME NEW k, NEW a, NEW index, NEW at, a.rounds \in Nat
  PROVE  /\ StdTs(k, a, index, at)[0] = {}
         /\ \A i \in 1 .. a.rounds : StdTs(k, a, index, at)[i] = Xor(StdTs(k, a, index, at)[i - 1], StdU(k, a, index)[i][at])
<1> DEFINE S == {n \in 0 .. a.rounds : \E f : TTo(f, n, k, a, index, at)}
           made == StdTs(k, a, index, at)
<1>0. a.rounds \in Nat
  OBVIOUS
<1>1. 0 \in S
  <2> DEFINE g == [i \in 0 .. 0 |-> {}]
  <2>1. g = [i \in 0 .. 0 |-> IF i = 0 THEN {} ELSE Xor(g[i - 1], StdU(k, a, index)[i][at])]
    OBVIOUS
  <2> HIDE DEF g
  <2>2. TTo(g, 0, k, a, index, at)
    BY <2>1 DEF TTo
  <2>3. 0 \in 0 .. a.rounds
    BY <1>0
  <2>4. QED
    BY <2>2, <2>3
<1>2. \A n \in 0 .. a.rounds - 1 : n \in S => n + 1 \in S
  <2> SUFFICES ASSUME NEW n \in 0 .. a.rounds - 1, n \in S PROVE n + 1 \in S
    OBVIOUS
  <2>1. PICK f : TTo(f, n, k, a, index, at)
    OBVIOUS
  <2>2. f = [i \in 0 .. n |-> IF i = 0 THEN {} ELSE Xor(f[i - 1], StdU(k, a, index)[i][at])]
    BY <2>1 DEF TTo
  <2> DEFINE next == Xor(f[n], StdU(k, a, index)[(n + 1)][at])
             g == [i \in 0 .. n + 1 |-> IF i = n + 1 THEN next ELSE f[i]]
  <2>3. n \in Nat /\ n + 1 \in 0 .. a.rounds /\ (n + 1) - 1 = n /\ n + 1 # 0
    BY <1>0
  <2>4. g[n + 1] = next /\ \A i \in 0 .. n : g[i] = f[i]
    <3> HIDE DEF next
    <3>1. QED
      BY <2>3
  <2>5. g = [i \in 0 .. n + 1 |-> g[i]]
    OBVIOUS
  <2> HIDE DEF g
  <2>6. ASSUME NEW i \in 0 .. n + 1
        PROVE  g[i] = IF i = 0 THEN {} ELSE Xor(g[i - 1], StdU(k, a, index)[i][at])
    <3>1. CASE i = 0
      <4>1. 0 \in 0 .. n /\ g[0] = f[0]
        BY <2>3, <2>4
      <4>2. f[0] = {}
        BY Zenon, <2>2, <4>1
      <4>3. QED
        BY Zenon, <3>1, <4>1, <4>2
    <3>2. CASE i = n + 1
      <4>1. n \in 0 .. n /\ g[n] = f[n]
        BY <2>3, <2>4
      <4>2. g[i] = Xor(g[n], StdU(k, a, index)[(n + 1)][at])
        BY <2>4, <3>2, <4>1
      <4>3. i - 1 = n /\ i # 0
        BY <2>3, <3>2
      <4>4. QED
        BY Zenon, <3>2, <4>2, <4>3
    <3>3. CASE i \in 1 .. n
      <4>1. i \in 0 .. n /\ i - 1 \in 0 .. n /\ i # 0
        BY <3>3
      <4>2. g[i] = f[i] /\ g[i - 1] = f[i - 1]
        BY <2>4, <4>1
      <4>3. f[i] = Xor(f[i - 1], StdU(k, a, index)[i][at])
        BY Zenon, <2>2, <4>1
      <4>4. QED
        BY Zenon, <4>1, <4>2, <4>3
    <3>4. QED
      BY <2>3, <3>1, <3>2, <3>3
  <2>7. g = [i \in 0 .. n + 1 |-> IF i = 0 THEN {} ELSE Xor(g[i - 1], StdU(k, a, index)[i][at])]
    BY Zenon, <2>5, <2>6
  <2>8. TTo(g, n + 1, k, a, index, at)
    BY Zenon, <2>7 DEF TTo
  <2>9. QED
    BY <2>3, <2>8
<1>3. \E f : TTo(f, a.rounds, k, a, index, at)
  <2> HIDE DEF S
  <2>1. a.rounds \in S
    <3>1. \A n \in 0 .. a.rounds : n \in S
      BY <1>0, <1>1, <1>2, NumbersUpTo
    <3>2. QED
      BY <1>0, <3>1
  <2>2. QED
    BY <2>1 DEF S
<1>4. made = CHOOSE f : TTo(f, a.rounds, k, a, index, at)
  BY Zenon DEF StdTs, TTo
<1>5. TTo(made, a.rounds, k, a, index, at)
  BY Zenon, <1>3, <1>4
<1> HIDE DEF made
<1>6. made = [i \in 0 .. a.rounds |-> IF i = 0 THEN {} ELSE Xor(made[i - 1], StdU(k, a, index)[i][at])]
  BY Zenon, <1>5 DEF TTo
<1>7. made[0] = {}
  <2>1. 0 \in 0 .. a.rounds
    BY <1>0
  <2>2. QED
    BY Zenon, <1>6, <2>1
<1>8. ASSUME NEW i \in 1 .. a.rounds PROVE made[i] = Xor(made[i - 1], StdU(k, a, index)[i][at])
  <2>1. i \in 0 .. a.rounds /\ i # 0
    BY <1>0
  <2>2. QED
    BY Zenon, <1>6, <2>1
<1>9. QED
  BY Zenon, <1>7, <1>8 DEF made

-----------------------------------------------------------------------------
(* SHA-1 *)

LEMMA FreshHolds == Holds(Fresh, <<>>)
<1>1. IsSeq(<<>>) /\ Len(<<>>) = 0
  BY EmptyIs
<1>2. BlockSize \in Nat \ {0} /\ Word \in Nat \ {0}
  BY SizesAre
<1>3. 0 \div BlockSize = 0 /\ 0 % BlockSize = 0 /\ 0 % Word = 0 /\ 0 \div Word = 0 /\ 8 * 0 = 0
  BY <1>2
<1>4. IsSeq(InBlocks(<<>>)) /\ Len(InBlocks(<<>>)) = 0
  BY <1>1, <1>3, InBlocksAre
<1>5. InBlocks(<<>>) = <<>>
  BY <1>1, <1>4, SameSeq
<1>6. Fresh.blocks = <<>> /\ Fresh.count = <<0, 0>>
  BY DEF Fresh
<1>7. 1 .. 0 = {}
  OBVIOUS
<1>8. QED
  BY <1>1, <1>3, <1>5, <1>6, <1>7 DEF Holds

LEMMA MoreZeros ==
  ASSUME NEW n \in Nat
  PROVE  Zeros(n) \o Zeros(1) = Zeros(n + 1)
<1>1. IsSeq(Zeros(n)) /\ Len(Zeros(n)) = n /\ \A i \in 1 .. n : Zeros(n)[i] = {}
  BY ZerosAre
<1>2. IsSeq(Zeros(1)) /\ Len(Zeros(1)) = 1 /\ \A i \in 1 .. 1 : Zeros(1)[i] = {}
  BY ZerosAre
<1>3. n + 1 \in Nat
  OBVIOUS
<1>4. IsSeq(Zeros(n + 1)) /\ Len(Zeros(n + 1)) = n + 1 /\ \A i \in 1 .. n + 1 : Zeros(n + 1)[i] = {}
  BY <1>3, ZerosAre
<1> DEFINE both == Zeros(n) \o Zeros(1)
<1>5. /\ IsSeq(both) /\ Len(both) = n + 1
      /\ \A i \in 1 .. n : both[i] = Zeros(n)[i]
      /\ \A i \in 1 .. 1 : both[n + i] = Zeros(1)[i]
  <2> DEFINE front == Zeros(n)
             back == Zeros(1)
  <2> HIDE DEF front, back, both
  <2>1. IsSeq(front) /\ Len(front) = n /\ IsSeq(back) /\ Len(back) = 1
    BY <1>1, <1>2 DEF front, back
  <2>2. /\ IsSeq(front \o back) /\ Len(front \o back) = Len(front) + Len(back)
        /\ \A i \in 1 .. Len(front) : (front \o back)[i] = front[i]
        /\ \A i \in 1 .. Len(back) : (front \o back)[Len(front) + i] = back[i]
    <3>1. IsSeq(front) /\ IsSeq(back)
      BY <2>1
    <3>2. QED
      BY <3>1, Joined
  <2>3. both = front \o back
    BY DEF front, back, both
  <2>4. QED
    BY <2>1, <2>2, <2>3 DEF front, back
<1> HIDE DEF both
<1>6. ASSUME NEW i \in 1 .. n + 1 PROVE both[i] = {}
  <2>1. CASE i \in 1 .. n
    BY <1>1, <1>5, <2>1
  <2>2. CASE i = n + 1
    BY <1>2, <1>5, <2>2
  <2>3. QED
    BY <2>1, <2>2
<1>7. both = Zeros(n + 1)
  BY <1>4, <1>5, <1>6, SameSeq
<1>8. QED
  BY <1>7 DEF both

LEMMA NoZeros == Zeros(0) = <<>>
<1>1. IsSeq(Zeros(0)) /\ Len(Zeros(0)) = 0
  BY ZerosAre
<1>2. QED
  BY <1>1, EmptyIs, SameSeq

\* The zeros of the padding, byte by byte.
LEMMA ZerosHeld ==
  ASSUME NEW h, NEW m, IsSeq(m), Holds(h, m)
  PROVE  \A n \in 0 .. BlockSize : Holds(ZerosTaken(h)[n], m \o Zeros(n)) /\ IsSeq(m \o Zeros(n))
<1> DEFINE S == {n \in 0 .. BlockSize : Holds(ZerosTaken(h)[n], m \o Zeros(n))}
<1>1. BlockSize \in Nat
  BY SizesAre
<1>2. 0 \in S
  <2>1. m \o Zeros(0) = m
    BY NoZeros, EmptyJoined
  <2>2. ZerosTaken(h)[0] = h
    BY ZerosTakenAre
  <2>3. Holds(ZerosTaken(h)[0], m \o Zeros(0))
    BY <2>1, <2>2
  <2>4. QED
    BY <1>1, <2>3
<1>3. \A n \in 0 .. BlockSize - 1 : n \in S => n + 1 \in S
  <2> SUFFICES ASSUME NEW n \in 0 .. BlockSize - 1, n \in S PROVE n + 1 \in S
    OBVIOUS
  <2>1. n \in Nat /\ n + 1 \in 1 .. BlockSize /\ n + 1 \in 0 .. BlockSize /\ (n + 1) - 1 = n
    BY <1>1
  <2>2. Holds(ZerosTaken(h)[n], m \o Zeros(n))
    OBVIOUS
  <2>3. IsSeq(Zeros(n)) /\ IsSeq(Zeros(1))
    BY <2>1, ZerosAre
  <2>4. IsSeq(m \o Zeros(n))
    BY <2>3, Joined
  <2>5. Holds(sha1Update(ZerosTaken(h)[n], Zeros(1)), (m \o Zeros(n)) \o Zeros(1))
    BY <2>2, <2>3, <2>4, Updated
  <2>6. (m \o Zeros(n)) \o Zeros(1) = m \o (Zeros(n) \o Zeros(1))
    BY <2>3, Associative
  <2>7. Zeros(n) \o Zeros(1) = Zeros(n + 1)
    BY <2>1, MoreZeros
  <2>8. ZerosTaken(h)[n + 1] = sha1Update(ZerosTaken(h)[(n + 1) - 1], Zeros(1))
    BY <2>1, ZerosTakenAre
  <2>9. QED
    BY <2>1, <2>5, <2>6, <2>7, <2>8
<1>4. \A n \in 0 .. BlockSize : n \in S
  <2> HIDE DEF S
  <2>1. QED
    BY <1>1, <1>2, <1>3, NumbersUpTo
<1>5. ASSUME NEW n \in 0 .. BlockSize PROVE IsSeq(m \o Zeros(n))
  <2>1. IsSeq(Zeros(n))
    BY <1>1, ZerosAre
  <2>2. QED
    BY <2>1, Joined
<1>6. QED
  BY <1>4, <1>5

\* One number of zeros leads to the place of the length.
LEMMA OnePadding ==
  ASSUME NEW L \in Nat
  PROVE  \E z \in 0 .. BlockSize - 1 : \A n \in 0 .. BlockSize - 1 :
           /\ (L + n) % BlockSize = BlockSize - 2 * WordSize <=> n = z
           /\ (L + n + 2 * WordSize) % BlockSize = 0 <=> n = z
<1> DEFINE B == BlockSize
           T == 2 * WordSize
           s == L % B
           z == IF s + T <= B THEN B - T - s ELSE B + B - T - s
<1>1. B \in Nat \ {0} /\ T \in Nat /\ 0 < T /\ T <= B
  BY SizesAre
<1>2. s \in Nat /\ s < B
  BY <1>1, Divided
<1>3. z \in 0 .. B - 1
  <2> HIDE DEF B, T, s
  <2>1. QED
    BY <1>1, <1>2
<1>4. ASSUME NEW n \in 0 .. B - 1
      PROVE  /\ (L + n) % B = B - T <=> n = z
             /\ (L + n + T) % B = 0 <=> n = z
  <2> DEFINE r == (L + n) % B
             a == L + n
  <2>1. r = (s + n) % B
    BY <1>1, RemainderOfSum
  <2>2. a \in Nat /\ a + T = L + n + T
    BY <1>1
  <2> HIDE DEF a
  <2>3. (a + T) % B = ((a % B) + T) % B
    BY <1>1, <2>2, RemainderOfSum
  <2>4. r = a % B
    BY DEF a
  <2> HIDE DEF B, T, s, r
  <2>5. n \in Nat /\ n < B /\ s + n \in Nat
    BY <1>1, <1>2
  <2>6. r = IF s + n < B THEN s + n ELSE s + n - B
    <3> DEFINE t == s + n
    <3>1. t \in Nat /\ t < B + B /\ t = s + n
      BY <1>1, <1>2, <2>5
    <3>2. t < B => t % B = t
      BY <1>1, <3>1
    <3>3. ASSUME t >= B PROVE t % B = t - B
      <4> DEFINE u == t - B
      <4>1. u \in Nat /\ u < B /\ t = 1 * B + u
        BY <1>1, <3>1, <3>3
      <4> HIDE DEF t, u
      <4>2. (1 * B + u) % B = u
        BY <1>1, <4>1, QuotientIs
      <4>3. t % B = u
        BY <4>1, <4>2
      <4>4. QED
        BY <4>3 DEF u
    <3>4. r = t % B
      BY <2>1
    <3> HIDE DEF t
    <3>5. r = IF t < B THEN t ELSE t - B
      BY <1>1, <3>1, <3>2, <3>3, <3>4
    <3>6. QED
      BY <1>1, <1>2, <2>5, <3>1, <3>5
  <2>7. r \in Nat /\ r < B
    BY <1>1, <1>2, <2>5, <2>6
  <2>8. r = B - T <=> n = z
    BY <1>1, <1>2, <2>5, <2>6
  <2>9. (r + T) % B = 0 <=> r = B - T
    <3> DEFINE t == r + T
    <3>1. t \in Nat /\ 0 < t /\ t < B + B
      BY <1>1, <2>7
    <3>2. t < B => t % B = t
      BY <1>1, <3>1
    <3>3. ASSUME t >= B PROVE t % B = t - B
      <4> DEFINE u == t - B
      <4>1. u \in Nat /\ u < B /\ t = 1 * B + u
        BY <1>1, <3>1, <3>3
      <4> HIDE DEF t, u
      <4>2. (1 * B + u) % B = u
        BY <1>1, <4>1, QuotientIs
      <4>3. t % B = u
        BY <4>1, <4>2
      <4>4. QED
        BY <4>3 DEF u
    <3>4. t % B = 0 <=> t = B
      <4> HIDE DEF t
      <4>1. QED
        BY <1>1, <3>1, <3>2, <3>3
    <3>5. t = B <=> r = B - T
      BY <1>1, <2>7
    <3>6. QED
      BY <3>4, <3>5
  <2>10. (L + n + T) % B = (r + T) % B
    BY <2>2, <2>3, <2>4
  <2>11. QED
    BY <2>4, <2>8, <2>9, <2>10 DEF a
<1>5. QED
  BY <1>3, <1>4


\* The padding that sha1Final adds byte by byte is that of FIPS 180, whatever
\* the length is.
LEMMA FinalIs ==
  ASSUME NEW h, NEW m, IsSeq(m), Holds(h, m)
  PROVE  sha1Final(h) = InBlocks(Padded(m))
<1> DEFINE B == BlockSize
           T == 2 * WordSize
           L == Len(m)
           bits == 8 * L
           bit == <<Num(128)>>
           m1 == m \o bit
           padded == ZerosTaken(sha1Update(h, bit))
           Stops(n) == Used(padded[n].count) = B - T
           zeros == CHOOSE n \in 0 .. B - 1 : Stops(n) /\ \A i \in 0 .. n - 1 : ~ Stops(i)
           high == int_to_bytes((bits \div Word) % Word)
           low == int_to_bytes(bits % Word)
<1>1. B \in Nat \ {0} /\ T \in Nat /\ L \in Nat
  BY SizesAre, SeqIs
<1>2. IsSeq(bit) /\ Len(bit) = 1
  BY SingleIs
<1>3. IsSeq(m1) /\ Len(m1) = L + 1
  <2>1. IsSeq(m \o bit) /\ Len(m \o bit) = Len(m) + Len(bit)
    BY <1>2, Joined
  <2>2. QED
    BY <1>2, <2>1
<1>4. Holds(sha1Update(h, bit), m1)
  BY <1>2, Updated
<1>5. PICK z \in 0 .. B - 1 : \A n \in 0 .. B - 1 :
           /\ ((L + 1) + n) % B = B - T <=> n = z
           /\ ((L + 1) + n + T) % B = 0 <=> n = z
  <2> DEFINE K == L + 1
  <2>1. K \in Nat
    BY <1>1
  <2> HIDE DEF K
  <2>2. \E z \in 0 .. BlockSize - 1 : \A n \in 0 .. BlockSize - 1 :
           /\ (K + n) % BlockSize = BlockSize - 2 * WordSize <=> n = z
           /\ (K + n + 2 * WordSize) % BlockSize = 0 <=> n = z
    BY <2>1, OnePadding
  <2>3. QED
    BY <2>2 DEF K
<1>6. ASSUME NEW n \in 0 .. B - 1
      PROVE  /\ Holds(padded[n], m1 \o Zeros(n)) /\ IsSeq(m1 \o Zeros(n))
             /\ Stops(n) <=> n = z
  <2> DEFINE h1 == sha1Update(h, bit)
  <2>1. n \in 0 .. BlockSize /\ n \in Nat
    BY <1>1
  <2>2. Holds(h1, m1) /\ IsSeq(m1)
    BY <1>3, <1>4
  <2> HIDE DEF h1, m1, B, T
  <2>3. Holds(ZerosTaken(h1)[n], m1 \o Zeros(n)) /\ IsSeq(m1 \o Zeros(n))
    BY <2>1, <2>2, ZerosHeld
  <2>4. padded[n] = ZerosTaken(h1)[n]
    BY DEF h1
  <2>5. Used(padded[n].count) = Len(m1 \o Zeros(n)) % BlockSize
    BY <2>3, <2>4, UsedIs
  <2>6. IsSeq(Zeros(n)) /\ Len(Zeros(n)) = n
    BY <2>1, ZerosAre
  <2>7. Len(m1 \o Zeros(n)) = Len(m1) + Len(Zeros(n))
    BY <2>2, <2>6, Joined
  <2>8. Len(m1 \o Zeros(n)) = (L + 1) + n
    BY <1>3, <2>6, <2>7
  <2>9. Used(padded[n].count) = ((L + 1) + n) % B
    BY <2>5, <2>8 DEF B
  <2> HIDE DEF padded
  <2>10. Stops(n) <=> n = z
    BY <1>5, <2>9
  <2>11. QED
    BY <2>3, <2>4, <2>10
<1> HIDE DEF padded
<1>7. zeros = z
  <2>1. z \in Nat /\ \A i \in 0 .. z - 1 : i \in 0 .. B - 1 /\ i # z
    BY <1>1
  <2>2. Stops(z) /\ \A i \in 0 .. z - 1 : ~ Stops(i)
    BY <1>6, <2>1
  <2>3. \A n \in 0 .. B - 1 : Stops(n) => n = z
    BY <1>6
  <2> HIDE DEF Stops
  <2>4. QED
    BY Zenon, <2>2, <2>3
<1>8. (CHOOSE y \in 0 .. B - 1 : (L + 1 + y + T) % B = 0) = z
  <2>1. \A y \in 0 .. B - 1 : (L + 1 + y + T) % B = 0 <=> y = z
    BY <1>5
  <2> HIDE DEF B, L, T
  <2>2. QED
    BY Zenon, <2>1
<1>9. Padded(m) = m \o <<Num(128)>> \o Zeros(z) \o high \o low
  <2>1. Padded(m) = m \o <<Num(128)>> \o Zeros(CHOOSE y \in 0 .. B - 1 : (L + 1 + y + T) % B = 0) \o high \o low
    BY Zenon DEF Padded
  <2>2. QED
    BY Zenon, <1>8, <2>1
<1>10. sha1Final(h) = sha1Update(padded[zeros], int_to_bytes(h.count[2]) \o int_to_bytes(h.count[1])).blocks
  BY Zenon DEF sha1Final, padded
<1>11. int_to_bytes(h.count[2]) = high /\ int_to_bytes(h.count[1]) = low
  BY DEF Holds
<1>12. IsSeq(high) /\ IsSeq(low)
  BY WordIs
<1> HIDE DEF high, low, zeros, m1
<1>13. IsSeq(high \o low)
  BY <1>12, Joined
<1> DEFINE m2 == m1 \o Zeros(z)
<1>14. Holds(padded[z], m2) /\ IsSeq(m2)
  BY <1>6
<1> HIDE DEF m2
<1>15. Holds(sha1Update(padded[z], high \o low), m2 \o (high \o low))
  BY <1>13, <1>14, Updated
<1>16. (m2 \o high) \o low = m2 \o (high \o low)
  BY <1>12, <1>14, Associative
<1>17. Padded(m) = m2 \o (high \o low)
  BY Zenon, <1>9, <1>16 DEF m1, m2
<1>18. sha1Final(h) = sha1Update(padded[z], high \o low).blocks
  BY Zenon, <1>7, <1>10, <1>11
<1>19. QED
  BY <1>15, <1>17, <1>18 DEF Holds

\* Hash::hash of a sequence is its SHA-1.
LEMMA Sha1Is ==
  ASSUME NEW data, IsSeq(data)
  PROVE  Sha1(data) = StdHash(data)
<1>1. IsSeq(<<>>) /\ <<>> \o data = data
  BY EmptyIs, EmptyJoined
<1>2. Holds(sha1Update(Fresh, data), data)
  BY <1>1, FreshHolds, Updated
<1>3. sha1Final(sha1Update(Fresh, data)) = InBlocks(Padded(data))
  BY <1>2, FinalIs
<1>4. QED
  BY <1>3 DEF Sha1, StdHash

-----------------------------------------------------------------------------
(* HMAC *)

LEMMA Sha1Sized ==
  ASSUME NEW data
  PROVE  IsSeq(Sha1(data)) /\ Len(Sha1(data)) = DigestSize
BY DigestIs DEF Sha1

LEMMA StdHashSized ==
  ASSUME NEW data
  PROVE  IsSeq(StdHash(data)) /\ Len(StdHash(data)) = DigestSize
BY DigestIs DEF StdHash

\* Each digest adds a byte at least, so that a block is filled in the end.
LEMMA LengthenedSized ==
  ASSUME NEW k
  PROVE  IsSeq(Lengthened(k)[BlockSize]) /\ Len(Lengthened(k)[BlockSize]) >= BlockSize
<1> DEFINE Long(s, n) == IsSeq(s) /\ (Len(s) >= BlockSize \/ Len(s) >= n + 1)
           S == {n \in 0 .. BlockSize : Long(Lengthened(k)[n], n)}
<1>1. BlockSize \in Nat /\ DigestSize \in Nat \ {0}
  BY SizesAre
<1>2. 0 \in S
  <2>1. Lengthened(k)[0] = Sha1(k)
    BY LengthenedAre
  <2>2. IsSeq(Sha1(k)) /\ Len(Sha1(k)) >= 0 + 1
    BY <1>1, Sha1Sized
  <2>3. Long(Lengthened(k)[0], 0)
    BY <2>1, <2>2
  <2>4. QED
    BY <1>1, <2>3
<1>3. \A n \in 0 .. BlockSize - 1 : n \in S => n + 1 \in S
  <2> SUFFICES ASSUME NEW n \in 0 .. BlockSize - 1, n \in S PROVE n + 1 \in S
    OBVIOUS
  <2> DEFINE s == Lengthened(k)[n]
             more == Sha1(s \o k)
  <2>1. n + 1 \in 1 .. BlockSize /\ n + 1 \in 0 .. BlockSize /\ (n + 1) - 1 = n
    BY <1>1
  <2>2. Lengthened(k)[n + 1] = Longer(s, k)
    <3>1. Lengthened(k)[n + 1] = Longer(Lengthened(k)[(n + 1) - 1], k)
      BY <2>1, LengthenedAre
    <3>2. QED
      BY <2>1, <3>1
  <2>3. IsSeq(s) /\ (Len(s) >= BlockSize \/ Len(s) >= n + 1)
    OBVIOUS
  <2>4. IsSeq(more) /\ Len(more) = DigestSize
    BY Sha1Sized
  <2>5. Longer(s, k) = IF Len(s) < BlockSize THEN s \o more ELSE s
    BY DEF Longer
  <2> HIDE DEF s, more
  <2>6. IsSeq(s \o more) /\ Len(s \o more) = Len(s) + Len(more)
    BY <2>3, <2>4, Joined
  <2>7. Len(s) \in Nat
    BY <2>3, SeqIs
  <2> DEFINE next == Longer(s, k)
  <2>8. IsSeq(next) /\ (Len(next) >= BlockSize \/ Len(next) >= (n + 1) + 1)
    <3> HIDE DEF next
    <3>1. CASE Len(s) < BlockSize
      <4>1. next = s \o more
        BY <2>5, <3>1 DEF next
      <4>2. Len(next) = Len(s) + DigestSize
        BY <2>4, <2>6, <4>1
      <4>3. QED
        BY <1>1, <2>3, <2>6, <2>7, <3>1, <4>1, <4>2
    <3>2. CASE ~ (Len(s) < BlockSize)
      <4>1. next = s
        BY <2>5, <3>2 DEF next
      <4>2. QED
        BY <1>1, <2>3, <2>7, <3>2, <4>1
    <3>3. QED
      BY <3>1, <3>2
  <2>9. Long(Lengthened(k)[n + 1], n + 1)
    BY <2>2, <2>8
  <2>10. QED
    BY <2>1, <2>9
<1>4. \A n \in 0 .. BlockSize : n \in S
  <2> HIDE DEF S
  <2>1. QED
    BY <1>1, <1>2, <1>3, NumbersUpTo
<1>5. Long(Lengthened(k)[BlockSize], BlockSize)
  BY <1>1, <1>4
<1> DEFINE t == Lengthened(k)[BlockSize]
<1> HIDE DEF t
<1>6. IsSeq(t) /\ (Len(t) >= BlockSize \/ Len(t) >= BlockSize + 1)
  BY <1>5 DEF t
<1>7. Len(t) \in Nat
  BY <1>6, SeqIs
<1>8. IsSeq(t) /\ Len(t) >= BlockSize
  BY <1>1, <1>6, <1>7
<1>9. QED
  BY <1>8 DEF t

\* The key fills a block, a short one with zeros behind it.
LEMMA BlockKeyIs ==
  ASSUME NEW k, IsSeq(k)
  PROVE  /\ IsSeq(BlockKey(k)) /\ Len(BlockKey(k)) = BlockSize
         /\ ~ (Len(k) > BlockSize) => BlockKey(k) = k \o Zeros(BlockSize - Len(k))
<1>1. BlockSize \in Nat /\ Len(k) \in Nat
  BY SizesAre, SeqIs
<1>2. CASE Len(k) > BlockSize
  <2> DEFINE t == Lengthened(k)[BlockSize]
  <2>1. IsSeq(t) /\ Len(t) >= BlockSize
    BY LengthenedSized
  <2>2. BlockKey(k) = SubSeq(t, 1, BlockSize)
    BY <1>2 DEF BlockKey
  <2> HIDE DEF t
  <2>3. Len(t) \in Nat
    BY <2>1, SeqIs
  <2>4. BlockSize <= Len(t)
    BY <1>1, <2>1, <2>3
  <2>5. IsSeq(SubSeq(t, 1, BlockSize)) /\ Len(SubSeq(t, 1, BlockSize)) = BlockSize
    BY <1>1, <2>1, <2>4, BeginningIs
  <2>6. QED
    BY <1>2, <2>2, <2>5
<1>3. CASE ~ (Len(k) > BlockSize)
  <2> DEFINE t == [i \in 1 .. BlockSize |-> IF i <= Len(k) THEN k[i] ELSE {}]
             rest == BlockSize - Len(k)
             zeros == Zeros(rest)
  <2>1. BlockKey(k) = t
    BY <1>3 DEF BlockKey
  <2>2. \A i \in 1 .. BlockSize : t[i] = IF i <= Len(k) THEN k[i] ELSE {}
    OBVIOUS
  <2>3. t = [i \in 1 .. BlockSize |-> t[i]]
    OBVIOUS
  <2>4. rest \in Nat /\ Len(k) + rest = BlockSize
    BY <1>1, <1>3
  <2> HIDE DEF t, rest
  <2>5. IsSeq(t) /\ Len(t) = BlockSize
    BY <1>1, <2>3, SeqMade
  <2>6. IsSeq(zeros) /\ Len(zeros) = rest /\ \A i \in 1 .. rest : zeros[i] = {}
    BY <2>4, ZerosAre
  <2> HIDE DEF zeros
  <2>7. IsSeq(k \o zeros) /\ Len(k \o zeros) = Len(k) + Len(zeros)
    BY <2>6, Joined
  <2>8. Len(k \o zeros) = BlockSize
    BY <2>4, <2>6, <2>7
  <2>9. ASSUME NEW i \in 1 .. BlockSize PROVE t[i] = (k \o zeros)[i]
    <3>1. CASE i <= Len(k)
      <4>1. i \in 1 .. Len(k)
        BY <1>1, <3>1
      <4>2. (k \o zeros)[i] = k[i]
        BY <2>6, <4>1, Joined
      <4>3. QED
        BY <2>2, <3>1, <4>2
    <3>2. CASE ~ (i <= Len(k))
      <4>1. i \in Nat /\ Len(k) < i /\ i <= Len(k) + Len(zeros) /\ i - Len(k) \in 1 .. rest
        BY <1>1, <2>4, <2>6, <3>2
      <4>2. (k \o zeros)[i] = zeros[i - Len(k)]
        BY <2>6, <4>1, JoinedAt
      <4>3. QED
        BY <2>2, <2>6, <3>2, <4>1, <4>2
    <3>3. QED
      BY <3>1, <3>2
  <2>10. t = k \o zeros
    BY <2>5, <2>7, <2>8, <2>9, SameSeq
  <2>11. QED
    BY <2>1, <2>5, <2>10 DEF rest, zeros
<1>4. QED
  BY <1>2, <1>3

LEMMA PadsAre ==
  ASSUME NEW k, IsSeq(k)
  PROVE  /\ i_key_pad(Keyed(k)) = [i \in 1 .. BlockSize |-> Xor(BlockKey(k)[i], Num(54))]
         /\ o_key_pad(Keyed(k)) = [i \in 1 .. BlockSize |-> Xor(BlockKey(k)[i], Num(92))]
         /\ IsSeq(i_key_pad(Keyed(k))) /\ IsSeq(o_key_pad(Keyed(k)))
<1>1. BlockSize \in Nat
  BY SizesAre
<1>2. DOMAIN BlockKey(k) = 1 .. BlockSize
  BY BlockKeyIs, SeqIs
<1>3. Keyed(k).block_key = BlockKey(k)
  BY DEF Keyed
<1>4. i_key_pad(Keyed(k)) = [i \in 1 .. BlockSize |-> Xor(BlockKey(k)[i], Num(54))]
  BY Zenon, <1>2, <1>3 DEF i_key_pad, bytes_xor_all
<1>5. o_key_pad(Keyed(k)) = [i \in 1 .. BlockSize |-> Xor(BlockKey(k)[i], Num(92))]
  BY Zenon, <1>2, <1>3 DEF o_key_pad, bytes_xor_all
<1> DEFINE p == i_key_pad(Keyed(k))
           q == o_key_pad(Keyed(k))
<1>6. p = [i \in 1 .. BlockSize |-> p[i]] /\ q = [i \in 1 .. BlockSize |-> q[i]]
  BY <1>4, <1>5
<1> HIDE DEF p, q
<1>7. IsSeq(p) /\ IsSeq(q)
  BY <1>1, <1>6, SeqMade
<1>8. QED
  BY <1>4, <1>5, <1>7 DEF p, q

\* The key that HMAC works with for a password, with the pads that Hmac makes.
Taken(pw, k) == IsSeq(pw) /\ k = KeyTaken(Keyed(pw))

LEMMA TakenIs ==
  ASSUME NEW pw, NEW k, Taken(pw, k)
  PROVE  /\ IsSeq(k) /\ ~ (Len(k) > BlockSize) /\ BlockKey(k) = BlockKey(pw)
         /\ ~ (Len(pw) > BlockSize) => k = pw
<1>1. BlockSize \in Nat /\ IsSeq(pw) /\ Len(pw) \in Nat
  BY SizesAre, SeqIs DEF Taken
<1>2. k = IF Len(pw) > BlockSize THEN BlockKey(pw) ELSE pw
  BY DEF Taken, KeyTaken, Keyed
<1>3. CASE Len(pw) > BlockSize
  <2> DEFINE t == BlockKey(pw)
  <2>1. IsSeq(t) /\ Len(t) = BlockSize
    BY <1>1, BlockKeyIs
  <2> HIDE DEF t
  <2>2. ~ (Len(t) > BlockSize)
    BY <1>1, <2>1
  <2>3. BlockKey(t) = t \o Zeros(BlockSize - Len(t))
    BY <2>1, <2>2, BlockKeyIs
  <2>4. Zeros(BlockSize - Len(t)) = <<>>
    <3>1. BlockSize - Len(t) = 0 /\ 1 .. 0 = {}
      BY <1>1, <2>1
    <3>2. Zeros(0) = <<>>
      BY <3>1 DEF Zeros
    <3>3. QED
      BY <3>1, <3>2
  <2>5. t \o <<>> = t
    BY <2>1, EmptyJoined
  <2>6. QED
    BY <1>2, <1>3, <2>1, <2>2, <2>3, <2>4, <2>5 DEF t
<1>4. CASE ~ (Len(pw) > BlockSize)
  BY <1>1, <1>2, <1>4
<1>5. QED
  BY <1>3, <1>4

LEMMA StdHmacIs ==
  ASSUME NEW pw, NEW k, NEW m, Taken(pw, k)
  PROVE  StdHmac(k, m) = StdHash(o_key_pad(Keyed(pw)) \o StdHash(i_key_pad(Keyed(pw)) \o m))
<1> DEFINE short == IF Len(k) > BlockSize THEN StdHash(k) ELSE k
           padded == short \o Zeros(BlockSize - Len(short))
           With(value) == [i \in 1 .. BlockSize |-> Xor(padded[i], Num(value))]
<1>1. IsSeq(k) /\ ~ (Len(k) > BlockSize) /\ BlockKey(k) = BlockKey(pw)
  BY TakenIs
<1>2. short = k
  BY <1>1
<1>3. StdHmac(k, m) = StdHash(With(92) \o StdHash(With(54) \o m))
  BY Zenon DEF StdHmac
<1> HIDE DEF short
<1>4. padded = BlockKey(pw)
  <2>1. BlockKey(k) = k \o Zeros(BlockSize - Len(k))
    BY <1>1, BlockKeyIs
  <2>2. QED
    BY <1>1, <1>2, <2>1
<1> HIDE DEF padded
<1>5. /\ i_key_pad(Keyed(pw)) = [i \in 1 .. BlockSize |-> Xor(BlockKey(pw)[i], Num(54))]
      /\ o_key_pad(Keyed(pw)) = [i \in 1 .. BlockSize |-> Xor(BlockKey(pw)[i], Num(92))]
  BY PadsAre DEF Taken
<1>6. With(54) = i_key_pad(Keyed(pw)) /\ With(92) = o_key_pad(Keyed(pw))
  BY Zenon, <1>4, <1>5
<1>7. QED
  BY Zenon, <1>3, <1>6

\* What a hash object of the kind has after a reset.
Prefix(k) == IF k.keyed THEN i_key_pad(k) ELSE <<>>

\* The kinds of hash objects.
IsKind(k) == k = Plain \/ \E key : IsSeq(key) /\ k = Keyed(key)

LEMMA KindsAre ==
  /\ IsKind(Plain) /\ Plain.keyed = FALSE /\ Prefix(Plain) = <<>>
  /\ \A key : IsSeq(key) => /\ IsKind(Keyed(key)) /\ Keyed(key).keyed = TRUE
                            /\ Keyed(key).key = key /\ Taken(key, KeyTaken(Keyed(key)))
                            /\ Prefix(Keyed(key)) = i_key_pad(Keyed(key))
<1>1. IsKind(Plain) /\ Plain.keyed = FALSE /\ Prefix(Plain) = <<>>
  BY DEF IsKind, Plain, Prefix
<1>2. ASSUME NEW key, IsSeq(key)
      PROVE  Keyed(key).keyed = TRUE /\ Keyed(key).key = key /\ Keyed(key).block_key = BlockKey(key)
  BY DEF Keyed
<1>3. ASSUME NEW key, IsSeq(key)
      PROVE  IsKind(Keyed(key)) /\ Taken(key, KeyTaken(Keyed(key))) /\ Prefix(Keyed(key)) = i_key_pad(Keyed(key))
  <2>1. IsKind(Keyed(key))
    BY Zenon, <1>3 DEF IsKind
  <2> DEFINE k == Keyed(key)
  <2>2. k.keyed = TRUE /\ k.key = key /\ k.block_key = BlockKey(key)
    BY <1>2, <1>3
  <2> HIDE DEF k
  <2>3. Prefix(k) = i_key_pad(k)
    BY <2>2 DEF Prefix
  <2>4. Taken(key, KeyTaken(Keyed(key)))
    BY <1>3 DEF Taken
  <2>5. QED
    BY <2>1, <2>3, <2>4 DEF k
<1>4. QED
  BY <1>1, <1>2, <1>3

LEMMA ResetHolds ==
  ASSUME NEW k, IsKind(k)
  PROVE  Holds(ResetHash(k), Prefix(k)) /\ IsSeq(Prefix(k))
<1>1. CASE k = Plain
  <2>1. k.keyed = FALSE /\ Prefix(k) = <<>>
    BY <1>1, KindsAre
  <2>2. ResetHash(k) = Fresh
    BY <2>1 DEF ResetHash
  <2>3. QED
    BY <2>1, <2>2, FreshHolds, EmptyIs
<1>2. ASSUME NEW key, IsSeq(key), k = Keyed(key)
      PROVE  Holds(ResetHash(k), Prefix(k)) /\ IsSeq(Prefix(k))
  <2>1. k.keyed = TRUE /\ Prefix(k) = i_key_pad(k)
    BY <1>2, KindsAre
  <2>2. IsSeq(i_key_pad(k))
    BY <1>2, PadsAre
  <2>3. ResetHash(k) = sha1Update(Fresh, i_key_pad(k))
    BY <2>1 DEF ResetHash
  <2> DEFINE p == i_key_pad(k)
  <2> HIDE DEF p
  <2>4. IsSeq(p) /\ IsSeq(<<>>) /\ <<>> \o p = p
    BY <2>2, EmptyIs, EmptyJoined DEF p
  <2>5. Holds(sha1Update(Fresh, p), p)
    BY <2>4, FreshHolds, Updated
  <2>6. QED
    BY <2>1, <2>3, <2>4, <2>5 DEF p
<1>3. QED
  BY <1>1, <1>2 DEF IsKind

\* The digest of an object that holds what came since its reset.
LEMMA DigestStandard ==
  ASSUME NEW k, NEW h, NEW m, IsKind(k), IsSeq(m), Holds(h, Prefix(k) \o m)
  PROVE  Digest(k, h) = IF k.keyed THEN StdHmac(KeyTaken(k), m) ELSE StdHash(m)
<1> DEFINE all == Prefix(k) \o m
<1>1. IsSeq(all)
  BY ResetHolds, Joined
<1>2. Holds(h, all)
  OBVIOUS
<1> HIDE DEF all
<1>3. sha1Final(h) = InBlocks(Padded(all))
  BY <1>1, <1>2, FinalIs
<1>4. DigestOf(sha1Final(h)) = StdHash(all)
  BY <1>3 DEF StdHash
<1>5. CASE k = Plain
  <2>1. k.keyed = FALSE /\ Prefix(k) = <<>>
    BY <1>5, KindsAre
  <2>2. all = m
    BY <2>1, EmptyJoined DEF all
  <2>3. Digest(k, h) = DigestOf(sha1Final(h))
    BY <2>1 DEF Digest
  <2>4. QED
    BY <1>4, <2>1, <2>2, <2>3
<1>6. ASSUME NEW key, IsSeq(key), k = Keyed(key)
      PROVE  Digest(k, h) = IF k.keyed THEN StdHmac(KeyTaken(k), m) ELSE StdHash(m)
  <2>1. k.keyed = TRUE /\ k.key = key /\ Taken(key, KeyTaken(k)) /\ Prefix(k) = i_key_pad(k)
    BY <1>6, KindsAre
  <2> DEFINE digest == DigestOf(sha1Final(h))
             pad == o_key_pad(k)
  <2>2. Digest(k, h) = Sha1(pad \o digest)
    BY <2>1 DEF Digest
  <2>3. digest = StdHash(all) /\ IsSeq(digest)
    BY <1>4, StdHashSized
  <2>4. IsSeq(pad)
    BY <1>6, PadsAre
  <2>5. StdHmac(KeyTaken(k), m) = StdHash(o_key_pad(Keyed(key)) \o StdHash(i_key_pad(Keyed(key)) \o m))
    BY <2>1, StdHmacIs
  <2>6. StdHmac(KeyTaken(k), m) = StdHash(pad \o StdHash(all))
    BY Zenon, <1>6, <2>1, <2>5 DEF all
  <2> HIDE DEF digest, pad
  <2>7. IsSeq(pad \o digest)
    BY <2>3, <2>4, Joined
  <2>8. Sha1(pad \o digest) = StdHash(pad \o digest)
    BY <2>7, Sha1Is
  <2>9. QED
    BY <2>1, <2>2, <2>3, <2>6, <2>8
<1>7. QED
  BY <1>5, <1>6 DEF IsKind

-----------------------------------------------------------------------------
(* PBKDF2 *)

LEMMA StdHmacSized ==
  ASSUME NEW pw, NEW k, NEW m, Taken(pw, k)
  PROVE  IsSeq(StdHmac(k, m))
<1>1. StdHmac(k, m) = StdHash(o_key_pad(Keyed(pw)) \o StdHash(i_key_pad(Keyed(pw)) \o m))
  BY StdHmacIs
<1>2. QED
  BY Zenon, <1>1, StdHashSized

\* A round takes the HMAC of the one before and adds it to the block.
LEMMA RoundIs ==
  ASSUME NEW pw, NEW k, NEW r, Taken(pw, k), IsSeq(r.block)
  PROVE  /\ Round(Keyed(pw), r).block = StdHmac(k, r.block)
         /\ Round(Keyed(pw), r).U_r = bytes_xor(r.U_r, StdHmac(k, r.block))
<1> DEFINE c == Keyed(pw)
           h == sha1Update(ResetHash(c), r.block)
           block == Digest(c, h)
<1>1. IsSeq(pw)
  BY DEF Taken
<1>2. IsKind(c) /\ c.keyed = TRUE
  BY <1>1, KindsAre
<1>3. KeyTaken(c) = k
  BY DEF Taken
<1>4. Round(c, r) = [block |-> block, U_r |-> bytes_xor(r.U_r, block)]
  BY Zenon DEF Round
<1> HIDE DEF c
<1>5. Holds(ResetHash(c), Prefix(c)) /\ IsSeq(Prefix(c))
  BY <1>2, ResetHolds
<1>6. Holds(h, Prefix(c) \o r.block)
  BY <1>5, Updated
<1> HIDE DEF h
<1>7. Digest(c, h) = IF c.keyed THEN StdHmac(KeyTaken(c), r.block) ELSE StdHash(r.block)
  BY <1>2, <1>6, DigestStandard
<1>8. block = StdHmac(k, r.block)
  BY <1>2, <1>3, <1>7
<1> HIDE DEF block
<1>9. Round(c, r).block = block /\ Round(c, r).U_r = bytes_xor(r.U_r, block)
  BY <1>4
<1>10. QED
  BY Zenon, <1>8, <1>9 DEF c

\* After each round: U_n, and the bytes of the xor of U_1 to U_n.
RoundStandard(r, k, a, index, n) ==
  /\ IsSeq(r.block) /\ r.block = StdU(k, a, index)[n]
  /\ r.U_r = [at \in 1 .. DigestSize |-> StdTs(k, a, index, at)[n]]

LEMMA RoundsStandard ==
  ASSUME NEW pw, NEW k, NEW a, NEW index, Taken(pw, k), IsSeq(a.salt), a.rounds \in Nat
  PROVE  \A n \in 0 .. a.rounds : RoundStandard(Rounds(Keyed(pw), a.salt, index, a.rounds)[n], k, a, index, n)
<1> DEFINE made == Rounds(Keyed(pw), a.salt, index, a.rounds)
           S == {n \in 0 .. a.rounds : RoundStandard(made[n], k, a, index, n)}
           N == a.rounds
<1>0. N \in Nat
  OBVIOUS
<1>1. made[0] = Salted(a.salt, index) /\ \A i \in 1 .. N : made[i] = Round(Keyed(pw), made[i - 1])
  BY RoundsAre
<1>2. /\ StdU(k, a, index)[0] = a.salt \o int_to_bytes(index)
      /\ \A i \in 1 .. N : StdU(k, a, index)[i] = StdHmac(k, StdU(k, a, index)[i - 1])
  BY StdUAre
<1>3. ASSUME NEW at
      PROVE  /\ StdTs(k, a, index, at)[0] = {}
             /\ \A i \in 1 .. N : StdTs(k, a, index, at)[i] = Xor(StdTs(k, a, index, at)[i - 1], StdU(k, a, index)[i][at])
  BY StdTAre
<1> HIDE DEF made, N
<1>4. 0 \in S
  <2>1. IsSeq(a.salt \o int_to_bytes(index))
    BY WordIs, Joined
  <2>2. Salted(a.salt, index).block = a.salt \o int_to_bytes(index)
        /\ Salted(a.salt, index).U_r = Zeros(DigestSize)
    BY DEF Salted
  <2>3. Zeros(DigestSize) = [at \in 1 .. DigestSize |-> {}]
    BY DEF Zeros
  <2>4. [at \in 1 .. DigestSize |-> {}] = [at \in 1 .. DigestSize |-> StdTs(k, a, index, at)[0]]
    BY Zenon, <1>3
  <2>5. made[0].U_r = [at \in 1 .. DigestSize |-> StdTs(k, a, index, at)[0]]
    BY Zenon, <1>1, <2>2, <2>3, <2>4
  <2>6. IsSeq(made[0].block) /\ made[0].block = StdU(k, a, index)[0]
    BY Zenon, <1>1, <1>2, <2>1, <2>2
  <2>7. RoundStandard(made[0], k, a, index, 0)
    BY Zenon, <2>5, <2>6 DEF RoundStandard
  <2>8. 0 \in 0 .. a.rounds
    BY <1>0 DEF N
  <2>9. QED
    BY <2>7, <2>8
<1>5. \A n \in 0 .. N - 1 : n \in S => n + 1 \in S
  <2> SUFFICES ASSUME NEW n \in 0 .. N - 1, n \in S PROVE n + 1 \in S
    OBVIOUS
  <2>1. n + 1 \in 1 .. N /\ n + 1 \in 0 .. N /\ (n + 1) - 1 = n
    BY <1>0
  <2>2. RoundStandard(made[n], k, a, index, n)
    OBVIOUS
  <2> DEFINE r == made[n]
             u == StdU(k, a, index)[n]
             next == StdU(k, a, index)[n + 1]
  <2>3. IsSeq(r.block) /\ r.block = u /\ r.U_r = [at \in 1 .. DigestSize |-> StdTs(k, a, index, at)[n]]
    BY <2>2 DEF RoundStandard
  <2>4. made[n + 1] = Round(Keyed(pw), r)
    <3>1. made[n + 1] = Round(Keyed(pw), made[(n + 1) - 1])
      BY Zenon, <1>1, <2>1
    <3>2. QED
      BY Zenon, <2>1, <3>1
  <2>5. next = StdHmac(k, u)
    <3>1. next = StdHmac(k, StdU(k, a, index)[(n + 1) - 1])
      BY Zenon, <1>2, <2>1
    <3>2. QED
      BY Zenon, <2>1, <3>1
  <2>6. ASSUME NEW at PROVE StdTs(k, a, index, at)[n + 1] = Xor(StdTs(k, a, index, at)[n], next[at])
    <3>1. StdTs(k, a, index, at)[n + 1] = Xor(StdTs(k, a, index, at)[(n + 1) - 1], next[at])
      BY Zenon, <1>3, <2>1
    <3>2. QED
      BY Zenon, <2>1, <3>1
  <2> HIDE DEF r, u, next
  <2>7. /\ Round(Keyed(pw), r).block = StdHmac(k, r.block)
        /\ Round(Keyed(pw), r).U_r = bytes_xor(r.U_r, StdHmac(k, r.block))
    BY <2>3, RoundIs
  <2>8. made[n + 1].block = next /\ made[n + 1].U_r = bytes_xor(r.U_r, next)
    BY Zenon, <2>3, <2>4, <2>5, <2>7
  <2>9. IsSeq(next)
    BY <2>5, StdHmacSized
  <2>10. bytes_xor(r.U_r, next) = [at \in 1 .. DigestSize |-> StdTs(k, a, index, at)[n + 1]]
    <3> DEFINE s == r.U_r
    <3>1. s = [at \in 1 .. DigestSize |-> StdTs(k, a, index, at)[n]]
      BY <2>3
    <3> HIDE DEF s
    <3>2. DOMAIN s = 1 .. DigestSize /\ \A at \in 1 .. DigestSize : s[at] = StdTs(k, a, index, at)[n]
      BY Zenon, <3>1
    <3>3. bytes_xor(s, next) = [at \in 1 .. DigestSize |-> Xor(s[at], next[at])]
      BY Zenon, <3>2 DEF bytes_xor
    <3>4. \A at \in 1 .. DigestSize : Xor(s[at], next[at]) = StdTs(k, a, index, at)[n + 1]
      BY Zenon, <2>6, <3>2
    <3>5. [at \in 1 .. DigestSize |-> Xor(s[at], next[at])] = [at \in 1 .. DigestSize |-> StdTs(k, a, index, at)[n + 1]]
      BY Zenon, <3>4
    <3>6. QED
      BY Zenon, <3>3, <3>5 DEF s
  <2>11. RoundStandard(made[n + 1], k, a, index, n + 1)
    BY Zenon, <2>8, <2>9, <2>10 DEF RoundStandard, next
  <2>12. QED
    BY <2>1, <2>11 DEF N
<1>6. \A n \in 0 .. N : n \in S
  <2> HIDE DEF S
  <2>1. QED
    BY <1>0, <1>4, <1>5, NumbersUpTo
<1>7. QED
  BY <1>6 DEF N, made

\* T_index of RFC 8018.
LEMMA FStandard ==
  ASSUME NEW pw, NEW k, NEW a, NEW index, Taken(pw, k), IsSeq(a.salt), a.rounds \in Nat
  PROVE  LET block == F(Keyed(pw), a.salt, index, a.rounds)
         IN  /\ IsSeq(block) /\ Len(block) = DigestSize
             /\ \A at \in 1 .. DigestSize : block[at] = StdT(k, a, index, at)
<1> DEFINE r == Rounds(Keyed(pw), a.salt, index, a.rounds)[a.rounds]
           block == F(Keyed(pw), a.salt, index, a.rounds)
<1>1. DigestSize \in Nat /\ a.rounds \in 0 .. a.rounds
  BY SizesAre
<1>2. RoundStandard(r, k, a, index, a.rounds)
  BY <1>1, RoundsStandard
<1>3. block = r.U_r
  BY Zenon DEF F
<1> HIDE DEF r, block
<1>4. block = [at \in 1 .. DigestSize |-> StdTs(k, a, index, at)[a.rounds]]
  BY <1>2, <1>3 DEF RoundStandard
<1>5. \A at \in 1 .. DigestSize : block[at] = StdTs(k, a, index, at)[a.rounds]
  BY Zenon, <1>4
<1>6. block = [at \in 1 .. DigestSize |-> block[at]]
  BY Zenon, <1>4, <1>5
<1>7. IsSeq(block) /\ Len(block) = DigestSize
  BY <1>1, <1>6, SeqMade
<1>8. \A at \in 1 .. DigestSize : block[at] = StdT(k, a, index, at)
  BY Zenon, <1>5 DEF StdT
<1>9. QED
  BY <1>7, <1>8 DEF block

\* The blocks one behind the other are the bytes of the derived key.
LEMMA BlocksStandard ==
  ASSUME NEW pw, NEW k, NEW a, NEW length \in Nat, Taken(pw, k), IsSeq(a.salt), a.rounds \in Nat
  PROVE  LET made == BlocksMade(Keyed(pw), a.salt, a.rounds, length)[Blocks(length)]
         IN  /\ IsSeq(made) /\ Len(made) = Blocks(length) * DigestSize
             /\ \A n \in 1 .. Blocks(length) * DigestSize : made[n] = StdDerived(k, a, n)
<1> DEFINE made == BlocksMade(Keyed(pw), a.salt, a.rounds, length)
           N == Blocks(length)
           D == DigestSize
           Good(s, i) == /\ IsSeq(s) /\ Len(s) = i * D
                         /\ \A n \in 1 .. i * D : s[n] = StdDerived(k, a, n)
           S == {i \in 0 .. N : Good(made[i], i)}
<1>0. N \in Nat /\ D \in Nat \ {0}
  BY SizesAre DEF Blocks
<1>1. made[0] = <<>> /\ \A i \in 1 .. N : made[i] = made[i - 1] \o F(Keyed(pw), a.salt, i, a.rounds)
  <2> DEFINE c == Keyed(pw)
             salt == a.salt
             rounds == a.rounds
  <2> HIDE DEF c, salt, rounds
  <2>1. /\ BlocksMade(c, salt, rounds, length)[0] = <<>>
        /\ \A i \in 1 .. Blocks(length) : BlocksMade(c, salt, rounds, length)[i]
                                          = BlocksMade(c, salt, rounds, length)[i - 1] \o F(c, salt, i, rounds)
    BY BlocksMadeAre
  <2>2. QED
    BY Zenon, <2>1 DEF c, salt, rounds
<1> HIDE DEF made, N
<1>2. 0 \in S
  <2>1. 0 * D = 0 /\ 1 .. 0 = {} /\ 0 \in 0 .. N
    BY <1>0
  <2>2. Good(<<>>, 0)
    BY <2>1, EmptyIs
  <2>3. QED
    BY <1>1, <2>1, <2>2
<1>3. \A i \in 0 .. N - 1 : i \in S => i + 1 \in S
  <2> SUFFICES ASSUME NEW i \in 0 .. N - 1, i \in S PROVE i + 1 \in S
    OBVIOUS
  <2> DEFINE s == made[i]
             t == F(Keyed(pw), a.salt, i + 1, a.rounds)
             x == i * D
  <2>1. i \in Nat /\ i + 1 \in 1 .. N /\ i + 1 \in 0 .. N /\ (i + 1) - 1 = i
    BY <1>0
  <2>2. Good(s, i)
    OBVIOUS
  <2>3. made[i + 1] = s \o t
    <3>1. made[i + 1] = made[(i + 1) - 1] \o t
      BY Zenon, <1>1, <2>1
    <3>2. QED
      BY Zenon, <2>1, <3>1
  <2>4. IsSeq(t) /\ Len(t) = D /\ \A at \in 1 .. D : t[at] = StdT(k, a, i + 1, at)
    BY FStandard
  <2>5. IsSeq(s) /\ Len(s) = x /\ \A n \in 1 .. x : s[n] = StdDerived(k, a, n)
    BY <2>2
  <2>6. x \in Nat /\ (i + 1) * D = x + D
    BY <1>0, <2>1, Product
  <2>7. \A p \in 1 .. D : (x + p - 1) \div D = i /\ (x + p - 1) % D = p - 1
    <3>1. SUFFICES ASSUME NEW p \in 1 .. D PROVE (x + p - 1) \div D = i /\ (x + p - 1) % D = p - 1
      OBVIOUS
    <3> DEFINE r == p - 1
    <3>2. r \in Nat /\ r < D /\ x + p - 1 = x + r
      BY <1>0, <2>6
    <3> HIDE DEF r
    <3>3. (i * D + r) \div D = i /\ (i * D + r) % D = r
      BY <1>0, <2>1, <3>2, QuotientIs
    <3>4. QED
      BY <3>2, <3>3 DEF r
  <2> HIDE DEF s, t, x, D
  <2>8. IsSeq(s \o t) /\ Len(s \o t) = Len(s) + Len(t)
    BY <2>4, <2>5, Joined
  <2>9. Len(s \o t) = x + D
    BY <2>4, <2>5, <2>8
  <2>10. ASSUME NEW n \in 1 .. x + D PROVE (s \o t)[n] = StdDerived(k, a, n)
    <3>1. CASE n <= x
      <4>1. n \in 1 .. x /\ n \in 1 .. Len(s)
        BY <2>5, <2>6, <3>1
      <4>2. (s \o t)[n] = s[n]
        BY <2>4, <2>5, <4>1, Joined
      <4>3. QED
        BY <2>5, <4>1, <4>2
    <3>2. CASE ~ (n <= x)
      <4> DEFINE p == n - x
      <4>1. p \in 1 .. D /\ n \in Nat /\ Len(s) < n /\ n <= Len(s) + Len(t) /\ n - Len(s) = p
        BY <1>0, <2>4, <2>5, <2>6, <3>2 DEF D
      <4>2. x + p - 1 = n - 1 /\ (p - 1) + 1 = p
        BY <1>0, <2>6
      <4> HIDE DEF p
      <4>3. (s \o t)[n] = t[n - Len(s)]
        BY <2>4, <2>5, <4>1, JoinedAt
      <4>4. (s \o t)[n] = StdT(k, a, i + 1, p)
        BY <2>4, <4>1, <4>3
      <4>5. (n - 1) \div D = i /\ (n - 1) % D = p - 1
        BY <2>7, <4>1, <4>2
      <4>6. ((n - 1) % D) + 1 = p
        BY <4>2, <4>5
      <4>7. StdDerived(k, a, n) = StdT(k, a, ((n - 1) \div D) + 1, ((n - 1) % D) + 1)
        BY Zenon DEF StdDerived, D
      <4>8. StdDerived(k, a, n) = StdT(k, a, i + 1, p)
        BY Zenon, <4>5, <4>6, <4>7
      <4>9. QED
        BY <4>4, <4>8
    <3>3. QED
      BY <3>1, <3>2
  <2>11. Good(s \o t, i + 1)
    BY <2>6, <2>8, <2>9, <2>10
  <2>12. Good(made[i + 1], i + 1)
    BY Zenon, <2>3, <2>11
  <2> HIDE DEF Good
  <2>13. QED
    BY <2>1, <2>12
<1>4. \A i \in 0 .. N : i \in S
  <2> HIDE DEF S
  <2>1. QED
    BY <1>0, <1>2, <1>3, NumbersUpTo
<1>5. Good(made[N], N)
  <2>1. N \in 0 .. N
    BY <1>0
  <2> HIDE DEF Good
  <2>2. QED
    BY <1>4, <2>1
<1>6. QED
  BY <1>5 DEF made, N

LEMMA DerivedStandard ==
  ASSUME NEW pw, NEW k, NEW a, NEW length \in Nat, Taken(pw, k), IsSeq(a.salt), a.rounds \in Nat
  PROVE  LET key == pbkdf2(pw, a.salt, a.rounds, length)
         IN  /\ IsSeq(key) /\ Len(key) = length
             /\ \A n \in 1 .. length : key[n] = StdDerived(k, a, n)
<1> DEFINE made == BlocksMade(Keyed(pw), a.salt, a.rounds, length)[Blocks(length)]
           key == pbkdf2(pw, a.salt, a.rounds, length)
           N == Blocks(length)
           D == DigestSize
           all == N * D
<1>1. IsSeq(made) /\ Len(made) = all /\ \A n \in 1 .. all : made[n] = StdDerived(k, a, n)
  BY BlocksStandard
<1>2. key = SubSeq(made, 1, length)
  BY Zenon DEF pbkdf2
<1>3. N \in Nat /\ D \in Nat \ {0} /\ length <= N
  BY SizesAre DEF Blocks
<1> HIDE DEF N, D
<1>4. all \in Nat /\ length <= all
  <2>1. 1 * N <= D * N
    <3>1. 1 <= D
      BY <1>3
    <3>2. QED
      BY <1>3, <3>1, Ordered
  <2>2. D * N = all /\ all \in Nat /\ 1 * N = N
    BY <1>3
  <2> HIDE DEF all
  <2>3. QED
    BY <1>3, <2>1, <2>2
<1> HIDE DEF made, key, all
<1>5. /\ IsSeq(SubSeq(made, 1, length)) /\ Len(SubSeq(made, 1, length)) = length
      /\ \A i \in 1 .. length : SubSeq(made, 1, length)[i] = made[i]
  BY <1>1, <1>4, BeginningIs
<1>6. \A n \in 1 .. length : n \in 1 .. all
  BY <1>4
<1>7. \A n \in 1 .. length : key[n] = StdDerived(k, a, n)
  BY Zenon, <1>1, <1>2, <1>5, <1>6
<1>8. QED
  BY <1>2, <1>5, <1>7 DEF key

-----------------------------------------------------------------------------
(* The key of a password *)

\* What is behind the token of an atom and its length.
LEMMA BehindPair ==
  ASSUME NEW e, NEW f, NEW s, IsSeq(s)
  PROVE  LET t == <<e, f>> \o s
         IN t[1] = e /\ t[2] = f /\ SubSeq(t, 3, Len(t)) = s
<1> DEFINE pair == <<e, f>>
           t == pair \o s
<1>1. IsSeq(pair) /\ Len(pair) = 2 /\ pair[1] = e /\ pair[2] = f
  BY PairIs
<1> HIDE DEF pair
<1>2. /\ IsSeq(t) /\ Len(t) = 2 + Len(s) /\ t[1] = pair[1] /\ t[2] = pair[2]
      /\ \A i \in 1 .. Len(s) : t[2 + i] = s[i]
  <2>1. /\ IsSeq(pair \o s) /\ Len(pair \o s) = Len(pair) + Len(s)
        /\ \A i \in 1 .. Len(pair) : (pair \o s)[i] = pair[i]
        /\ \A i \in 1 .. Len(s) : (pair \o s)[Len(pair) + i] = s[i]
    <3>1. IsSeq(pair)
      BY <1>1
    <3>2. QED
      BY <3>1, Joined
  <2>2. 1 \in 1 .. 2 /\ 2 \in 1 .. 2
    OBVIOUS
  <2>3. QED
    BY <1>1, <2>1, <2>2
<1>3. Len(s) \in Nat
  BY SeqIs
<1> HIDE DEF t
<1> DEFINE N == Len(t)
           S == {t[i] : i \in 1 .. N}
           rest == SubSeq(t, 3, N)
<1>4. N = 2 + Len(s) /\ N \in Nat
  BY <1>2, <1>3
<1>5. \A i \in 3 .. N : t[i] \in S
  BY <1>4
<1> HIDE DEF S, N
<1>6. 3 \in Nat
  OBVIOUS
<1>7. /\ rest \in Seq(S)
      /\ Len(rest) = IF 3 <= N THEN N - 3 + 1 ELSE 0
      /\ \A i \in 1 .. N - 3 + 1 : rest[i] = t[3 + i - 1]
  BY <1>4, <1>5, <1>6, SubSeqProperties
<1> HIDE DEF rest
<1>8. IsSeq(rest)
  BY <1>7 DEF IsSeq
<1>9. Len(rest) = Len(s)
  BY <1>3, <1>4, <1>7
<1>10. ASSUME NEW i \in 1 .. Len(rest) PROVE rest[i] = s[i]
  <2>1. i \in 1 .. Len(s) /\ i \in 1 .. N - 3 + 1 /\ 3 + i - 1 = 2 + i
    BY <1>3, <1>4, <1>9
  <2>2. QED
    BY <1>2, <1>7, <2>1
<1>11. rest = s
  BY <1>8, <1>9, <1>10, SameSeq
<1>12. QED
  BY <1>1, <1>2, <1>11 DEF rest, t, N, pair

LEMMA CutIs ==
  ASSUME NEW password, IsSeq(password)
  PROVE  IsSeq(Cut(password)) /\ ~ (Len(Cut(password)) > BlockSize)
<1> DEFINE n == IF Len(password) < MaxPassword THEN Len(password) ELSE MaxPassword
<1>1. Len(password) \in Nat /\ MaxPassword \in 0 .. BlockSize /\ BlockSize \in Nat
  BY SeqIs, CryptoAssumption
<1>2. n \in Nat /\ n <= Len(password) /\ n <= BlockSize
  BY <1>1
<1>3. Cut(password) = SubSeq(password, 1, n)
  BY DEF Cut
<1> HIDE DEF n
<1>4. IsSeq(SubSeq(password, 1, n)) /\ Len(SubSeq(password, 1, n)) = n
  BY <1>2, BeginningIs
<1>5. QED
  BY <1>1, <1>2, <1>3, <1>4

LEMMA PasswordStandard ==
  ASSUME NEW no_hash \in BOOLEAN, NEW serial, NEW password, IsSeq(password)
  PROVE  LET bytes == tcgHashPassword(no_hash, serial, password)
             key == SubSeq(bytes, 3, Len(bytes))
         IN /\ bytes[1] = Num(208) /\ bytes[2] = Num(Len(key))
            /\ no_hash => key = Cut(password)
            /\ ~no_hash =>
                 /\ Len(key) = KeyLength
                 /\ \A n \in 1 .. KeyLength :
                      key[n] = StdDerived(Cut(password), [salt |-> <<>>, rounds |-> Iterations], n)
<1> DEFINE cut == Cut(password)
           a == [salt |-> <<>>, rounds |-> Iterations]
           derived == pbkdf2(cut, <<>>, Iterations, KeyLength)
           bytes == IF no_hash THEN cut ELSE derived
           atom == tcgHashPassword(no_hash, serial, password)
<1>1. IsSeq(cut) /\ ~ (Len(cut) > BlockSize)
  BY CutIs
<1>2. Iterations \in Nat /\ KeyLength \in Nat
  BY CryptoAssumption
<1>3. a.salt = <<>> /\ a.rounds = Iterations
  OBVIOUS
<1>4. atom = <<Num(208), Num(Len(bytes))>> \o bytes
  BY Zenon DEF tcgHashPassword
<1> HIDE DEF cut, a
<1>5. Taken(cut, cut) /\ IsSeq(a.salt) /\ a.rounds \in Nat
  BY <1>1, <1>2, <1>3, EmptyIs DEF Taken, KeyTaken, Keyed
<1>6. /\ IsSeq(derived) /\ Len(derived) = KeyLength
      /\ \A n \in 1 .. KeyLength : derived[n] = StdDerived(cut, a, n)
  <2> DEFINE made == pbkdf2(cut, a.salt, a.rounds, KeyLength)
  <2>1. /\ IsSeq(made) /\ Len(made) = KeyLength
        /\ \A n \in 1 .. KeyLength : made[n] = StdDerived(cut, a, n)
    BY <1>2, <1>5, DerivedStandard
  <2>2. made = derived
    BY Zenon, <1>3
  <2>3. QED
    BY Zenon, <2>1, <2>2
<1> HIDE DEF derived
<1>7. IsSeq(bytes)
  BY <1>1, <1>6
<1>8. /\ no_hash => bytes = cut
      /\ ~ no_hash => bytes = derived
  OBVIOUS
<1> HIDE DEF bytes, atom
<1>9. atom[1] = Num(208) /\ atom[2] = Num(Len(bytes)) /\ SubSeq(atom, 3, Len(atom)) = bytes
  BY <1>4, <1>7, BehindPair
<1>10. QED
  BY Zenon, <1>6, <1>8, <1>9 DEF atom, cut, a

-----------------------------------------------------------------------------
(* The objects in use *)

\* An object that was not wiped since its reset holds what came since.
ObjectHolds ==
  /\ IsKind(kind) /\ IsSeq(msg)
  /\ ready => Holds(hash, Prefix(kind) \o msg)

CryptoInv == ObjectHolds /\ DigestIsStandard /\ DerivedIsStandard /\ PasswordIsAtom

\* The results are facts about out alone.
LEMMA NoResultIs ==
  ASSUME out' = NoResult
  PROVE  DigestIsStandard' /\ DerivedIsStandard' /\ PasswordIsAtom'
<1>1. out'.of = "none"
  BY DEF NoResult
<1>2. QED
  BY <1>1 DEF DigestIsStandard, DerivedIsStandard, PasswordIsAtom

LEMMA KindIs ==
  ASSUME NEW n \in Nat, NEW name
  PROVE  IsKind(Keyed(Text(name, n))) /\ IsSeq(Text(name, n))
BY TextIs, KindsAre

LEMMA InitCrypto == Init => CryptoInv
<1> SUFFICES ASSUME Init PROVE CryptoInv
  OBVIOUS
<1>1. IsKind(kind)
  <2>1. KeyLens \subseteq Nat
    BY CryptoAssumption
  <2>2. CASE kind = Plain
    BY <2>2, KindsAre
  <2>3. ASSUME NEW n \in KeyLens, kind = Keyed(Text("key", n)) PROVE IsKind(kind)
    <3>1. n \in Nat
      BY <2>1
    <3>2. IsKind(Keyed(Text("key", n)))
      BY Zenon, <3>1, KindIs
    <3>3. QED
      BY Zenon, <2>3, <3>2
  <2>4. QED
    BY <2>2, <2>3 DEF Init
<1>2. msg = <<>> /\ IsSeq(msg) /\ hash = ResetHash(kind) /\ out = NoResult
  BY EmptyIs DEF Init
<1>3. Holds(ResetHash(kind), Prefix(kind)) /\ Prefix(kind) \o <<>> = Prefix(kind)
  BY <1>1, ResetHolds, EmptyJoined
<1>4. ObjectHolds
  BY <1>1, <1>2, <1>3 DEF ObjectHolds
<1>5. out.of = "none"
  BY <1>2 DEF NoResult
<1>6. QED
  BY <1>4, <1>5 DEF CryptoInv, DigestIsStandard, DerivedIsStandard, PasswordIsAtom

LEMMA UpdateHolds ==
  ASSUME CryptoInv, NEW n \in Chunks, Update(n)
  PROVE  CryptoInv'
<1> DEFINE data == [i \in 1 .. n |-> Byte("msg", Len(msg) + i)]
           before == Prefix(kind) \o msg
<1>1. /\ hash' = sha1Update(hash, data) /\ msg' = msg \o data /\ out' = NoResult
      /\ kind' = kind /\ ready' = ready
  BY DEF Update
<1>2. n \in Nat
  BY CryptoAssumption
<1>3. data = [i \in 1 .. n |-> data[i]]
  OBVIOUS
<1> HIDE DEF data
<1>4. IsSeq(data)
  BY <1>2, <1>3, SeqMade
<1>5. IsKind(kind) /\ IsSeq(msg) /\ (ready => Holds(hash, before))
  BY DEF CryptoInv, ObjectHolds
<1>6. IsSeq(Prefix(kind)) /\ IsSeq(before)
  BY <1>5, ResetHolds, Joined
<1>7. before \o data = Prefix(kind) \o (msg \o data)
  BY <1>4, <1>5, <1>6, Associative
<1> HIDE DEF before
<1>8. ready => Holds(sha1Update(hash, data), before \o data)
  BY <1>4, <1>5, <1>6, Updated
<1>9. IsSeq(msg \o data)
  BY <1>4, <1>5, Joined
<1>10. ObjectHolds'
  <2>1. Prefix(kind') = Prefix(kind)
    BY <1>1
  <2>2. IsKind(kind') /\ IsSeq(msg')
    BY <1>1, <1>5, <1>9
  <2>3. ready' => Holds(hash', Prefix(kind') \o msg')
    BY <1>1, <1>7, <1>8, <2>1
  <2>4. QED
    BY <2>2, <2>3 DEF ObjectHolds
<1>11. QED
  BY <1>1, <1>10, NoResultIs DEF CryptoInv

LEMMA TakeDigestHolds ==
  ASSUME CryptoInv, TakeDigest
  PROVE  CryptoInv'
<1> DEFINE taken == [of |-> IF ready THEN "digest" ELSE "spoiled", kind |-> kind, arg |-> msg,
                     bytes |-> Digest(kind, hash)]
<1>1. out' = taken /\ ready' = FALSE /\ kind' = kind /\ msg' = msg
  BY DEF TakeDigest
<1>2. /\ taken.of = IF ready THEN "digest" ELSE "spoiled"
      /\ taken.kind = kind /\ taken.arg = msg /\ taken.bytes = Digest(kind, hash)
  BY Zenon
<1> HIDE DEF taken
<1>3. IsKind(kind) /\ IsSeq(msg) /\ (ready => Holds(hash, Prefix(kind) \o msg))
  BY DEF CryptoInv, ObjectHolds
<1>4. ready => Digest(kind, hash) = IF kind.keyed THEN StdHmac(KeyTaken(kind), msg) ELSE StdHash(msg)
  BY <1>3, DigestStandard
<1>5. taken.of = "digest" => ready
  BY <1>2
<1>6. taken.of # "derive" /\ taken.of # "password"
  BY <1>2
<1>7. DigestIsStandard'
  BY Zenon, <1>1, <1>2, <1>4, <1>5 DEF DigestIsStandard
<1>8. DerivedIsStandard' /\ PasswordIsAtom'
  BY <1>1, <1>6 DEF DerivedIsStandard, PasswordIsAtom
<1>9. ObjectHolds'
  BY <1>1, <1>3 DEF ObjectHolds
<1>10. QED
  BY <1>7, <1>8, <1>9 DEF CryptoInv

LEMMA ResetKeeps ==
  ASSUME CryptoInv, Reset
  PROVE  CryptoInv'
<1>1. hash' = ResetHash(kind) /\ msg' = <<>> /\ out' = NoResult /\ kind' = kind
  BY DEF Reset
<1>2. IsKind(kind)
  BY DEF CryptoInv, ObjectHolds
<1>3. Holds(ResetHash(kind), Prefix(kind)) /\ Prefix(kind) \o <<>> = Prefix(kind)
  BY <1>2, ResetHolds, EmptyJoined
<1>4. ObjectHolds'
  BY <1>1, <1>2, <1>3, EmptyIs DEF ObjectHolds
<1>5. QED
  BY <1>1, <1>4, NoResultIs DEF CryptoInv

LEMMA DeriveKeeps ==
  ASSUME CryptoInv, NEW n \in KeyLens, NEW s \in SaltLens, NEW rounds \in RoundCounts, NEW length \in DerivedLens,
         Derive(Text("key", n), Text("salt", s), rounds, length)
  PROVE  CryptoInv'
<1> DEFINE password == Text("key", n)
           salt == Text("salt", s)
           k == Keyed(password)
           a == [salt |-> salt, rounds |-> rounds, length |-> length]
           key == pbkdf2(password, salt, rounds, length)
           made == [of |-> "derive", kind |-> k, arg |-> a, bytes |-> key]
<1>1. n \in Nat /\ s \in Nat /\ rounds \in Nat /\ length \in Nat
  BY CryptoAssumption
<1>2. out' = made /\ kind' = kind /\ hash' = hash /\ msg' = msg /\ ready' = ready
  BY DEF Derive
<1>3. IsSeq(password) /\ IsSeq(salt)
  BY <1>1, TextIs
<1>4. Taken(password, KeyTaken(k)) /\ k.key = password
  BY <1>3, KindsAre
<1>5. a.salt = salt /\ a.rounds = rounds /\ a.length = length
  OBVIOUS
<1>6. made.of = "derive" /\ made.kind = k /\ made.arg = a /\ made.bytes = key
  BY Zenon
<1>7. /\ Len(key) = length
      /\ Len(password) <= BlockSize => \A i \in 1 .. length : key[i] = StdDerived(password, a, i)
  <2> HIDE DEF k, a, salt, password, key
  <2> DEFINE derived == pbkdf2(password, a.salt, a.rounds, length)
  <2>1. IsSeq(a.salt) /\ a.rounds \in Nat
    BY <1>1, <1>3, <1>5
  <2>2. Len(derived) = length /\ \A i \in 1 .. length : derived[i] = StdDerived(KeyTaken(k), a, i)
    <3> DEFINE taken == KeyTaken(k)
    <3>1. Taken(password, taken)
      BY <1>4
    <3> HIDE DEF taken
    <3>2. Len(derived) = length /\ \A i \in 1 .. length : derived[i] = StdDerived(taken, a, i)
      BY <1>1, <2>1, <3>1, DerivedStandard
    <3>3. QED
      BY <3>2 DEF taken
  <2>3. derived = key
    BY <1>5 DEF key
  <2>4. Len(password) <= BlockSize => KeyTaken(k) = password
    <3>1. Len(password) \in Nat /\ BlockSize \in Nat
      BY <1>3, SeqIs, SizesAre
    <3>2. ~ (Len(password) > BlockSize) => KeyTaken(k) = password
      BY <1>4, TakenIs
    <3>3. QED
      BY <3>1, <3>2
  <2>5. QED
    BY Zenon, <2>2, <2>3, <2>4
<1> HIDE DEF made, k, a, key
<1>8. DerivedIsStandard'
  BY Zenon, <1>2, <1>4, <1>5, <1>6, <1>7 DEF DerivedIsStandard
<1>9. DigestIsStandard' /\ PasswordIsAtom'
  BY <1>2, <1>6 DEF DigestIsStandard, PasswordIsAtom
<1>10. ObjectHolds'
  BY <1>2 DEF CryptoInv, ObjectHolds
<1>11. QED
  BY <1>8, <1>9, <1>10 DEF CryptoInv

LEMMA HashPasswordKeeps ==
  ASSUME CryptoInv, NEW no_hash \in BOOLEAN, NEW serial, NEW n \in PasswordLens, NEW name,
         HashPassword(no_hash, serial, Text(name, n))
  PROVE  CryptoInv'
<1> DEFINE password == Text(name, n)
           k == Keyed(password)
           a == [plain |-> no_hash, serial |-> serial]
           atom == tcgHashPassword(no_hash, serial, password)
           made == [of |-> "password", kind |-> k, arg |-> a, bytes |-> atom]
<1>1. n \in Nat
  BY CryptoAssumption
<1>2. out' = made /\ kind' = kind /\ hash' = hash /\ msg' = msg /\ ready' = ready
  BY DEF HashPassword
<1>3. IsSeq(password)
  BY <1>1, TextIs
<1>4. k.key = password /\ a.plain = no_hash
  <2>1. k.key = password
    BY <1>3, KindsAre
  <2>2. QED
    BY <2>1
<1>5. made.of = "password" /\ made.kind = k /\ made.arg = a /\ made.bytes = atom
  BY Zenon
<1> HIDE DEF password
<1>6. LET key == SubSeq(atom, 3, Len(atom))
      IN /\ atom[1] = Num(208) /\ atom[2] = Num(Len(key))
         /\ no_hash => key = Cut(password)
         /\ ~no_hash =>
              /\ Len(key) = KeyLength
              /\ \A i \in 1 .. KeyLength :
                   key[i] = StdDerived(Cut(password), [salt |-> <<>>, rounds |-> Iterations], i)
  BY <1>3, PasswordStandard
<1> HIDE DEF made, k, a, atom
<1>7. PasswordIsAtom'
  BY Zenon, <1>2, <1>4, <1>5, <1>6 DEF PasswordIsAtom
<1>8. DigestIsStandard' /\ DerivedIsStandard'
  BY <1>2, <1>5 DEF DigestIsStandard, DerivedIsStandard
<1>9. ObjectHolds'
  BY <1>2 DEF CryptoInv, ObjectHolds
<1>10. QED
  BY <1>7, <1>8, <1>9 DEF CryptoInv

LEMMA CryptoStep == CryptoInv /\ [Next]_vars => CryptoInv'
<1> SUFFICES ASSUME CryptoInv, [Next]_vars PROVE CryptoInv'
  OBVIOUS
<1>1. CASE \E n \in Chunks : Update(n)
  BY <1>1, UpdateHolds
<1>2. CASE TakeDigest
  BY <1>2, TakeDigestHolds
<1>3. CASE Reset
  BY <1>3, ResetKeeps
<1>4. CASE \E n \in KeyLens, s \in SaltLens, rounds \in RoundCounts, length \in DerivedLens :
             Derive(Text("key", n), Text("salt", s), rounds, length)
  BY <1>4, DeriveKeeps
<1>5. CASE \E no_hash \in BOOLEAN, serial \in {"s1", "s2"}, n \in PasswordLens, name \in {"p", "q"} :
             HashPassword(no_hash, serial, Text(name, n))
  BY <1>5, HashPasswordKeeps
<1>6. CASE UNCHANGED vars
  BY <1>6 DEF vars, CryptoInv, ObjectHolds, DigestIsStandard, DerivedIsStandard, PasswordIsAtom
<1>7. QED
  BY <1>1, <1>2, <1>3, <1>4, <1>5, <1>6 DEF Next

LEMMA CryptoAlways == Spec => []CryptoInv
BY InitCrypto, CryptoStep, PTL DEF Spec

\* HashSha1 and Hmac give the standards' digests, for every size of blocks and
\* words, every key (of one longer than a block, the digest for the block that
\* Hmac makes of it), and every way that data comes in chunks and is reset.
THEOREM DigestsStandard == Spec => []DigestIsStandard
<1>1. CryptoInv => DigestIsStandard
  BY DEF CryptoInv
<1>2. QED
  BY <1>1, CryptoAlways, PTL

\* pbkdf2 derives RFC 8018's keys, for every password that is no longer than a
\* block, every salt, number of rounds and length; of a longer password it
\* derives a key of the length, but not RFC 8018's (hash.cc:30-39).
THEOREM KeysStandard == Spec => []DerivedIsStandard
<1>1. CryptoInv => DerivedIsStandard
  BY DEF CryptoInv
<1>2. QED
  BY <1>1, CryptoAlways, PTL

\* tcgHashPassword makes an atom of the cut password or of its key, whatever
\* the serial number is.
THEOREM PasswordsAtoms == Spec => []PasswordIsAtom
<1>1. CryptoInv => PasswordIsAtom
  BY DEF CryptoInv
<1>2. QED
  BY <1>1, CryptoAlways, PTL
=============================================================================
