--------------------------- MODULE CoSnarkProofs ---------------------------
(***************************************************************************)
(* Proofs about the circuits and proofs of crates/zk: for any connections, *)
(* shares, records and parameters, over the scaled-down SHA-256 and field  *)
(* of TlsPrf.                                                              *)
(*                                                                         *)
(* The first part shows that the gadgets compute what the TLS stack does,  *)
(* from padding over HMAC to the PRF, for data of any length.  Their loops *)
(* are recursive functions over 0..n: IterationExists says that such a     *)
(* definition has a function, AllIn that its values have a type that each  *)
(* step keeps.  The second part computes the verdict on each kind of proof *)
(* and follows the state machine.                                          *)
(***************************************************************************)
EXTENDS CoSnark, FiniteSetTheorems, TLAPS

\* Induction, as minimality: a set of numbers has a member whose predecessor
\* is not in it.
LEMMA FirstOne ==
  ASSUME NEW W, W \subseteq Nat, W # {}
  PROVE  \E m \in W : m - 1 \notin W
<1>1. PICK m \in W : \A y \in W : <<y, m>> \notin OpToRel(<, Nat)
  BY NatLessThanWellFounded, WFMin, Zenon
<1>2. \A y \in W : ~ (y < m)
  BY <1>1, Zenon DEF OpToRel
<1> QED
  BY <1>2

\* What a recursive definition over 0..n says of its function.
Iterates(f, n, x0, step) ==
  f = [i \in 0..n |-> IF i = 0 THEN x0 ELSE step[i][f[i - 1]]]

\* A recursive definition over 0..n has a function.
LEMMA IterationExists ==
  ASSUME NEW n \in Nat, NEW x0, NEW step
  PROVE  \E f : Iterates(f, n, x0, step)
<1> DEFINE W == {m \in 0..n : ~ \E f : Iterates(f, m, x0, step)}
<1> SUFFICES ASSUME W # {} PROVE FALSE
  OBVIOUS
<1>1. W \subseteq Nat
  OBVIOUS
<1>2. PICK m \in W : m - 1 \notin W
  <2> HIDE DEF W
  <2> QED BY <1>1, FirstOne, Zenon
<1>3. m \in 0..n /\ ~ \E f : Iterates(f, m, x0, step)
  BY Zenon
<1>4. m # 0
  <2>1. Iterates([i \in 0..0 |-> x0], 0, x0, step)
    BY DEF Iterates
  <2> QED BY <1>3, <2>1, Zenon
<1>5. PICK f : Iterates(f, m - 1, x0, step)
  BY <1>2, <1>3, <1>4
<1> DEFINE g == [i \in 0..m |-> IF i <= m - 1 THEN f[i] ELSE step[m][f[m - 1]]]
<1>6. ASSUME NEW i \in 0..m
      PROVE  g[i] = IF i = 0 THEN x0 ELSE step[i][g[i - 1]]
  <2>1. CASE i = m
    BY <1>3, <1>4, <2>1
  <2>2. CASE i # m
    <3>1. i \in 0..(m - 1)
      BY <1>3, <1>4, <2>2
    <3>2. f[i] = IF i = 0 THEN x0 ELSE step[i][f[i - 1]]
      BY <1>5, <3>1, Zenon DEF Iterates
    <3>3. g[i] = f[i] /\ (i # 0 => g[i - 1] = f[i - 1])
      BY <1>3, <3>1
    <3> QED BY <3>2, <3>3, Zenon
  <2> QED BY <2>1, <2>2, Zenon
<1>7. Iterates(g, m, x0, step)
  <2>1. g = [i \in 0..m |-> g[i]]
    BY Zenon
  <2> HIDE DEF g
  <2> QED BY <1>6, <2>1, Zenon DEF Iterates
<1> QED
  BY <1>3, <1>7, Zenon

\* Its values, one by one.
LEMMA IterationValues ==
  ASSUME NEW n \in Nat, NEW x0, NEW step, NEW f, Iterates(f, n, x0, step)
  PROVE  f[0] = x0 /\ \A i \in 1..n : f[i] = step[i][f[i - 1]]
<1>1. \A i \in 0..n : f[i] = IF i = 0 THEN x0 ELSE step[i][f[i - 1]]
  BY Zenon DEF Iterates
<1> QED
  BY <1>1

\* What every step keeps holds of all values of a function.
LEMMA AllValues ==
  ASSUME NEW n \in Nat, NEW f, NEW X, f[0] \in X[0],
         \A i \in 1..n : f[i - 1] \in X[i - 1] => f[i] \in X[i]
  PROVE  \A i \in 0..n : f[i] \in X[i]
<1> DEFINE W == {i \in 0..n : f[i] \notin X[i]}
<1> SUFFICES ASSUME W # {} PROVE FALSE
  BY Zenon
<1>1. W \subseteq Nat
  OBVIOUS
<1>2. PICK i \in W : i - 1 \notin W
  <2> HIDE DEF W
  <2> QED BY <1>1, FirstOne, Zenon
<1>3. i \in 0..n /\ f[i] \notin X[i]
  BY Zenon
<1>4. i \in 1..n /\ i - 1 \in 0..n
  BY <1>3
<1>5. f[i - 1] \in X[i - 1]
  BY <1>2, <1>4, Zenon
<1> QED
  BY <1>3, <1>4, <1>5, Zenon

\* The same for one set.
LEMMA AllIn ==
  ASSUME NEW n \in Nat, NEW f, NEW S, f[0] \in S,
         \A i \in 1..n : f[i - 1] \in S => f[i] \in S
  PROVE  \A i \in 0..n : f[i] \in S
<1> DEFINE X == [i \in 0..n |-> S]
<1>1. f[0] \in X[0] /\ \A i \in 1..n : f[i - 1] \in X[i - 1] => f[i] \in X[i]
  OBVIOUS
<1>2. \A i \in 0..n : f[i] \in X[i]
  <2> HIDE DEF X
  <2> QED BY <1>1, AllValues, Zenon
<1> QED
  BY <1>2, Zenon

---------------------------------------------------------------------------
(* SHA-256.                                                                *)

\* Two units make a digest.
LEMMA DigestOfTwo ==
  ASSUME NEW x \in Nibble, NEW y \in Nibble
  PROVE  <<x, y>> \in Digest
BY DEF Digest, Hash

\* Data appended to data.
LEMMA ConcatBytes ==
  ASSUME NEW s \in Bytes, NEW t \in Bytes
  PROVE  /\ s \o t \in Bytes /\ Len(s \o t) = Len(s) + Len(t)
         /\ Len(s) \in Nat /\ Len(t) \in Nat
         /\ \A i \in 1..Len(s) : (s \o t)[i] = s[i]
         /\ \A i \in 1..Len(t) : (s \o t)[Len(s) + i] = t[i]
BY DEF Bytes

\* The first units of data.
LEMMA TruncateBytes ==
  ASSUME NEW s \in Bytes, NEW n \in Nat, n <= Len(s)
  PROVE  /\ SubSeq(s, 1, n) \in Bytes /\ Len(SubSeq(s, 1, n)) = n
         /\ \A i \in 1..n : SubSeq(s, 1, n)[i] = s[i]
         /\ n = 2 => SubSeq(s, 1, n) = <<s[1], s[2]>>
<1>1. /\ SubSeq(s, 1, n) \in Bytes /\ Len(SubSeq(s, 1, n)) = n
      /\ \A i \in 1..n : SubSeq(s, 1, n)[i] = s[i]
  BY DEF Bytes
<1>2. ASSUME NEW t \in Bytes, Len(t) = 2 PROVE t = <<t[1], t[2]>>
  BY <1>2 DEF Bytes
<1>3. ASSUME n = 2 PROVE SubSeq(s, 1, n) = <<s[1], s[2]>>
  <2>1. SubSeq(s, 1, n) = <<SubSeq(s, 1, n)[1], SubSeq(s, 1, n)[2]>>
    BY <1>1, <1>2, <1>3, Zenon
  <2> QED BY <1>1, <1>3, <2>1
<1> QED
  BY <1>1, <1>3, Zenon

\* A digest is data.
LEMMA DigestIsBytes ==
  ASSUME NEW d \in Digest
  PROVE  /\ d \in Bytes /\ Len(d) = 2 /\ d[1] \in Nibble /\ d[2] \in Nibble
         /\ d = <<d[1], d[2]>>
<1>1. d[1] \in Nibble /\ d[2] \in Nibble /\ d = <<d[1], d[2]>>
  BY DEF Digest, Hash
<1>2. <<d[1], d[2]>> \in Seq(Nibble) /\ Len(<<d[1], d[2]>>) = 2
  BY <1>1
<1> QED
  BY <1>1, <1>2, Zenon DEF Bytes

StateRange == 0..250

\* What a block of 4 units makes of a state.
MixAt(padded, b, s) ==
  Mixed(s, padded[Block * b - 3], padded[Block * b - 2], padded[Block * b - 1],
        padded[Block * b])

IsStates(state, padded, n) ==
  state = [b \in 0..n |-> IF b = 0 THEN IV ELSE MixAt(padded, b, state[b - 1])]

\* The state stays in its range.
LEMMA MixTyped ==
  ASSUME NEW padded \in Bytes, NEW n \in Nat, 4 * n <= Len(padded),
         NEW b \in 1..n, NEW s \in StateRange
  PROVE  MixAt(padded, b, s) \in StateRange
<1>1. \A i \in 1..Len(padded) : padded[i] \in Int
  BY DEF Bytes, Nibble
<1>2. /\ Block * b - 3 \in 1..Len(padded) /\ Block * b - 2 \in 1..Len(padded)
      /\ Block * b - 1 \in 1..Len(padded) /\ Block * b \in 1..Len(padded)
  BY DEF Bytes, Block
<1>3. ASSUME NEW w \in Int, NEW x \in Int, NEW y \in Int, NEW z \in Int
      PROVE  Mixed(s, w, x, y, z) \in StateRange
  <2> DEFINE t == 7 * s + 3 * w + 5 * x * x + 11 * y + 13 * z * z + w * x + y * z + 5
  <2>1. t \in Int
    BY DEF StateRange
  <2>2. t % 251 \in 0..250
    <3> HIDE DEF t
    <3> QED BY <2>1
  <2> QED BY <2>2, Zenon DEF Mixed, StateRange
<1> QED
  BY <1>1, <1>2, <1>3, Zenon DEF MixAt

\* The rounds are well defined.
LEMMA StatesExist ==
  ASSUME NEW padded \in Bytes, NEW n \in Nat, 4 * n <= Len(padded)
  PROVE  \E state : IsStates(state, padded, n)
<1> DEFINE step == [b \in 1..n |-> [s \in StateRange |-> MixAt(padded, b, s)]]
<1>1. PICK f : Iterates(f, n, IV, step)
  <2> HIDE DEF step
  <2> QED BY IterationExists, Zenon
<1>2. f[0] = IV /\ \A b \in 1..n : f[b] = step[b][f[b - 1]]
  <2> HIDE DEF step
  <2> QED BY <1>1, IterationValues
<1>3. \A b \in 1..n : f[b - 1] \in StateRange => f[b] = MixAt(padded, b, f[b - 1])
  BY <1>2, Zenon
<1>4. \A b \in 0..n : f[b] \in StateRange
  <2>1. f[0] \in StateRange
    BY <1>2 DEF IV, StateRange
  <2>2. \A b \in 1..n : f[b - 1] \in StateRange => f[b] \in StateRange
    BY <1>3, MixTyped, Zenon
  <2> QED BY <2>1, <2>2, AllIn, Zenon
<1>5. \A b \in 0..n : (IF b = 0 THEN IV ELSE step[b][f[b - 1]])
                       = IF b = 0 THEN IV ELSE MixAt(padded, b, f[b - 1])
  BY <1>4
<1>6. IsStates(f, padded, n)
  <2> HIDE DEF step
  <2> QED BY <1>1, <1>5, Zenon DEF Iterates, IsStates
<1> QED
  BY <1>6, Zenon

\* Its states are in range.
LEMMA StatesTyped ==
  ASSUME NEW padded \in Bytes, NEW n \in Nat, 4 * n <= Len(padded),
         NEW state, IsStates(state, padded, n)
  PROVE  state[n] \in StateRange
<1>1. \A b \in 0..n : state[b] = IF b = 0 THEN IV ELSE MixAt(padded, b, state[b - 1])
  BY Zenon DEF IsStates
<1>2. state[0] \in StateRange
  BY <1>1 DEF IV, StateRange
<1>3. \A b \in 1..n : state[b - 1] \in StateRange => state[b] \in StateRange
  BY <1>1, MixTyped
<1>4. \A b \in 0..n : state[b] \in StateRange
  BY <1>2, <1>3, AllIn, Zenon
<1> QED
  BY <1>4

\* What the compression function returns is a digest.
LEMMA CompressTyped ==
  ASSUME NEW padded \in Bytes
  PROVE  Compress(padded) \in Digest
<1> DEFINE n == Len(padded) \div Block
           state == CHOOSE f : IsStates(f, padded, n)
<1>1. n \in Nat /\ 4 * n <= Len(padded)
  BY DEF Bytes, Block
<1>2. state[n] \in StateRange
  <2> HIDE DEF n
  <2>1. IsStates(state, padded, n)
    BY <1>1, StatesExist, Zenon
  <2> HIDE DEF state
  <2> QED BY <1>1, <2>1, StatesTyped, Zenon
<1>3. Compress(padded) = <<state[n] % 16, state[n] \div 16>>
  BY Zenon DEF Compress, IsStates, MixAt
<1> HIDE DEF state, n
<1>4. state[n] % 16 \in Nibble /\ state[n] \div 16 \in Nibble
  BY <1>2 DEF Nibble, StateRange
<1> QED
  BY <1>3, <1>4, DigestOfTwo, Zenon

\* The padding of the gadgets is the padding of the library.
LEMMA PadAgrees ==
  ASSUME NEW m \in Bytes
  PROVE  /\ sha256_pad(m) \in Bytes
         /\ Sha256(m) = Compress(sha256_pad(m))
         /\ m \o SubSeq(sha256_pad(m), Len(m) + 1, Len(sha256_pad(m)))
              = sha256_pad(m)
<1> DEFINE z == CHOOSE n \in 0..(Block - 1) : (Len(m) + n + 2) % Block = 0
           fill == (Block - 1 - Len(Append(m, 8))) % Block
           rest == <<8>> \o Zeros(fill) \o <<Len(m) % 16>>
<1>1. Len(m) \in Nat /\ Append(m, 8) = m \o <<8>> /\ Len(Append(m, 8)) = Len(m) + 1
  BY DEF Bytes
<1>2. fill \in 0..(Block - 1)
  BY <1>1 DEF Block
<1>3. z = fill
  BY <1>1, <1>2 DEF Block
<1> HIDE DEF fill
<1>4. Zeros(fill) \in Bytes /\ Len(m) % 16 \in Nibble
  BY <1>1, <1>2 DEF Zeros, Bytes, Block, Nibble
<1>5. rest \in Bytes
  BY <1>4 DEF Bytes, Nibble
<1>6. sha256_pad(m) = m \o rest
  <2>1. m \o <<8>> \o Zeros(fill) \o <<Len(m) % 16>> = m \o rest
    BY <1>4 DEF Bytes, Nibble
  <2> QED BY <1>1, <2>1, Zenon DEF sha256_pad, fill
<1>7. sha256_pad(m) = m \o <<8>> \o Zeros(z) \o <<Len(m) % 16>>
  BY <1>1, <1>3, Zenon DEF sha256_pad, fill
<1> HIDE DEF rest, z
<1>8. m \o rest \in Bytes /\ SubSeq(m \o rest, Len(m) + 1, Len(m \o rest)) = rest
  BY <1>5 DEF Bytes
<1> QED
  BY <1>6, <1>7, <1>8, Zenon DEF Sha256, z

\* Both gadgets compute the library's digest.
LEMMA ShaGadgetsAgree ==
  ASSUME NEW m \in Bytes
  PROVE  /\ Sha256(m) \in Digest
         /\ sha256_gadget(m) = Sha256(m)
         /\ sha256_from_byte_vars(m) = Sha256(m)
BY PadAgrees, CompressTyped, Zenon DEF sha256_gadget, sha256_from_byte_vars

---------------------------------------------------------------------------
(* HMAC.                                                                   *)

\* Bit i of a unit.
Bit(x, i) == Bits[x][i]

SameBits(x, y) == /\ Bit(x, 1) = Bit(y, 1) /\ Bit(x, 2) = Bit(y, 2)
                  /\ Bit(x, 3) = Bit(y, 3) /\ Bit(x, 4) = Bit(y, 4)

\* A unit is the weighted sum of its bits.
LEMMA BitsOf ==
  ASSUME NEW x \in Nibble
  PROVE  /\ Bit(x, 1) \in 0..1 /\ Bit(x, 2) \in 0..1
         /\ Bit(x, 3) \in 0..1 /\ Bit(x, 4) \in 0..1
         /\ x = Bit(x, 1) + 2 * Bit(x, 2) + 4 * Bit(x, 3) + 8 * Bit(x, 4)
<1>1. /\ Bit(x, 1) = x % 2 /\ Bit(x, 2) = (x \div 2) % 2
      /\ Bit(x, 3) = (x \div 4) % 2 /\ Bit(x, 4) = x \div 8
  BY Zenon DEF Bits, Bit
<1> QED
  BY <1>1 DEF Nibble

\* The weighted sum of four bits is the unit that has them.
LEMMA BitsOfSum ==
  ASSUME NEW a \in 0..1, NEW b \in 0..1, NEW c \in 0..1, NEW d \in 0..1,
         NEW x, x = a + 2 * b + 4 * c + 8 * d
  PROVE  /\ x \in Nibble
         /\ Bit(x, 1) = a /\ Bit(x, 2) = b /\ Bit(x, 3) = c /\ Bit(x, 4) = d
<1>1. x \in Nibble
  BY DEF Nibble
<1>2. /\ Bit(x, 1) = x % 2 /\ Bit(x, 2) = (x \div 2) % 2
      /\ Bit(x, 3) = (x \div 4) % 2 /\ Bit(x, 4) = x \div 8
  BY <1>1, Zenon DEF Bits, Bit
<1> QED
  BY <1>1, <1>2

\* A unit is known by its bits.
LEMMA UnitByBits ==
  ASSUME NEW x \in Nibble, NEW y \in Nibble, SameBits(x, y)
  PROVE  x = y
BY BitsOf, Zenon DEF SameBits

Xor(x, y) == XorTable[x][y]

\* The table computes the exclusive or bit by bit.
LEMMA XorBits ==
  ASSUME NEW x \in Nibble, NEW y \in Nibble
  PROVE  /\ Xor(x, y) \in Nibble
         /\ Bit(Xor(x, y), 1) = (Bit(x, 1) + Bit(y, 1)) % 2
         /\ Bit(Xor(x, y), 2) = (Bit(x, 2) + Bit(y, 2)) % 2
         /\ Bit(Xor(x, y), 3) = (Bit(x, 3) + Bit(y, 3)) % 2
         /\ Bit(Xor(x, y), 4) = (Bit(x, 4) + Bit(y, 4)) % 2
<1> DEFINE bit(i) == (Bit(x, i) + Bit(y, i)) % 2
<1>1. bit(1) \in 0..1 /\ bit(2) \in 0..1 /\ bit(3) \in 0..1 /\ bit(4) \in 0..1
  BY BitsOf
<1>2. Xor(x, y) = bit(1) + 2 * bit(2) + 4 * bit(3) + 8 * bit(4)
  BY Zenon DEF XorTable, Xor, Bit
<1> HIDE DEF bit
<1>3. /\ Xor(x, y) \in Nibble
      /\ Bit(Xor(x, y), 1) = bit(1) /\ Bit(Xor(x, y), 2) = bit(2)
      /\ Bit(Xor(x, y), 3) = bit(3) /\ Bit(Xor(x, y), 4) = bit(4)
  BY <1>1, <1>2, BitsOfSum
<1> QED
  BY <1>3, Zenon DEF bit

\* Sums of bits modulo 2.
LEMMA BitSums ==
  ASSUME NEW a \in 0..1, NEW b \in 0..1, NEW c \in 0..1
  PROVE  /\ (a + ((b + a) % 2)) % 2 = b
         /\ (a + 0) % 2 = a
         /\ (((a + c) % 2) + ((b + c) % 2)) % 2 = (a + b) % 2
OBVIOUS

\* A share and the key masked with it make the key.
LEMMA XorCancels ==
  ASSUME NEW p \in Nibble, NEW k \in Nibble
  PROVE  Xor(p, Xor(k, p)) = k
<1>1. Xor(k, p) \in Nibble /\ Xor(p, Xor(k, p)) \in Nibble
  BY XorBits, Zenon
<1>2. SameBits(Xor(p, Xor(k, p)), k)
  BY <1>1, XorBits, BitsOf, BitSums DEF SameBits
<1> QED
  BY <1>1, <1>2, UnitByBits, Zenon

\* The zero share changes nothing.
LEMMA XorZero ==
  ASSUME NEW k \in Nibble
  PROVE  Xor(k, 0) = k
<1>1. /\ 0 \in Nibble /\ Bit(0, 1) = 0 /\ Bit(0, 2) = 0
      /\ Bit(0, 3) = 0 /\ Bit(0, 4) = 0
  BY BitsOfSum
<1>2. SameBits(Xor(k, 0), k)
  BY <1>1, XorBits, BitsOf, BitSums DEF SameBits
<1> QED
  BY <1>1, <1>2, XorBits, UnitByBits, Zenon

\* A mask on both shares cancels out.
LEMMA XorMasked ==
  ASSUME NEW p \in Nibble, NEW v \in Nibble, NEW m \in Nibble
  PROVE  Xor(Xor(p, m), Xor(v, m)) = Xor(p, v)
<1>1. /\ Xor(p, m) \in Nibble /\ Xor(v, m) \in Nibble /\ Xor(p, v) \in Nibble
      /\ Xor(Xor(p, m), Xor(v, m)) \in Nibble
  BY XorBits, Zenon
<1>2. SameBits(Xor(Xor(p, m), Xor(v, m)), Xor(p, v))
  BY <1>1, XorBits, BitsOf, BitSums DEF SameBits
<1> QED
  BY <1>1, <1>2, UnitByBits, Zenon

\* Data with every unit changed is data of the same length.
LEMMA XorWithTyped ==
  ASSUME NEW s \in Bytes, NEW c \in Nibble
  PROVE  XorWith(s, c) \in Bytes /\ Len(XorWith(s, c)) = Len(s)
<1>1. \A i \in 1..Len(s) : XorTable[s[i]][c] \in Nibble
  BY XorBits DEF Bytes, Xor
<1> QED
  BY <1>1 DEF XorWith, Bytes

\* A key is padded to the block in two ways.
LEMMA KeyBlocks ==
  ASSUME NEW key \in Bytes, Len(key) <= Block
  PROVE  /\ key \o Zeros(Block - Len(key)) \in Bytes
         /\ key \o Zeros(Block - Len(key))
              = [i \in 1..Block |-> IF i <= Len(key) THEN key[i] ELSE 0]
<1> DEFINE z == Zeros(Block - Len(key))
           k == key \o z
<1>1. Len(key) \in Nat /\ Block - Len(key) \in Nat
  BY DEF Bytes, Block
<1>2. /\ z \in Seq(Nibble) /\ Len(z) = Block - Len(key)
      /\ \A i \in 1..(Block - Len(key)) : z[i] = 0
  BY <1>1 DEF Zeros, Nibble
<1> HIDE DEF z
<1>3. k \in Seq(Nibble) /\ Len(k) = Block
  BY <1>1, <1>2 DEF Bytes, Block
<1>4. \A i \in 1..Block : k[i] = IF i <= Len(key) THEN key[i] ELSE 0
  BY <1>1, <1>2 DEF Bytes, Block
<1> HIDE DEF k
<1>5. k = [i \in 1..Block |-> k[i]]
  BY <1>3
<1>6. k = [i \in 1..Block |-> IF i <= Len(key) THEN key[i] ELSE 0]
  BY <1>4, <1>5, Zenon
<1> QED
  BY <1>3, <1>6, Zenon DEF k, z, Bytes

\* The HMAC of the library, by its key block.
HmacOf(k, data) == Sha256(XorWith(k, 12) \o Sha256(XorWith(k, 6) \o data))

\* Both stages of HMAC hash data.
LEMMA HmacStages ==
  ASSUME NEW k \in Bytes, NEW data \in Bytes
  PROVE  /\ XorWith(k, 6) \o data \in Bytes
         /\ XorWith(k, 12) \o Sha256(XorWith(k, 6) \o data) \in Bytes
         /\ HmacOf(k, data) \in Digest
<1>1. XorWith(k, 6) \in Bytes /\ XorWith(k, 12) \in Bytes
  BY XorWithTyped DEF Nibble
<1>2. XorWith(k, 6) \o data \in Bytes
  BY <1>1 DEF Bytes
<1>3. Sha256(XorWith(k, 6) \o data) \in Bytes
  BY <1>2, ShaGadgetsAgree, DigestIsBytes, Zenon
<1>4. XorWith(k, 12) \o Sha256(XorWith(k, 6) \o data) \in Bytes
  BY <1>1, <1>3 DEF Bytes
<1> QED
  BY <1>2, <1>4, ShaGadgetsAgree, Zenon DEF HmacOf

\* The HMAC of circuits on witness data is the library's for every key, and
\* the constrained one for every key that fits in a block.
LEMMA HmacGadgetsAgree ==
  ASSUME NEW key \in Bytes, NEW data \in Bytes
  PROVE  /\ HmacSha256(key, data) \in Digest
         /\ hmac_sha256_gadget(key, data) = HmacSha256(key, data)
         /\ Len(key) <= Block =>
              hmac_sha256_gadget_constrained(key, data) = HmacSha256(key, data)
<1> DEFINE short == IF Len(key) > Block THEN Sha256(key) ELSE key
           k == short \o Zeros(Block - Len(short))
<1>1. short \in Bytes /\ Len(short) <= Block
  <2>1. Sha256(key) \in Bytes /\ Len(Sha256(key)) = 2
    BY ShaGadgetsAgree, DigestIsBytes, Zenon
  <2>2. CASE Len(key) > Block
    <3>1. short = Sha256(key)
      BY <2>2, Zenon
    <3> QED BY <2>1, <3>1 DEF Block
  <2>3. CASE ~ (Len(key) > Block)
    BY <2>3 DEF Block, Bytes
  <2> QED BY <2>2, <2>3, Zenon
<1>2. k \in Bytes /\ k = [i \in 1..Block |-> IF i <= Len(short) THEN short[i] ELSE 0]
  <2> HIDE DEF short
  <2> QED BY <1>1, KeyBlocks, Zenon
<1>3. HmacSha256(key, data) = HmacOf(k, data)
  BY Zenon DEF HmacSha256, HmacOf
<1>4. hmac_sha256_gadget(key, data)
        = sha256_gadget(XorWith(k, 12) \o sha256_gadget(XorWith(k, 6) \o data))
  <2> HIDE DEF k
  <2> QED BY <1>2, Zenon DEF hmac_sha256_gadget
<1>5. Len(key) <= Block =>
        hmac_sha256_gadget_constrained(key, data)
          = sha256_from_byte_vars(XorWith(k, 12)
                                  \o sha256_from_byte_vars(XorWith(k, 6) \o data))
  <2>1. Len(key) <= Block => short = key
    BY DEF Bytes, Block
  <2> HIDE DEF short
  <2> QED BY <2>1, Zenon DEF hmac_sha256_gadget_constrained
<1> HIDE DEF k
<1>6. /\ XorWith(k, 6) \o data \in Bytes
      /\ XorWith(k, 12) \o Sha256(XorWith(k, 6) \o data) \in Bytes
      /\ HmacOf(k, data) \in Digest
  BY <1>2, HmacStages, Zenon
<1>7. /\ sha256_gadget(XorWith(k, 12) \o sha256_gadget(XorWith(k, 6) \o data))
           = HmacOf(k, data)
      /\ sha256_from_byte_vars(XorWith(k, 12)
                               \o sha256_from_byte_vars(XorWith(k, 6) \o data))
           = HmacOf(k, data)
  BY <1>6, ShaGadgetsAgree, Zenon DEF HmacOf
<1> QED
  BY <1>3, <1>4, <1>5, <1>6, <1>7, Zenon

---------------------------------------------------------------------------
(* The PRF.                                                                *)

IsChain(a, mac, ls, n) ==
  a = [i \in 0..n |-> IF i = 0 THEN ls ELSE mac[a[i - 1]]]

IsOutput(output, mac, a, ls, n) ==
  output = [i \in 0..n |->
              IF i = 0 THEN <<>>
              ELSE LET done == output[i - 1]
                   IN IF Len(done) < n THEN done \o mac[a[i] \o ls] ELSE done]

Chain(mac, ls, n) == CHOOSE a : IsChain(a, mac, ls, n)

Output(mac, a, ls, n) == CHOOSE output : IsOutput(output, mac, a, ls, n)

\* A(i) is defined, and data.
LEMMA ChainTyped ==
  ASSUME NEW mac \in [Bytes -> Digest], NEW ls \in Bytes, NEW n \in Nat
  PROVE  /\ \A i \in 0..n : Chain(mac, ls, n)[i] \in Bytes
         /\ n > 0 => Chain(mac, ls, n)[1] = mac[ls]
<1> DEFINE a == Chain(mac, ls, n)
<1>1. IsChain(a, mac, ls, n)
  <2> DEFINE step == [i \in 1..n |-> mac]
  <2>1. PICK f : Iterates(f, n, ls, step)
    <3> HIDE DEF step
    <3> QED BY IterationExists, Zenon
  <2>2. \A i \in 0..n : (IF i = 0 THEN ls ELSE step[i][f[i - 1]])
                         = IF i = 0 THEN ls ELSE mac[f[i - 1]]
    OBVIOUS
  <2>3. IsChain(f, mac, ls, n)
    <3> HIDE DEF step
    <3> QED BY <2>1, <2>2, Zenon DEF Iterates, IsChain
  <2> QED BY <2>3, Zenon DEF Chain
<1> HIDE DEF a
<1>2. a[0] = ls /\ \A i \in 1..n : a[i] = mac[a[i - 1]]
  BY <1>1 DEF IsChain
<1>3. \A i \in 1..n : a[i - 1] \in Bytes => a[i] \in Bytes
  BY <1>2, DigestIsBytes, Zenon
<1>6. \A i \in 0..n : a[i] \in Bytes
  BY <1>2, <1>3, AllIn, Zenon
<1>7. n > 0 => a[1] = mac[ls]
  BY <1>2
<1> QED
  BY <1>6, <1>7, Zenon DEF a

\* What the output is after round i: it is long enough or has i blocks, and it
\* begins with the first one.
OutputOK(o, i, first, n) ==
  /\ Len(o) >= n \/ Len(o) = 2 * i
  /\ i = 0 => Len(o) = 0
  /\ i > 0 => Len(o) >= 2 /\ o[1] = first[1] /\ o[2] = first[2]

\* A round of the loop.
LEMMA OutputRound ==
  ASSUME NEW n \in Nat, NEW i \in 1..n, NEW o \in Bytes, NEW first,
         NEW block \in Digest, OutputOK(o, i - 1, first, n), i = 1 => block = first
  PROVE  LET next == IF Len(o) < n THEN o \o block ELSE o
         IN next \in Bytes /\ OutputOK(next, i, first, n)
<1>1. Len(o) \in Nat /\ block \in Bytes /\ Len(block) = 2
  BY DigestIsBytes DEF Bytes
<1>4. /\ o \o block \in Bytes /\ Len(o \o block) = Len(o) + Len(block)
      /\ \A j \in 1..Len(o) : (o \o block)[j] = o[j]
      /\ \A j \in 1..Len(block) : (o \o block)[Len(o) + j] = block[j]
  BY <1>1, ConcatBytes, Zenon
<1>2. CASE Len(o) < n
  <2>1. o \o block \in Bytes /\ Len(o \o block) = Len(o) + 2
    BY <1>1, <1>4, Zenon
  <2>2. Len(o) = 2 * (i - 1)
    BY <1>1, <1>2 DEF OutputOK
  <2>3. CASE i = 1
    <3>1. Len(o) = 0
      BY <2>2, <2>3
    <3>2. (o \o block)[1] = block[1] /\ (o \o block)[2] = block[2]
      BY <1>1, <1>4, <3>1
    <3> QED BY <1>2, <2>1, <2>2, <2>3, <3>2 DEF OutputOK
  <2>4. CASE i # 1
    <3>1. Len(o) >= 2 /\ o[1] = first[1] /\ o[2] = first[2]
      BY <2>4 DEF OutputOK
    <3>2. (o \o block)[1] = o[1] /\ (o \o block)[2] = o[2]
      BY <1>1, <1>4, <3>1
    <3> QED BY <1>1, <1>2, <2>1, <2>2, <3>1, <3>2 DEF OutputOK
  <2> QED BY <2>3, <2>4, Zenon
<1>3. CASE ~ (Len(o) < n)
  <2>1. Len(o) >= n
    BY <1>1, <1>3
  <2>2. i # 1 => Len(o) >= 2 /\ o[1] = first[1] /\ o[2] = first[2]
    BY DEF OutputOK
  <2>3. i # 1
    BY <1>1, <2>1 DEF OutputOK
  <2> QED BY <1>3, <2>1, <2>2, <2>3 DEF OutputOK
<1> QED
  BY <1>2, <1>3, Zenon

\* The output is well defined, long enough, and begins with the first block.
LEMMA OutputTyped ==
  ASSUME NEW mac \in [Bytes -> Digest], NEW ls \in Bytes, NEW n \in Nat, n > 0
  PROVE  LET o == Output(mac, Chain(mac, ls, n), ls, n)[n]
         IN o \in Bytes /\ OutputOK(o, n, mac[mac[ls] \o ls], n)
<1> DEFINE a == Chain(mac, ls, n)
           first == mac[mac[ls] \o ls]
           next(i, o) == IF Len(o) < n THEN o \o mac[a[i] \o ls] ELSE o
           X == [i \in 0..n |-> {o \in Bytes : OutputOK(o, i, first, n)}]
           output == Output(mac, a, ls, n)
<1>1. \A i \in 1..n : mac[a[i] \o ls] \in Digest /\ (i = 1 => mac[a[i] \o ls] = first)
  <2>1. \A i \in 0..n : a[i] \in Bytes
    BY ChainTyped, Zenon
  <2>2. a[1] = mac[ls]
    BY ChainTyped, Zenon
  <2> HIDE DEF a
  <2>3. \A i \in 1..n : a[i] \o ls \in Bytes
    BY <2>1, ConcatBytes
  <2> QED BY <2>2, <2>3, Zenon
<1> HIDE DEF a
<1>2. ASSUME NEW i \in 1..n, NEW o \in Bytes, OutputOK(o, i - 1, first, n)
      PROVE  next(i, o) \in Bytes /\ OutputOK(next(i, o), i, first, n)
  <2> HIDE DEF first
  <2> QED BY <1>1, <1>2, OutputRound, Zenon
<1>3. <<>> \in Bytes /\ OutputOK(<<>>, 0, first, n)
  BY DEF OutputOK, Bytes
<1> HIDE DEF first, next
<1>4. \E f : f = [i \in 0..n |-> IF i = 0 THEN <<>> ELSE next(i, f[i - 1])]
  <2> DEFINE step == [i \in 1..n |-> [o \in Bytes |-> next(i, o)]]
  <2>1. PICK f : Iterates(f, n, <<>>, step)
    <3> HIDE DEF step
    <3> QED BY IterationExists, Zenon
  <2>2. f[0] = <<>> /\ \A i \in 1..n : f[i] = step[i][f[i - 1]]
    <3> HIDE DEF step
    <3> QED BY <2>1, IterationValues
  <2>3. \A i \in 1..n : f[i - 1] \in Bytes => f[i] = next(i, f[i - 1])
    BY <2>2, Zenon
  <2>4. f[0] \in X[0] /\ \A i \in 1..n : f[i - 1] \in X[i - 1] => f[i] \in X[i]
    BY <1>2, <1>3, <2>2, <2>3
  <2>5. \A i \in 0..n : f[i] \in X[i]
    <3> HIDE DEF X
    <3> QED BY <2>4, AllValues, Zenon
  <2>6. \A i \in 0..n : (IF i = 0 THEN <<>> ELSE step[i][f[i - 1]])
                         = IF i = 0 THEN <<>> ELSE next(i, f[i - 1])
    BY <2>5
  <2> HIDE DEF step
  <2> QED BY <2>1, <2>6, Zenon DEF Iterates
<1>5. output = [i \in 0..n |-> IF i = 0 THEN <<>> ELSE next(i, output[i - 1])]
  BY <1>4, Zenon DEF Output, IsOutput, next
<1> HIDE DEF output
<1>6. \A i \in 0..n : output[i] = IF i = 0 THEN <<>> ELSE next(i, output[i - 1])
  BY <1>5, Zenon
<1>7. /\ output[0] \in X[0]
      /\ \A i \in 1..n : output[i - 1] \in X[i - 1] => output[i] \in X[i]
  BY <1>2, <1>3, <1>6
<1>8. \A i \in 0..n : output[i] \in X[i]
  <2> HIDE DEF X
  <2> QED BY <1>7, AllValues, Zenon
<1> QED
  BY <1>8 DEF output, a, first

\* What the PRF returns has its length and begins with the first block.
LEMMA PrfTyped ==
  ASSUME NEW mac \in [Bytes -> Digest], NEW ls \in Bytes, NEW n \in Nat, n >= 2
  PROVE  /\ P_Sha256(mac, ls, n) \in Bytes
         /\ Len(P_Sha256(mac, ls, n)) = n
         /\ Truncate(P_Sha256(mac, ls, n), Hash) = mac[mac[ls] \o ls]
         /\ mac[mac[ls] \o ls] \in Digest
<1> DEFINE o == Output(mac, Chain(mac, ls, n), ls, n)[n]
           first == mac[mac[ls] \o ls]
<1>1. P_Sha256(mac, ls, n) = SubSeq(o, 1, n)
  BY Zenon DEF P_Sha256, Truncate, Output, Chain, IsOutput, IsChain
<1>2. o \in Bytes /\ Len(o) >= n /\ o[1] = first[1] /\ o[2] = first[2]
  <2>1. o \in Bytes /\ OutputOK(o, n, first, n)
    BY OutputTyped
  <2> HIDE DEF o, first
  <2> QED BY <2>1 DEF OutputOK, Bytes
<1>3. first \in Digest
  <2>1. mac[ls] \in Bytes
    BY DigestIsBytes, Zenon
  <2> QED BY <2>1, ConcatBytes, Zenon
<1> HIDE DEF o, first
<1>4. /\ SubSeq(o, 1, n) \in Bytes /\ Len(SubSeq(o, 1, n)) = n
      /\ \A i \in 1..n : SubSeq(o, 1, n)[i] = o[i]
  BY <1>2, TruncateBytes, Zenon
<1>5. SubSeq(SubSeq(o, 1, n), 1, 2) = <<first[1], first[2]>>
  <2>1. SubSeq(SubSeq(o, 1, n), 1, 2) = <<SubSeq(o, 1, n)[1], SubSeq(o, 1, n)[2]>>
    BY <1>4, TruncateBytes, Zenon
  <2> QED BY <1>2, <1>4, <2>1
<1>6. first = <<first[1], first[2]>>
  BY <1>3, DigestIsBytes, Zenon
<1> QED
  BY <1>1, <1>3, <1>4, <1>5, <1>6, Zenon DEF Truncate, Hash, first

\* HMAC with a secret, in its three forms.
Mac(secret) == [data \in Bytes |-> HmacSha256(secret, data)]

\* The code's PRF, as the loop over its HMAC.
LEMMA PrfOf ==
  ASSUME NEW secret, NEW label, NEW seed, NEW n
  PROVE  tls_prf_sha256(secret, label, seed, n) = P_Sha256(Mac(secret), label \o seed, n)
BY Zenon DEF tls_prf_sha256, P_Sha256, Mac

\* The PRF is one and the same for the TLS stack and both gadgets.
LEMMA PrfGadgetsAgree ==
  ASSUME NEW secret \in Bytes, NEW label \in Bytes, NEW seed \in Bytes, NEW n
  PROVE  /\ Mac(secret) \in [Bytes -> Digest]
         /\ tls_prf_sha256(secret, label, seed, n)
              = P_Sha256(Mac(secret), label \o seed, n)
         /\ \A ls : tls_prf_p_sha256_gadget(secret, ls, n)
                      = P_Sha256(Mac(secret), ls, n)
         /\ Len(secret) <= Block =>
              \A ls : tls_prf_p_sha256_constrained(secret, ls, n)
                        = P_Sha256(Mac(secret), ls, n)
<1>1. Mac(secret) \in [Bytes -> Digest]
  BY HmacGadgetsAgree, Zenon DEF Mac
<1>2. [data \in Bytes |-> hmac_sha256_gadget(secret, data)] = Mac(secret)
  BY HmacGadgetsAgree, Zenon DEF Mac
<1>3. Len(secret) <= Block =>
        [data \in Bytes |-> hmac_sha256_gadget_constrained(secret, data)] = Mac(secret)
  BY HmacGadgetsAgree, Zenon DEF Mac
<1>4. tls_prf_sha256(secret, label, seed, n)
        = P_Sha256(Mac(secret), label \o seed, n)
  BY PrfOf, Zenon
<1> QED
  BY <1>1, <1>2, <1>3, <1>4, Zenon
     DEF tls_prf_p_sha256_gadget, tls_prf_p_sha256_constrained

\* The first gadget, likewise.
LEMMA PrfOfGadget ==
  ASSUME NEW secret \in Bytes, NEW ls, NEW n
  PROVE  tls_prf_p_sha256_gadget(secret, ls, n) = P_Sha256(Mac(secret), ls, n)
BY PrfGadgetsAgree, Zenon

\* The constrained gadget, for a key of at most a block.
LEMMA PrfOfConstrained ==
  ASSUME NEW secret \in Bytes, Len(secret) <= Block, NEW ls, NEW n
  PROVE  tls_prf_p_sha256_constrained(secret, ls, n) = P_Sha256(Mac(secret), ls, n)
BY PrfGadgetsAgree, Zenon

\* The circuits derive the keys of the TLS stack: the same master secret, and
\* key blocks that begin with its MAC key and are cut in the same places.
LEMMA KeysAgree ==
  ASSUME NEW pms \in Bytes, Len(pms) <= Block, NEW cr \in Bytes, NEW sr \in Bytes
  PROVE  LET ms == tls12_master_secret_gadget(pms, cr, sr)
             block == tls12_key_expansion_constrained(ms, cr, sr)
             keys == tls12_key_expansion_gadget(ms, cr, sr)
         IN /\ ms = tls12_master_secret_constrained(pms, cr, sr)
            /\ keys.client_write_mac_key \o keys.server_write_mac_key
                 \o keys.client_write_key \o keys.server_write_key = block
            /\ keys.client_write_mac_key = derive_k_mac_from_pms(pms, cr, sr)
            /\ Truncate(block, Hash) = derive_k_mac_from_pms(pms, cr, sr)
            /\ derive_k_mac_from_pms(pms, cr, sr) \in Digest
<1> DEFINE ls1 == MasterSecret \o cr \o sr
           ls2 == KeyExpansion \o sr \o cr
           ms == P_Sha256(Mac(pms), ls1, 3)
           b6 == P_Sha256(Mac(ms), ls2, 6)
           b8 == P_Sha256(Mac(ms), ls2, 8)
           first == Mac(ms)[Mac(ms)[ls2] \o ls2]
<1>1. /\ MasterSecret \in Bytes /\ KeyExpansion \in Bytes
      /\ ls1 \in Bytes /\ ls2 \in Bytes /\ cr \o sr \in Bytes /\ sr \o cr \in Bytes
      /\ ls1 = MasterSecret \o (cr \o sr) /\ ls2 = KeyExpansion \o (sr \o cr)
  BY DEF MasterSecret, KeyExpansion, Bytes, Nibble
<1> HIDE DEF ls1, ls2
<1>2. Mac(pms) \in [Bytes -> Digest]
  BY PrfGadgetsAgree, <1>1, Zenon
<1>11. /\ 3 \in Nat /\ 3 >= 2 /\ 6 \in Nat /\ 6 >= 2 /\ 8 \in Nat /\ 8 >= 2
  OBVIOUS
<1>3. ms \in Bytes /\ Len(ms) = 3
  BY <1>1, <1>2, <1>11, PrfTyped, Zenon
<1>4. /\ tls12_master_secret_gadget(pms, cr, sr) = ms
      /\ tls12_master_secret_constrained(pms, cr, sr) = ms
      /\ tls_prf_sha256(pms, MasterSecret, cr \o sr, 3) = ms
  BY <1>1, PrfGadgetsAgree
     DEF tls12_master_secret_gadget, tls12_master_secret_constrained, ls1
<1> HIDE DEF ms
<1>5. Mac(ms) \in [Bytes -> Digest] /\ Len(ms) <= Block
  <2>1. Mac(ms) \in [Bytes -> Digest]
    BY PrfGadgetsAgree, <1>1, <1>3, Zenon
  <2> QED BY <1>3, <2>1 DEF Block
<1>6. /\ b6 \in Bytes /\ Len(b6) = 6 /\ Truncate(b6, Hash) = first
      /\ b8 \in Bytes /\ Len(b8) = 8 /\ Truncate(b8, Hash) = first
      /\ first \in Digest
  BY <1>1, <1>5, <1>11, PrfTyped, Zenon
<1>7. /\ tls12_key_expansion_constrained(ms, cr, sr) = b6
      /\ tls_prf_p_sha256_gadget(ms, KeyExpansion \o sr \o cr, 6) = b6
      /\ tls12_key_expansion(ms, cr, sr) = b8
  <2>1. /\ tls_prf_sha256(ms, KeyExpansion, sr \o cr, 8)
             = P_Sha256(Mac(ms), KeyExpansion \o (sr \o cr), 8)
        /\ tls_prf_p_sha256_gadget(ms, ls2, 6) = b6
        /\ tls_prf_p_sha256_constrained(ms, ls2, 6) = b6
    <3>1. tls_prf_sha256(ms, KeyExpansion, sr \o cr, 8)
            = P_Sha256(Mac(ms), KeyExpansion \o (sr \o cr), 8)
      BY <1>1, <1>3, PrfOf, Zenon
    <3>2. tls_prf_p_sha256_gadget(ms, ls2, 6) = b6
      BY <1>1, <1>3, PrfOfGadget, Zenon
    <3>3. tls_prf_p_sha256_constrained(ms, ls2, 6) = b6
      BY <1>1, <1>3, <1>5, PrfOfConstrained, Zenon
    <3> QED BY <3>1, <3>2, <3>3, Zenon
  <2> QED BY <1>1, <2>1, Zenon
          DEF tls12_key_expansion_constrained, tls12_key_expansion, ls2
<1>8. derive_k_mac_from_pms(pms, cr, sr) = first
  BY <1>4, <1>6, <1>7, Zenon DEF derive_k_mac_from_pms
<1> HIDE DEF b6, b8, first
<1>9. /\ SubSeq(b6, 1, 2) \o SubSeq(b6, 3, 4) \o <<b6[5]>> \o <<b6[6]>> = b6
  BY <1>6 DEF Bytes
<1>10. /\ tls12_key_expansion_gadget(ms, cr, sr).client_write_mac_key = SubSeq(b6, 1, 2)
       /\ tls12_key_expansion_gadget(ms, cr, sr).server_write_mac_key = SubSeq(b6, 3, 4)
       /\ tls12_key_expansion_gadget(ms, cr, sr).client_write_key = <<b6[5]>>
       /\ tls12_key_expansion_gadget(ms, cr, sr).server_write_key = <<b6[6]>>
  BY <1>7, Zenon DEF tls12_key_expansion_gadget
<1> QED
  BY <1>4, <1>6, <1>7, <1>8, <1>9, <1>10, Zenon DEF Truncate, Hash

---------------------------------------------------------------------------
(* Field elements.                                                         *)

IsPacked(result, vars) ==
  result = [i \in 0..FpBits |->
              IF i = 0 THEN 0
              ELSE (result[i - 1] + Bits[vars[((i - 1) \div 4) + 1]][((i - 1) % 4) + 1]
                                    * <<1, 2, 4, 8, 16, 32>>[i]) % Fp]

\* The sum of weighted bits of the circuit is the reduced number of the code.
LEMMA PackAgrees ==
  ASSUME NEW d \in Digest
  PROVE  pack_bytes_to_fpvar(d) = bytes32_to_fr(d) /\ bytes32_to_fr(d) \in Element
<1> DEFINE coeff == <<1, 2, 4, 8, 16, 32>>
           bit(i) == Bits[d[((i - 1) \div 4) + 1]][((i - 1) % 4) + 1]
           step == [i \in 1..6 |-> [r \in Element |-> (r + bit(i) * coeff[i]) % Fp]]
           result == CHOOSE f : IsPacked(f, d)
<1>1. d[1] \in Nibble /\ d[2] \in Nibble
  BY DigestIsBytes, Zenon
<1>2. /\ bit(1) = Bit(d[1], 1) /\ bit(2) = Bit(d[1], 2) /\ bit(3) = Bit(d[1], 3)
      /\ bit(4) = Bit(d[1], 4) /\ bit(5) = Bit(d[2], 1) /\ bit(6) = Bit(d[2], 2)
  BY DEF Bit
<1>3. \A i \in 1..6 : bit(i) \in 0..1
  BY <1>1, <1>2, BitsOf
<1> HIDE DEF bit
<1>4. \A i \in 1..6 : \A r \in Element : (r + bit(i) * coeff[i]) % Fp \in Element
  <2>1. \A i \in 1..6 : bit(i) * coeff[i] \in Int
    BY <1>3
  <2>2. \A r \in Element, x \in Int : (r + x) % Fp \in Element
    BY DEF Element, Fp
  <2> QED BY <2>1, <2>2, Zenon
<1>5. IsPacked(result, d)
  <2>1. PICK f : Iterates(f, 6, 0, step)
    <3> HIDE DEF step
    <3> QED BY IterationExists, Zenon
  <2>2. f[0] = 0 /\ \A i \in 1..6 : f[i] = step[i][f[i - 1]]
    <3> HIDE DEF step
    <3> QED BY <2>1, IterationValues
  <2>3. \A i \in 0..6 : f[i] \in Element
    <3>1. f[0] \in Element
      BY <2>2 DEF Element, Fp
    <3>2. \A i \in 1..6 : f[i - 1] \in Element => f[i] \in Element
      BY <1>4, <2>2, Zenon
    <3> QED BY <3>1, <3>2, AllIn, Zenon
  <2>4. \A i \in 0..6 : (IF i = 0 THEN 0 ELSE step[i][f[i - 1]])
                         = IF i = 0 THEN 0 ELSE (f[i - 1] + bit(i) * coeff[i]) % Fp
    BY <2>3
  <2>5. f = [i \in 0..6 |-> IF i = 0 THEN 0 ELSE (f[i - 1] + bit(i) * coeff[i]) % Fp]
    <3> HIDE DEF step, coeff
    <3> QED BY <2>1, <2>4, Zenon DEF Iterates
  <2>6. IsPacked(f, d)
    BY <2>5, Zenon DEF IsPacked, FpBits, bit
  <2> QED BY <2>6, Zenon
<1>6. pack_bytes_to_fpvar(d) = result[6]
  BY Zenon DEF pack_bytes_to_fpvar, IsPacked, FpBits
<1> HIDE DEF result
<1>7. result[0] = 0 /\ \A i \in 1..6 : result[i] = (result[i - 1] + bit(i) * coeff[i]) % Fp
  BY <1>5 DEF IsPacked, FpBits, bit
<1>8. /\ result[1] = bit(1) /\ result[2] = bit(1) + 2 * bit(2)
      /\ result[3] = bit(1) + 2 * bit(2) + 4 * bit(3)
  BY <1>3, <1>7 DEF Fp
<1>9. /\ result[4] = bit(1) + 2 * bit(2) + 4 * bit(3) + 8 * bit(4)
      /\ result[5] = bit(1) + 2 * bit(2) + 4 * bit(3) + 8 * bit(4) + 16 * bit(5)
  BY <1>3, <1>7, <1>8 DEF Fp
<1>10. result[6] = (bit(1) + 2 * bit(2) + 4 * bit(3) + 8 * bit(4) + 16 * bit(5)
                    + 32 * bit(6)) % Fp
  BY <1>3, <1>7, <1>9
<1>11. (d[1] + 16 * d[2]) % 64 = bit(1) + 2 * bit(2) + 4 * bit(3) + 8 * bit(4)
                                 + 16 * bit(5) + 32 * bit(6)
  BY <1>1, <1>2, <1>3, BitsOf
<1>12. bytes32_to_fr(d) = result[6]
  BY <1>10, <1>11, Zenon DEF bytes32_to_fr
<1>13. bytes32_to_fr(d) \in Element
  BY <1>3, <1>10, <1>12 DEF Element, Fp
<1> QED
  BY <1>6, <1>12, <1>13, Zenon

\* Adding the randomness hides no difference.
LEMMA SumsDiffer ==
  ASSUME NEW a \in Element, NEW b \in Element, NEW r \in Element
  PROVE  /\ (a + r) % Fp \in Element
         /\ (a + r) % Fp = (b + r) % Fp <=> a = b
BY DEF Element, Fp

\* Both ways to the seventh power.
LEMMA SeventhsAgree ==
  SeventhVar = Seventh /\ Seventh \in [Element -> Element]
<1>1. SeventhVar = Seventh
  BY DEF Seventh, SeventhVar, Times, Element, Fp
<1>2. \A x \in Nat, y \in Nat : Times(x, y) \in Element /\ Times(x, y) \in Nat
  BY DEF Times, Element, Fp
<1>3. \A t \in Element : t \in Nat
  BY DEF Element, Fp
<1>4. Seventh \in [Element -> Element]
  BY <1>2, <1>3, Zenon DEF Seventh
<1> QED
  BY <1>1, <1>4, Zenon

\* The sponge of the circuit is the sponge of the code.
LEMMA SpongesAgree ==
  ASSUME NEW inputs
  PROVE  mimc7_sponge_gadget(inputs) = mimc7_sponge(inputs)
<1>1. Encryptions = EncryptionVars
  BY SeventhsAgree, Zenon DEF Encryptions, EncryptionVars, mimc7_enc, mimc7_enc_gadget
<1> QED
  BY <1>1, Zenon DEF mimc7_sponge_gadget, mimc7_sponge

Absorb(state, input) ==
  LET sum == (state + input) % Fp IN (Encryptions[sum] + sum) % Fp

IsSponge(state, inputs) ==
  state = [i \in 0..Len(inputs) |->
             IF i = 0 THEN 0 ELSE Absorb(state[i - 1], inputs[i])]

\* The digest of the sponge is a field element.
LEMMA SpongeTyped ==
  ASSUME NEW inputs \in Seq(Element)
  PROVE  mimc7_sponge(inputs) \in Element
<1> DEFINE n == Len(inputs)
           step == [i \in 1..n |-> [s \in Element |-> Absorb(s, inputs[i])]]
           state == CHOOSE f : IsSponge(f, inputs)
<1>1. n \in Nat /\ \A i \in 1..n : inputs[i] \in Element
  OBVIOUS
<1> HIDE DEF n
<1>2. \A x, y \in Element : (x + y) % Fp \in Element
  BY DEF Element, Fp
<1>3. \A x \in Element : Encryptions[x] \in Element
  <2>1. /\ \A i \in 1..3 : MimcConstants[i] \in Element
        /\ 0 \in Element
    BY DEF MimcConstants, Element, Fp
  <2>2. \A x, c \in Element : Seventh[(x + 0 + c) % Fp] \in Element
    <3>1. \A x, c \in Element : (x + 0 + c) % Fp \in Element
      BY DEF Element, Fp
    <3> QED BY <3>1, SeventhsAgree, Zenon
  <2> QED BY <1>2, <2>1, <2>2 DEF Encryptions, mimc7_enc, Mimc
<1>4. \A s, x \in Element : Absorb(s, x) \in Element
  BY <1>2, <1>3, Zenon DEF Absorb
<1>5. IsSponge(state, inputs)
  <2>1. PICK f : Iterates(f, n, 0, step)
    <3> HIDE DEF step
    <3> QED BY <1>1, IterationExists, Zenon
  <2>2. f[0] = 0 /\ \A i \in 1..n : f[i] = step[i][f[i - 1]]
    <3> HIDE DEF step
    <3> QED BY <1>1, <2>1, IterationValues
  <2>3. \A i \in 0..n : f[i] \in Element
    <3>1. f[0] \in Element
      BY <2>2 DEF Element, Fp
    <3>2. \A i \in 1..n : f[i - 1] \in Element => f[i] \in Element
      BY <1>1, <1>4, <2>2, Zenon
    <3> QED BY <1>1, <3>1, <3>2, AllIn, Zenon
  <2>4. \A i \in 0..n : (IF i = 0 THEN 0 ELSE step[i][f[i - 1]])
                         = IF i = 0 THEN 0 ELSE Absorb(f[i - 1], inputs[i])
    BY <1>1, <2>3
  <2>5. IsSponge(f, inputs)
    <3> HIDE DEF step
    <3> QED BY <2>1, <2>4, Zenon DEF Iterates, IsSponge, n
  <2> QED BY <2>5, Zenon
<1>6. mimc7_sponge(inputs) = state[n]
  BY Zenon DEF mimc7_sponge, IsSponge, Absorb, n
<1> HIDE DEF state
<1>7. \A i \in 0..n : state[i] = IF i = 0 THEN 0 ELSE Absorb(state[i - 1], inputs[i])
  BY <1>5, Zenon DEF IsSponge, n
<1>8. state[0] \in Element /\ \A i \in 1..n : state[i - 1] \in Element => state[i] \in Element
  <2>1. state[0] = 0 /\ \A i \in 1..n : state[i] = Absorb(state[i - 1], inputs[i])
    <3>1. 0 \in 0..n /\ \A i \in 1..n : i \in 0..n /\ i # 0
      BY <1>1
    <3> QED BY <1>7, <3>1, Zenon
  <2>2. 0 \in Element
    BY DEF Element, Fp
  <2> QED BY <1>1, <1>4, <2>1, <2>2, Zenon
<1>9. \A i \in 0..n : state[i] \in Element
  BY <1>1, <1>8, AllIn
<1> QED
  BY <1>1, <1>6, <1>9

---------------------------------------------------------------------------
(* Shares of a key.                                                        *)

\* The shares of a key give the key back.
LEMMA SharesCombine ==
  ASSUME NEW k \in Digest, NEW p \in Digest
  PROVE  /\ split_mac_key(k, p).v \in Digest
         /\ combine_mac_key_shares(p, split_mac_key(k, p).v) = k
<1>1. \A i \in 1..Hash : k[i] \in Nibble /\ p[i] \in Nibble
  BY Zenon DEF Digest
<1>2. \A i \in 1..Hash : /\ Xor(k[i], p[i]) \in Nibble
                          /\ Xor(p[i], Xor(k[i], p[i])) = k[i]
  BY <1>1, XorBits, XorCancels, Zenon
<1>3. split_mac_key(k, p).v = [i \in 1..Hash |-> Xor(k[i], p[i])]
  BY Zenon DEF split_mac_key, Xor
<1>4. combine_mac_key_shares(p, split_mac_key(k, p).v)
        = [i \in 1..Hash |-> Xor(p[i], Xor(k[i], p[i]))]
  BY <1>3, Zenon DEF combine_mac_key_shares, Xor
<1> QED
  BY <1>2, <1>3, <1>4 DEF Digest

\* Two shares give a key, and the zero share changes nothing.
LEMMA CombineTyped ==
  ASSUME NEW p \in Digest, NEW v \in Digest
  PROVE  /\ combine_mac_key_shares(p, v) \in Digest
         /\ Zeros(Hash) \in Digest
         /\ combine_mac_key_shares(p, Zeros(Hash)) = p
<1>1. \A i \in 1..Hash : p[i] \in Nibble /\ v[i] \in Nibble
  BY DEF Digest
<1>2. \A i \in 1..Hash : Xor(p[i], v[i]) \in Nibble /\ Xor(p[i], 0) = p[i]
  BY <1>1, XorBits, XorZero, Zenon
<1>3. combine_mac_key_shares(p, v) = [i \in 1..Hash |-> Xor(p[i], v[i])]
  BY Zenon DEF combine_mac_key_shares, Xor
<1>4. combine_mac_key_shares(p, Zeros(Hash)) = [i \in 1..Hash |-> Xor(p[i], 0)]
  BY Zenon DEF combine_mac_key_shares, Xor, Zeros
<1>5. Zeros(Hash) \in Digest
  BY DEF Zeros, Digest, Nibble
<1> QED
  BY <1>2, <1>3, <1>4, <1>5, Zenon DEF Digest

\* One mask on both shares gives the key of the shares.
LEMMA MasksCancel ==
  ASSUME NEW p \in Digest, NEW v \in Digest, NEW m \in Digest
  PROVE  combine_mac_key_shares(combine_mac_key_shares(p, m),
                                combine_mac_key_shares(v, m))
           = combine_mac_key_shares(p, v)
<1>1. \A i \in 1..Hash : p[i] \in Nibble /\ v[i] \in Nibble /\ m[i] \in Nibble
  BY Zenon DEF Digest
<1>2. \A i \in 1..Hash : Xor(Xor(p[i], m[i]), Xor(v[i], m[i])) = Xor(p[i], v[i])
  BY <1>1, XorMasked, Zenon
<1>3. combine_mac_key_shares(p, v) = [i \in 1..Hash |-> Xor(p[i], v[i])]
  BY Zenon DEF combine_mac_key_shares, Xor
<1>4. combine_mac_key_shares(combine_mac_key_shares(p, m),
                             combine_mac_key_shares(v, m))
        = [i \in 1..Hash |-> Xor(Xor(p[i], m[i]), Xor(v[i], m[i]))]
  BY Zenon DEF combine_mac_key_shares, Xor
<1> QED
  BY <1>2, <1>3, <1>4, Zenon

\* The mask two parties derive from their keys is a digest.
LEMMA MaskTyped ==
  ASSUME NEW a \in Nat, NEW b \in Nat
  PROVE  /\ derive_mask(DiffieHellman(a, b)) \in Digest
         /\ DiffieHellman(a, b) = DiffieHellman(b, a)
<1>1. (a * b) % 16 \in Nibble /\ (a + b) % 16 \in Nibble /\ a * b = b * a /\ a + b = b + a
  BY DEF Nibble
<1>2. <<3>> \o DiffieHellman(a, b) \in Bytes
  BY <1>1 DEF DiffieHellman, Bytes, Nibble
<1> QED
  BY <1>1, <1>2, ShaGadgetsAgree, Zenon DEF derive_mask, DiffieHellman

\* The hash of a PMS, and what the circuit computes for it.
LEMMA PmsHash ==
  ASSUME NEW pms \in Bytes
  PROVE  /\ pms_hash(pms) \in Element /\ pms_hash(pms) \in Nat
         /\ pack_bytes_to_fpvar(sha256_from_byte_vars(pms)) = pms_hash(pms)
<1>1. Sha256(pms) \in Digest /\ sha256_from_byte_vars(pms) = Sha256(pms)
  BY ShaGadgetsAgree, Zenon
<1>2. bytes32_to_fr(Sha256(pms)) \in Element
      /\ pack_bytes_to_fpvar(Sha256(pms)) = bytes32_to_fr(Sha256(pms))
  BY <1>1, PackAgrees, Zenon
<1> QED
  BY <1>1, <1>2 DEF pms_hash, Element, Fp

\* What a connection is.
LEMMA ConnTyped ==
  ASSUME NEW c \in ZkConns
  PROVE  /\ c.pms \in Bytes /\ c.cr \in Bytes /\ c.sr \in Bytes /\ Len(c.pms) <= Block
         /\ ZkKeys[c] = derive_k_mac_from_pms(c.pms, c.cr, c.sr)
         /\ ZkKeys[c] \in Digest
         /\ c # ZkNone /\ pms_hash(c.pms) # ZkNone
<1>1. /\ c.pms \in Bytes /\ c.cr \in Bytes /\ c.sr \in Bytes /\ Len(c.pms) <= Block
      /\ c # ZkNone
  BY ZkAssumption, Zenon
<1>2. ZkKeys[c] = derive_k_mac_from_pms(c.pms, c.cr, c.sr)
  BY Zenon DEF ZkKeys
<1>3. derive_k_mac_from_pms(c.pms, c.cr, c.sr) \in Digest
  BY <1>1, KeysAgree, Zenon
<1>4. pms_hash(c.pms) # ZkNone
  BY <1>1, PmsHash, ZkAssumption, Zenon
<1> QED
  BY <1>1, <1>2, <1>3, <1>4, Zenon

\* Both forms of the PRF gadgets give what the TLS stack derives, for every
\* connection.
THEOREM PrfGadgetsDeriveTheKeys == GadgetsAgree
<1> SUFFICES ASSUME NEW c \in ZkConns
    PROVE  LET ms == tls12_master_secret_gadget(c.pms, c.cr, c.sr)
               block == tls12_key_expansion_constrained(ms, c.cr, c.sr)
               keys == tls12_key_expansion_gadget(ms, c.cr, c.sr)
           IN /\ ms = tls12_master_secret_constrained(c.pms, c.cr, c.sr)
              /\ keys.client_write_mac_key \o keys.server_write_mac_key
                   \o keys.client_write_key \o keys.server_write_key = block
              /\ keys.client_write_mac_key = ZkKeys[c]
  BY Zenon DEF GadgetsAgree
<1>1. /\ c.pms \in Bytes /\ c.cr \in Bytes /\ c.sr \in Bytes /\ Len(c.pms) <= Block
      /\ ZkKeys[c] = derive_k_mac_from_pms(c.pms, c.cr, c.sr)
  BY ConnTyped, Zenon
<1> QED
  BY <1>1, KeysAgree, Zenon

---------------------------------------------------------------------------
(* The proofs.                                                             *)

\* Commitments with the same randomness are equal for the same key only, and
\* the circuit computes them as the code does.
LEMMA Commitments ==
  ASSUME NEW k \in Digest, NEW r \in Element
  PROVE  /\ commit_k_mac(k, r) \in Element
         /\ (pack_bytes_to_fpvar(k) + r) % Fp = commit_k_mac(k, r)
         /\ \A j \in Digest : commit_k_mac(j, r) = commit_k_mac(k, r) <=> SameKey(j, k)
<1>1. pack_bytes_to_fpvar(k) = bytes32_to_fr(k) /\ bytes32_to_fr(k) \in Element
  BY PackAgrees, Zenon
<1>2. \A j \in Digest : bytes32_to_fr(j) \in Element
  BY PackAgrees, Zenon
<1> QED
  BY <1>1, <1>2, SumsDiffer DEF commit_k_mac, SameKey

\* The randomness as a field element.
LEMMA RandTyped ==
  ASSUME NEW rand \in ZkRands PROVE rand \in Digest /\ bytes32_to_fr(rand) \in Element
BY PackAgrees, ZkAssumption, Zenon

\* The parts of a Mode 1 proof.
LEMMA Mode1Parts ==
  ASSUME NEW crs, NEW p \in Digest, NEW v \in Digest, NEW rand \in ZkRands
  PROVE  LET proof == co_snark_execute(crs, p, v, rand)
             key == combine_mac_key_shares(p, v)
             r == bytes32_to_fr(rand)
         IN /\ proof.k_mac = key /\ proof.rand = r /\ proof.pms_hash = ZkNone
            /\ proof.commitment = commit_k_mac(key, r)
            /\ proof.groth16.crs = crs.id
            /\ proof.groth16.publics = <<commit_k_mac(key, r), r>>
            /\ proof.groth16.ok <=> crs.shape = <<"mode1">>
<1> DEFINE key == combine_mac_key_shares(p, v)
           r == bytes32_to_fr(rand)
           c == TlsPrfCircuit_new(p, v, rand)
           circuit == TlsPrf_generate_constraints(c)
<1>1. key \in Digest /\ r \in Element
  BY CombineTyped, RandTyped, Zenon
<1>2. /\ c.commitment = commit_k_mac(key, r) /\ c.rand = r /\ c.pms_hash = ZkNone
      /\ c.p = p /\ c.v = v /\ c.conn = ZkNone
  BY Zenon DEF TlsPrfCircuit_new
<1>3. TlsPrf_share_constraints(c)
  <2> HIDE DEF c, r
  <2> QED BY <1>1, <1>2, Commitments, Zenon DEF TlsPrf_share_constraints
<1> HIDE DEF c
<1>4. /\ circuit.shape = <<"mode1">> /\ circuit.publics = <<c.commitment, c.rand>>
      /\ circuit.satisfied <=> TlsPrf_share_constraints(c)
  BY <1>2, Zenon DEF TlsPrf_generate_constraints
<1> HIDE DEF circuit, key, r
<1>5. co_snark_execute(crs, p, v, rand) = HspProof(Groth16Prove(crs, circuit), c, key)
  BY Zenon DEF co_snark_execute, circuit, c, key
<1>6. /\ Groth16Prove(crs, circuit).ok <=> crs.shape = <<"mode1">>
      /\ Groth16Prove(crs, circuit).crs = crs.id
      /\ Groth16Prove(crs, circuit).publics = <<commit_k_mac(key, r), r>>
  BY <1>2, <1>3, <1>4, Zenon DEF Groth16Prove
<1> QED
  BY <1>2, <1>5, <1>6 DEF HspProof, key, r

\* A Mode 1 proof is accepted under a CRS with its id and two inputs.
LEMMA Mode1Accepted ==
  ASSUME NEW crs, NEW p \in Digest, NEW v \in Digest, NEW rand \in ZkRands,
         NEW d, NEW e
  PROVE  co_snark_verify(d, co_snark_execute(crs, p, v, rand), e) <=>
           d.inputs = 2 /\ d.id = crs.id /\ crs.shape = <<"mode1">> /\ e = ZkNone
<1> DEFINE proof == co_snark_execute(crs, p, v, rand)
           publics == <<proof.commitment, proof.rand>>
                      \o (IF proof.pms_hash = ZkNone THEN <<>> ELSE <<proof.pms_hash>>)
<1>1. /\ proof.groth16.crs = crs.id /\ proof.pms_hash = ZkNone
      /\ proof.groth16.publics = <<proof.commitment, proof.rand>>
      /\ proof.groth16.ok <=> crs.shape = <<"mode1">>
      /\ commit_k_mac(proof.k_mac, proof.rand) = proof.commitment
  BY Mode1Parts
<1> HIDE DEF proof
<1>2. publics = <<proof.commitment, proof.rand>> /\ Len(publics) = 2
  BY <1>1
<1>3. co_snark_verify(d, proof, e) <=>
        /\ Groth16Verify(d, publics, proof.groth16)
        /\ commit_k_mac(proof.k_mac, proof.rand) = proof.commitment
        /\ e = proof.pms_hash
  BY Zenon DEF co_snark_verify
<1> HIDE DEF publics
<1>4. Groth16Verify(d, publics, proof.groth16) <=>
        2 = d.inputs /\ crs.id = d.id /\ crs.shape = <<"mode1">>
  BY <1>1, <1>2, Zenon DEF Groth16Verify
<1> QED
  BY <1>1, <1>3, <1>4, Zenon DEF proof

\* The parts of a Mode 2 proof.
LEMMA Mode2Parts ==
  ASSUME NEW crs, NEW p \in Digest, NEW v \in Digest, NEW rand \in ZkRands,
         NEW conn \in ZkConns
  PROVE  LET proof == co_snark_execute_mode2(crs, p, v, rand, conn)
             key == combine_mac_key_shares(p, v)
             r == bytes32_to_fr(rand)
         IN /\ proof.k_mac = key /\ proof.rand = r
            /\ proof.pms_hash = pms_hash(conn.pms)
            /\ proof.commitment = commit_k_mac(key, r)
            /\ proof.groth16.crs = crs.id
            /\ proof.groth16.publics = <<commit_k_mac(key, r), r, pms_hash(conn.pms)>>
            /\ proof.groth16.ok <=> /\ crs.shape = <<"mode2", Len(conn.pms)>>
                                    /\ SameKey(key, ZkKeys[conn])
<1> DEFINE key == combine_mac_key_shares(p, v)
           r == bytes32_to_fr(rand)
           h == pms_hash(conn.pms)
           c == with_tls_prf(p, v, rand, conn)
           circuit == TlsPrf_generate_constraints(c)
           ms == tls12_master_secret_constrained(conn.pms, conn.cr, conn.sr)
           block == tls12_key_expansion_constrained(ms, conn.cr, conn.sr)
<1>1. key \in Digest /\ r \in Element
  BY CombineTyped, RandTyped, Zenon
<1>2. /\ c.commitment = commit_k_mac(key, r) /\ c.rand = r /\ c.pms_hash = h
      /\ c.p = p /\ c.v = v /\ c.conn = conn
  BY Zenon DEF TlsPrfCircuit_new, with_tls_prf
<1> HIDE DEF c, r, h, key
<1>3. TlsPrf_share_constraints(c)
  BY <1>1, <1>2, Commitments DEF TlsPrf_share_constraints, key
<1>4. Truncate(block, Hash) = ZkKeys[conn]
  <2>0. /\ conn.pms \in Bytes /\ conn.cr \in Bytes /\ conn.sr \in Bytes
        /\ Len(conn.pms) <= Block
    BY ConnTyped, Zenon
  <2>1. tls12_master_secret_gadget(conn.pms, conn.cr, conn.sr) = ms
    BY <2>0, KeysAgree, Zenon
  <2>2. Truncate(tls12_key_expansion_constrained(
                   tls12_master_secret_gadget(conn.pms, conn.cr, conn.sr),
                   conn.cr, conn.sr), Hash)
          = derive_k_mac_from_pms(conn.pms, conn.cr, conn.sr)
    BY <2>0, KeysAgree, Zenon
  <2> QED BY <2>1, <2>2, ConnTyped, Zenon
<1>5. TlsPrf_pms_constraints(c) <=>
        /\ pack_bytes_to_fpvar(sha256_from_byte_vars(conn.pms)) = h
        /\ (pack_bytes_to_fpvar(Truncate(block, Hash)) + r) % Fp = c.commitment
  BY <1>2, Zenon DEF TlsPrf_pms_constraints
<1>6. TlsPrf_pms_constraints(c) <=> SameKey(key, ZkKeys[conn])
  <2>1. pack_bytes_to_fpvar(sha256_from_byte_vars(conn.pms)) = h
    BY ConnTyped, PmsHash DEF h
  <2>2. ZkKeys[conn] \in Digest
    BY ConnTyped, Zenon
  <2>3. (pack_bytes_to_fpvar(ZkKeys[conn]) + r) % Fp = commit_k_mac(ZkKeys[conn], r)
    BY <1>1, <2>2, Commitments, Zenon
  <2>4. commit_k_mac(key, r) = commit_k_mac(ZkKeys[conn], r) <=> SameKey(key, ZkKeys[conn])
    BY <1>1, <2>2, Commitments
  <2> HIDE DEF block
  <2> QED BY <1>2, <1>4, <1>5, <2>1, <2>3, <2>4, Zenon
<1>7. conn # ZkNone
  BY ConnTyped, Zenon
<1>8. /\ circuit.shape = <<"mode2", Len(conn.pms)>>
      /\ circuit.publics = <<c.commitment, c.rand, c.pms_hash>>
      /\ circuit.satisfied <=> TlsPrf_share_constraints(c) /\ TlsPrf_pms_constraints(c)
  BY <1>2, <1>7, Zenon DEF TlsPrf_generate_constraints
<1> HIDE DEF circuit
<1>9. co_snark_execute_mode2(crs, p, v, rand, conn)
        = HspProof(Groth16Prove(crs, circuit), c, key)
  BY Zenon DEF co_snark_execute_mode2, circuit, c, key
<1>10. /\ Groth16Prove(crs, circuit).ok <=> /\ crs.shape = <<"mode2", Len(conn.pms)>>
                                            /\ SameKey(key, ZkKeys[conn])
       /\ Groth16Prove(crs, circuit).crs = crs.id
       /\ Groth16Prove(crs, circuit).publics = <<commit_k_mac(key, r), r, h>>
  BY <1>2, <1>3, <1>6, <1>8 DEF Groth16Prove
<1> QED
  BY <1>2, <1>9, <1>10 DEF HspProof, key, r, h

\* A tuple of two and one more.
LEMMA TwoAndOne ==
  ASSUME NEW a, NEW b, NEW c PROVE <<a, b>> \o <<c>> = <<a, b, c>>
<1> DEFINE S == {a, b, c}
           t == <<a, b>> \o <<c>>
<1>1. <<a, b>> \in Seq(S) /\ <<c>> \in Seq(S)
  OBVIOUS
<1>2. t \in Seq(S) /\ Len(t) = 3 /\ t[1] = a /\ t[2] = b /\ t[3] = c
  BY <1>1
<1> HIDE DEF S, t
<1>3. t = <<t[1], t[2], t[3]>>
  BY <1>2
<1> QED
  BY <1>2, <1>3, Zenon DEF t

\* When CRS d verifies the Mode 2 proof made with crs for connection conn.
Mode2Verdict(d, crs, p, v, conn, e) ==
  /\ d.inputs = 3 /\ d.id = crs.id /\ crs.shape = <<"mode2", Len(conn.pms)>>
  /\ e = pms_hash(conn.pms)
  /\ SameKey(combine_mac_key_shares(p, v), ZkKeys[conn])

\* A Mode 2 proof is accepted under a CRS with its id and three inputs, and
\* only when the shares are those of the key derived from the PMS.
LEMMA Mode2Accepted ==
  ASSUME NEW crs, NEW p \in Digest, NEW v \in Digest, NEW rand \in ZkRands,
         NEW conn \in ZkConns, NEW d, NEW e
  PROVE  co_snark_verify(d, co_snark_execute_mode2(crs, p, v, rand, conn), e)
           <=> Mode2Verdict(d, crs, p, v, conn, e)
<1> DEFINE proof == co_snark_execute_mode2(crs, p, v, rand, conn)
           h == pms_hash(conn.pms)
           ok == /\ crs.shape = <<"mode2", Len(conn.pms)>>
                 /\ SameKey(combine_mac_key_shares(p, v), ZkKeys[conn])
           publics == <<proof.commitment, proof.rand>>
                      \o (IF proof.pms_hash = ZkNone THEN <<>> ELSE <<proof.pms_hash>>)
<1>1. /\ proof.groth16.crs = crs.id /\ proof.pms_hash = h
      /\ proof.groth16.publics = <<proof.commitment, proof.rand, h>>
      /\ proof.groth16.ok <=> ok
      /\ commit_k_mac(proof.k_mac, proof.rand) = proof.commitment
  BY Mode2Parts
<1>2. h # ZkNone
  BY ConnTyped, Zenon
<1> HIDE DEF proof, h, ok
<1>3. publics = <<proof.commitment, proof.rand, h>> /\ Len(publics) = 3
  <2>1. publics = <<proof.commitment, proof.rand>> \o <<h>>
    BY <1>1, <1>2, Zenon
  <2> HIDE DEF publics
  <2> QED BY <2>1, TwoAndOne
<1>4. co_snark_verify(d, proof, e) <=>
        /\ Groth16Verify(d, publics, proof.groth16)
        /\ commit_k_mac(proof.k_mac, proof.rand) = proof.commitment
        /\ e = proof.pms_hash
  BY Zenon DEF co_snark_verify
<1> HIDE DEF publics
<1>5. Groth16Verify(d, publics, proof.groth16) <=> 3 = d.inputs /\ crs.id = d.id /\ ok
  BY <1>1, <1>3, Zenon DEF Groth16Verify
<1>6. co_snark_verify(d, proof, e) <=>
        3 = d.inputs /\ crs.id = d.id /\ ok /\ e = h
  BY <1>1, <1>4, <1>5, Zenon
<1> QED
  BY <1>6, Zenon DEF Mode2Verdict, proof, h, ok

---------------------------------------------------------------------------
(* The state.  The properties are about the last proofs; the invariant     *)
(* says how each was made, under which CRS, and that a CRS is known by its *)
(* id, which is all that a proof carries of it.                            *)

\* The three kinds of CRS.
OfAKind(crs) ==
  \/ crs.shape = <<"mode1">> /\ crs.inputs = 2
  \/ crs.shape = <<"mode2", 3>> /\ crs.inputs = 3
  \/ crs.shape = <<"binding">> /\ crs.inputs = 4

\* A CRS is of one of the kinds, and its id was not used before it.
CrssOK ==
  /\ IsFiniteSet(zkCrss)
  /\ \A c \in zkCrss : c.id \in Nat /\ c.id < Cardinality(zkCrss) /\ OfAKind(c)
  /\ \A c, d \in zkCrss : c.id = d.id => c = d

\* An HSP proof is one of Mode 1 or of Mode 2, from two shares of its key.
HspOK ==
  zkHsp # ZkNone =>
    /\ zkHsp.crs \in zkCrss /\ zkHsp.rand \in ZkRands
    /\ \E p, v \in Digest :
         /\ zkHsp.key = combine_mac_key_shares(p, v)
         /\ \/ /\ zkHsp.conn = ZkNone
               /\ zkHsp.proof = co_snark_execute(zkHsp.crs, p, v, zkHsp.rand)
            \/ /\ zkHsp.conn \in ZkConns
               /\ zkHsp.proof = co_snark_execute_mode2(zkHsp.crs, p, v, zkHsp.rand,
                                                       zkHsp.conn)

\* The binding is of records q and r, with the MACs of m_q and m_r.
MacOf(key, rec) == HmacSha256(key, hmac_input(rec))
BindingOf(b, q, r, m_q, m_r) ==
  /\ b.proof = session_binding_prove(b.crs, b.key, b.rand, q, r,
                                     MacOf(b.key, m_q), MacOf(b.key, m_r))
  /\ b.macs <=> /\ SameKey(MacOf(b.key, q), MacOf(b.key, m_q))
                /\ SameKey(MacOf(b.key, r), MacOf(b.key, m_r))

\* A session-binding proof is of two records and two MACs.
BindingOK ==
  zkBinding # ZkNone =>
    /\ zkBinding.crs \in zkCrss /\ zkBinding.rand \in ZkRands
    /\ zkBinding.key \in Digest
    /\ \E q, r, m_q, m_r \in ZkRecords : BindingOf(zkBinding, q, r, m_q, m_r)

\* A session-parameters proof is of its parameters.
ParamsOK ==
  zkParams # ZkNone =>
    /\ zkParams.sid \in Nat /\ zkParams.rand \in ZkRands /\ zkParams.cert \in ZkCerts
    /\ \E x \in ZkCerts :
         zkParams.proof = prove_session_params(zkParams.sid, zkParams.rand, x,
                                               zkParams.cert)

\* A party has a share and a key; a masked share is masked for its peer.
PartiesOK ==
  /\ dhKeys \in Nat
  /\ DOMAIN zkParty = Role /\ DOMAIN zkMasked = Role
  /\ \A r \in Role :
       /\ zkParty[r] # ZkNone =>
            \E s \in Digest, dh \in Nat : zkParty[r] = CoSnarkParty_new(s, dh)
       /\ zkMasked[r] # ZkNone =>
            \E s \in Digest, dh, pk \in Nat :
              zkMasked[r] = [share |-> compute_masked_share(CoSnarkParty_new(s, dh), pk),
                             mac_share |-> s, peer |-> pk]

ZkInv == CrssOK /\ HspOK /\ BindingOK /\ ParamsOK /\ PartiesOK

\* Nothing is set up or proved at the start.
LEMMA ZkInitInv == ZkInit => ZkInv
<1> SUFFICES ASSUME ZkInit PROVE ZkInv
  BY Zenon
<1>1. CrssOK
  BY FS_EmptySet, Zenon DEF ZkInit, CrssOK
<1>2. PartiesOK
  BY Zenon DEF ZkInit, PartiesOK
<1> QED
  BY <1>1, <1>2, Zenon DEF ZkInit, ZkInv, HspOK, BindingOK, ParamsOK

\* A set-up draws an id of its own.
LEMMA SetupInv ==
  ASSUME ZkInv, NEW crs, ZkSetup(crs), crs.id = NextCrs, OfAKind(crs)
  PROVE  ZkInv'
<1>1. Cardinality(zkCrss) \in Nat /\ crs.id = Cardinality(zkCrss)
  BY FS_CardinalityType, Zenon DEF ZkInv, CrssOK, NextCrs
<1>2. crs \notin zkCrss
  BY <1>1 DEF ZkInv, CrssOK
<1>3. zkCrss' = zkCrss \cup {crs}
  BY Zenon DEF ZkSetup
<1>4. IsFiniteSet(zkCrss') /\ Cardinality(zkCrss') = Cardinality(zkCrss) + 1
  BY <1>2, <1>3, FS_AddElement, Zenon DEF ZkInv, CrssOK
<1>5. CrssOK'
  <2> DEFINE n == Cardinality(zkCrss)
  <2>1. /\ \A c \in zkCrss : c.id \in Nat /\ c.id < n /\ OfAKind(c)
        /\ \A c, d \in zkCrss : c.id = d.id => c = d
    BY Zenon DEF ZkInv, CrssOK
  <2> HIDE DEF n
  <2>2. crs.id = n /\ n \in Nat /\ Cardinality(zkCrss') = n + 1
    BY <1>1, <1>4, Zenon DEF n
  <2>3. \A c \in zkCrss' : c.id \in Nat /\ c.id < n + 1 /\ OfAKind(c)
    BY <1>3, <2>1, <2>2
  <2>4. \A c, d \in zkCrss' : c.id = d.id => c = d
    BY <1>3, <2>1, <2>2
  <2>5. \A c : OfAKind(c)' <=> OfAKind(c)
    BY Zenon DEF OfAKind
  <2> QED BY <1>4, <2>2, <2>3, <2>4, <2>5, Zenon DEF CrssOK
<1>6. UNCHANGED <<zkParty, zkMasked, dhKeys>> /\ Forget
  BY Zenon DEF ZkSetup
<1> QED
  BY <1>5, <1>6 DEF ZkInv, Forget, HspOK, BindingOK, ParamsOK, PartiesOK

\* A step that leaves the CRSs and the parties alone.
LEMMA ProofStep ==
  ASSUME ZkInv, UNCHANGED <<zkCrss, zkParty, zkMasked, dhKeys>>
  PROVE  CrssOK' /\ PartiesOK'
BY DEF ZkInv, CrssOK, PartiesOK

\* A proof made from two shares of its key.
LEMMA ExecuteInv ==
  ASSUME ZkInv, NEW crs \in zkCrss, NEW k \in ZkConns, NEW p \in ZkShares,
         NEW rand \in ZkRands, CoSnarkExecute(crs, k, p, rand)
  PROVE  ZkInv'
<1> DEFINE v == split_mac_key(ZkKeys[k], p).v
<1>1. p \in Digest /\ v \in Digest /\ combine_mac_key_shares(p, v) = ZkKeys[k]
  BY ConnTyped, SharesCombine, ZkAssumption, Zenon
<1> HIDE DEF v
<1>2. zkHsp' = [proof |-> co_snark_execute(crs, p, v, rand), crs |-> crs,
                key |-> ZkKeys[k], conn |-> ZkNone, rand |-> rand]
  BY Zenon DEF CoSnarkExecute, v
<1>3. HspOK'
  BY <1>1, <1>2 DEF HspOK, CoSnarkExecute
<1> QED
  BY <1>3, ProofStep, Zenon DEF CoSnarkExecute, ZkInv, BindingOK, ParamsOK

\* The same in Mode 2, with the PMS of any connection.
LEMMA ExecuteMode2Inv ==
  ASSUME ZkInv, NEW crs \in zkCrss, NEW k \in ZkConns, NEW c \in ZkConns,
         NEW p \in ZkShares, NEW rand \in ZkRands, ExecuteMode2(crs, k, c, p, rand)
  PROVE  ZkInv'
<1> DEFINE v == split_mac_key(ZkKeys[k], p).v
<1>1. p \in Digest /\ v \in Digest /\ combine_mac_key_shares(p, v) = ZkKeys[k]
  BY ConnTyped, SharesCombine, ZkAssumption, Zenon
<1> HIDE DEF v
<1>2. zkHsp' = [proof |-> co_snark_execute_mode2(crs, p, v, rand, c),
                crs |-> crs, key |-> ZkKeys[k], conn |-> c, rand |-> rand]
  BY Zenon DEF ExecuteMode2, v
<1>3. HspOK'
  BY <1>1, <1>2 DEF HspOK, ExecuteMode2
<1> QED
  BY <1>3, ProofStep, Zenon DEF ExecuteMode2, ZkInv, BindingOK, ParamsOK

\* A masked share, by the mask of the two keys.
LEMMA MaskedShare ==
  ASSUME NEW s \in Digest, NEW dh \in Nat, NEW pk \in Nat
  PROVE  LET m == compute_masked_share(CoSnarkParty_new(s, dh), pk)
         IN /\ m.dh_public_key = dh
            /\ m.masked_bytes
                 = combine_mac_key_shares(s, derive_mask(DiffieHellman(dh, pk)))
            /\ m.masked_bytes \in Digest
<1>1. derive_mask(DiffieHellman(dh, pk)) \in Digest
  BY MaskTyped, Zenon
<1>2. combine_mac_key_shares(s, derive_mask(DiffieHellman(dh, pk))) \in Digest
  BY <1>1, CombineTyped, Zenon
<1> QED
  BY <1>2, Zenon DEF compute_masked_share, CoSnarkParty_new

\* The share of a party with key `dh`, masked for the key it was told.
IsMasked(p, share, dh, pk) ==
  /\ share \in Digest /\ dh \in Nat /\ pk \in Nat
  /\ p = compute_masked_share(CoSnarkParty_new(share, dh), pk)

\* The key the coordinator gets from two masked shares.
KeyOf(p, v) == combine_mac_key_shares(p.masked_bytes, v.masked_bytes)

\* What the coordinator makes of two masked shares: a proof of the combined
\* bytes, which are the key when the parties masked for each other.
LEMMA CombinedProof ==
  ASSUME NEW s, NEW t, NEW a, NEW b, NEW a_pk, NEW b_pk, NEW p, NEW v,
         IsMasked(p, s, a, a_pk), IsMasked(v, t, b, b_pk)
  PROVE  /\ KeyOf(p, v) \in Digest
         /\ Zeros(Hash) \in Digest
         /\ combine_mac_key_shares(KeyOf(p, v), Zeros(Hash)) = KeyOf(p, v)
         /\ \A crs, rand :
              co_snark_combine(crs, p, v, a, b, rand)
                = co_snark_execute(crs, KeyOf(p, v), Zeros(Hash), rand)
         /\ a_pk = b /\ b_pk = a => KeyOf(p, v) = combine_mac_key_shares(s, t)
<1>0. /\ s \in Digest /\ t \in Digest
      /\ a \in Nat /\ b \in Nat /\ a_pk \in Nat /\ b_pk \in Nat
  BY Zenon DEF IsMasked
<1>1. /\ p.dh_public_key = a /\ p.masked_bytes \in Digest
      /\ p.masked_bytes = combine_mac_key_shares(s, derive_mask(DiffieHellman(a, a_pk)))
      /\ v.dh_public_key = b /\ v.masked_bytes \in Digest
      /\ v.masked_bytes = combine_mac_key_shares(t, derive_mask(DiffieHellman(b, b_pk)))
  BY MaskedShare, Zenon DEF IsMasked
<1>2. /\ KeyOf(p, v) \in Digest /\ Zeros(Hash) \in Digest
      /\ combine_mac_key_shares(KeyOf(p, v), Zeros(Hash)) = KeyOf(p, v)
  BY <1>1, CombineTyped DEF KeyOf
<1>3. \A crs, rand : co_snark_combine(crs, p, v, a, b, rand)
                       = co_snark_execute(crs, KeyOf(p, v), Zeros(Hash), rand)
  BY <1>1, Zenon DEF co_snark_combine, KeyOf
<1>4. ASSUME a_pk = b, b_pk = a PROVE KeyOf(p, v) = combine_mac_key_shares(s, t)
  <2>1. /\ derive_mask(DiffieHellman(a, b)) \in Digest
        /\ DiffieHellman(a, b) = DiffieHellman(b, a)
    BY <1>0, MaskTyped, Zenon
  <2> QED BY <1>0, <1>1, <1>4, <2>1, MasksCancel DEF KeyOf
<1> QED
  BY <1>2, <1>3, <1>4, Zenon

\* Shares that both parties mask in one call give the key they were split from.
LEMMA ExecuteSplitInv ==
  ASSUME ZkInv, NEW crs \in zkCrss, NEW k \in ZkConns, NEW p \in ZkShares,
         NEW rand \in ZkRands, ExecuteSplit(crs, k, p, rand)
  PROVE  ZkInv'
<1> DEFINE v == split_mac_key(ZkKeys[k], p).v
           key == ZkKeys[k]
           proof == co_snark_execute_split(crs, p, v, rand, 5, 9)
<1>1. p \in Digest /\ v \in Digest /\ combine_mac_key_shares(p, v) = key
  BY ConnTyped, SharesCombine, ZkAssumption, Zenon
<1>2. zkHsp' = [proof |-> proof, crs |-> crs, key |-> key, conn |-> ZkNone, rand |-> rand]
  BY Zenon DEF ExecuteSplit
<1> HIDE DEF v, key
<1>3. /\ key \in Digest /\ Zeros(Hash) \in Digest
      /\ combine_mac_key_shares(key, Zeros(Hash)) = key
  BY <1>1, CombineTyped, Zenon
<1>4. proof = co_snark_execute(crs, key, Zeros(Hash), rand)
  <2>1. 5 \in Nat /\ 9 \in Nat
    BY Zenon
  <2> DEFINE P == compute_masked_share(CoSnarkParty_new(p, 5), 9)
             V == compute_masked_share(CoSnarkParty_new(v, 9), 5)
  <2>2. /\ co_snark_combine(crs, P, V, 5, 9, rand)
             = co_snark_execute(crs, KeyOf(P, V), Zeros(Hash), rand)
        /\ 9 = 9 /\ 5 = 5 => KeyOf(P, V) = combine_mac_key_shares(p, v)
    <3>1. IsMasked(P, p, 5, 9) /\ IsMasked(V, v, 9, 5)
      BY <1>1, <2>1, Zenon DEF IsMasked
    <3> HIDE DEF P, V
    <3> QED BY <3>1, CombinedProof
  <2>3. proof = co_snark_combine(crs, P, V, 5, 9, rand)
    BY Zenon DEF co_snark_execute_split
  <2> HIDE DEF P, V, proof
  <2> QED BY <1>1, <2>2, <2>3, Zenon
<1> HIDE DEF proof
<1>5. HspOK'
  BY <1>2, <1>3, <1>4 DEF HspOK, ExecuteSplit
<1> QED
  BY <1>5, ProofStep, Zenon DEF ExecuteSplit, ZkInv, BindingOK, ParamsOK

\* The coordinator's proof is of the key the shares were split from, when
\* they were masked for the keys it was told, and of some key otherwise.
LEMMA CombineInv ==
  ASSUME ZkInv, NEW crs \in zkCrss, NEW p_pk, NEW v_pk, NEW rand \in ZkRands,
         CombineShares(crs, p_pk, v_pk, rand)
  PROVE  ZkInv'
<1> DEFINE P == zkMasked["p"]
           V == zkMasked["v"]
           proof == co_snark_combine(crs, P.share, V.share, p_pk, v_pk, rand)
           k == KeyOf(P.share, V.share)
<1>1. PICK s \in Digest, a \in Nat, a_pk \in Nat :
        P = [share |-> compute_masked_share(CoSnarkParty_new(s, a), a_pk),
             mac_share |-> s, peer |-> a_pk]
  BY Zenon DEF ZkInv, PartiesOK, Role, CombineShares
<1>2. PICK t \in Digest, b \in Nat, b_pk \in Nat :
        V = [share |-> compute_masked_share(CoSnarkParty_new(t, b), b_pk),
             mac_share |-> t, peer |-> b_pk]
  BY Zenon DEF ZkInv, PartiesOK, Role, CombineShares
<1>3. zkHsp' = IF proof = ZkNone THEN ZkNone
               ELSE [proof |-> proof, crs |-> crs, conn |-> ZkNone, rand |-> rand,
                     key |-> IF P.peer = v_pk /\ V.peer = p_pk
                             THEN combine_mac_key_shares(P.mac_share, V.mac_share)
                             ELSE proof.k_mac]
  BY Zenon DEF CombineShares
<1>4. /\ P.share = compute_masked_share(CoSnarkParty_new(s, a), a_pk)
      /\ V.share = compute_masked_share(CoSnarkParty_new(t, b), b_pk)
      /\ P.mac_share = s /\ V.mac_share = t /\ P.peer = a_pk /\ V.peer = b_pk
  BY <1>1, <1>2
<1> HIDE DEF P, V
<1>5. P.share.dh_public_key = a /\ V.share.dh_public_key = b
  BY <1>4, MaskedShare
<1>6. proof # ZkNone => p_pk = a /\ v_pk = b
  BY <1>5, Zenon DEF co_snark_combine
<1>7. HspOK'
  <2> SUFFICES ASSUME zkHsp' # ZkNone PROVE HspOK'
    BY Zenon DEF HspOK
  <2>1. proof # ZkNone /\ p_pk = a /\ v_pk = b
    BY <1>3, <1>6
  <2>2. /\ k \in Digest /\ combine_mac_key_shares(k, Zeros(Hash)) = k
        /\ Zeros(Hash) \in Digest
        /\ co_snark_combine(crs, P.share, V.share, a, b, rand)
             = co_snark_execute(crs, k, Zeros(Hash), rand)
        /\ a_pk = b /\ b_pk = a => k = combine_mac_key_shares(s, t)
    <3>1. IsMasked(P.share, s, a, a_pk) /\ IsMasked(V.share, t, b, b_pk)
      BY <1>4, Zenon DEF IsMasked
    <3> QED BY <3>1, CombinedProof
  <2>3. proof = co_snark_execute(crs, k, Zeros(Hash), rand)
    BY <2>1, <2>2, Zenon
  <2> HIDE DEF k, proof
  <2>4. proof.k_mac = k
    <3>1. co_snark_execute(crs, k, Zeros(Hash), rand).k_mac
            = combine_mac_key_shares(k, Zeros(Hash))
      BY Zenon DEF co_snark_execute, HspProof
    <3> QED BY <2>2, <2>3, <3>1, Zenon
  <2>5. zkHsp' = [proof |-> proof, crs |-> crs, conn |-> ZkNone, rand |-> rand, key |-> k]
    BY <1>3, <1>4, <2>1, <2>2, <2>4
  <2> QED BY <2>2, <2>3, <2>5 DEF HspOK, CombineShares
<1> QED
  BY <1>7, ProofStep, Zenon DEF CombineShares, ZkInv, BindingOK, ParamsOK

\* Proving a session binding says nothing new of the HSP proof.
LEMMA BindingInv ==
  ASSUME ZkInv, NEW crs \in zkCrss, NEW k \in ZkConns, NEW rand \in ZkRands,
         NEW q \in ZkRecords, NEW r \in ZkRecords, NEW m_q \in ZkRecords,
         NEW m_r \in ZkRecords, SessionBindingProve(crs, k, rand, q, r, m_q, m_r)
  PROVE  ZkInv'
<1> DEFINE key == ZkKeys[k]
           b == zkBinding'
<1>1. key \in Digest
  BY ConnTyped, Zenon
<1>2. b = [proof |-> session_binding_prove(crs, key, rand, q, r,
                                           MacOf(key, m_q), MacOf(key, m_r)),
           crs |-> crs, key |-> key, rand |-> rand,
           macs |-> SameKey(MacOf(key, q), MacOf(key, m_q))
                    /\ SameKey(MacOf(key, r), MacOf(key, m_r))]
  BY Zenon DEF SessionBindingProve, MacOf
<1>3. BindingOK'
  <2>1. BindingOf(b, q, r, m_q, m_r) /\ b.crs = crs /\ b.key = key /\ b.rand = rand
    <3> HIDE DEF b, key
    <3> QED BY <1>2, Zenon DEF BindingOf
  <2>2. zkCrss' = zkCrss
    BY Zenon DEF SessionBindingProve
  <2>3. \E q1, r1, m1, m2 \in ZkRecords : BindingOf(b, q1, r1, m1, m2)
    BY <2>1, Zenon
  <2> HIDE DEF key
  <2>4. (\E q1, r1, m1, m2 \in ZkRecords : BindingOf(zkBinding, q1, r1, m1, m2))'
    BY <2>3, Zenon DEF BindingOf, MacOf, SameKey
  <2> QED BY <1>1, <2>1, <2>2, <2>4 DEF BindingOK
<1>4. HspOK'
  BY Zenon DEF SessionBindingProve, HspOK, ZkInv
<1> QED
  BY <1>3, <1>4, ProofStep, Zenon DEF SessionBindingProve, ZkInv, ParamsOK

\* Proving session parameters.
LEMMA ParamsInv ==
  ASSUME ZkInv, NEW sid \in 1..2, NEW rand \in ZkRands, NEW x \in ZkCerts,
         NEW cert \in ZkCerts, ProveSessionParams(sid, rand, x, cert)
  PROVE  ZkInv'
<1>1. ParamsOK'
  BY DEF ProveSessionParams, ParamsOK
<1> QED
  BY <1>1, ProofStep, Zenon DEF ProveSessionParams, ZkInv, BindingOK, HspOK

\* A party starts.
LEMMA PartyNewInv ==
  ASSUME ZkInv, NEW r \in Role, NEW s \in ZkShares, PartyNew(r, s)
  PROVE  ZkInv'
<1>1. s \in Digest /\ dhKeys + 1 \in Nat /\ dhKeys' = dhKeys + 1
  BY ZkAssumption DEF ZkInv, PartiesOK, PartyNew
<1>2. CrssOK'
  BY Zenon DEF ZkInv, CrssOK, PartyNew
<1>3. PartiesOK'
  BY <1>1 DEF ZkInv, PartiesOK, PartyNew
<1> QED
  BY <1>2, <1>3, Zenon DEF ZkInv, PartyNew, Forget, HspOK, BindingOK, ParamsOK

\* A party masks its share.
LEMMA PartyMaskInv ==
  ASSUME ZkInv, NEW r \in Role, NEW pk \in 1..dhKeys, PartyMask(r, pk)
  PROVE  ZkInv'
<1>1. PICK s \in Digest, dh \in Nat : zkParty[r] = CoSnarkParty_new(s, dh)
  BY Zenon DEF ZkInv, PartiesOK, PartyMask
<1>2. pk \in Nat /\ zkParty[r].mac_share = s
  BY <1>1 DEF ZkInv, PartiesOK, CoSnarkParty_new
<1>3. CrssOK'
  BY Zenon DEF ZkInv, CrssOK, PartyMask
<1>4. zkMasked' = [zkMasked EXCEPT
        ![r] = [share |-> compute_masked_share(CoSnarkParty_new(s, dh), pk),
                mac_share |-> s, peer |-> pk]]
  BY <1>1, <1>2, Zenon DEF PartyMask
<1>5. PartiesOK'
  BY <1>2, <1>4 DEF ZkInv, PartiesOK, PartyMask
<1> QED
  BY <1>3, <1>5, Zenon DEF ZkInv, PartyMask, Forget, HspOK, BindingOK, ParamsOK

\* Every step keeps the invariant.
LEMMA ZkStepInv == ZkInv /\ [ZkNext]_zkvars => ZkInv'
<1> SUFFICES ASSUME ZkInv, [ZkNext]_zkvars PROVE ZkInv'
  BY Zenon
<1>1. ASSUME NEW crs, ZkSetup(crs),
             \/ crs = CoSnarkCrs_setup(NextCrs) \/ crs = CoSnarkCrs_setup_mode2(NextCrs)
             \/ crs = SessionBindingCrs_setup(NextCrs)
      PROVE  ZkInv'
  <2>1. crs.id = NextCrs /\ OfAKind(crs)
    BY <1>1 DEF CoSnarkCrs_setup, CoSnarkCrs_setup_mode2, SessionBindingCrs_setup, Crs,
                OfAKind
  <2> QED BY <1>1, <2>1, SetupInv, Zenon
<1>2. CASE \/ ZkSetup(CoSnarkCrs_setup(NextCrs))
           \/ ZkSetup(CoSnarkCrs_setup_mode2(NextCrs))
           \/ ZkSetup(SessionBindingCrs_setup(NextCrs))
  <2>1. PICK crs : /\ \/ crs = CoSnarkCrs_setup(NextCrs)
                      \/ crs = CoSnarkCrs_setup_mode2(NextCrs)
                      \/ crs = SessionBindingCrs_setup(NextCrs)
                   /\ ZkSetup(crs)
    BY <1>2, Zenon DEF ZkSetup
  <2> QED BY <1>1, <2>1, Zenon
<1>3. ASSUME NEW crs \in zkCrss, NEW k \in ZkConns, NEW p \in ZkShares,
             NEW rand \in ZkRands,
             \/ CoSnarkExecute(crs, k, p, rand)
             \/ \E c \in ZkConns : ExecuteMode2(crs, k, c, p, rand)
             \/ ExecuteSplit(crs, k, p, rand)
      PROVE  ZkInv'
  BY <1>3, ExecuteInv, ExecuteMode2Inv, ExecuteSplitInv, Zenon
<1>4. ASSUME NEW crs \in zkCrss, NEW k \in ZkConns, NEW rand \in ZkRands,
             NEW q \in ZkRecords, NEW r \in ZkRecords, NEW m \in {<<q, r>>, <<r, q>>},
             SessionBindingProve(crs, k, rand, q, r, m[1], m[2])
      PROVE  ZkInv'
  <2>1. m[1] \in ZkRecords /\ m[2] \in ZkRecords
    BY <1>4
  <2> QED BY <1>4, <2>1, BindingInv, Zenon
<1>5. ASSUME NEW sid \in 1..2, NEW rand \in ZkRands, NEW x \in ZkCerts,
             NEW cert \in ZkCerts, ProveSessionParams(sid, rand, x, cert)
      PROVE  ZkInv'
  BY <1>5, ParamsInv, Zenon
<1>6. CASE ZkProofsNext
  BY <1>2, <1>3, <1>4, <1>5, <1>6, Zenon DEF ZkProofsNext
<1>7. CASE ZkSplitNext
  <2>1. ASSUME NEW crs \in zkCrss, NEW p_pk, NEW v_pk, NEW rand \in ZkRands,
               CombineShares(crs, p_pk, v_pk, rand)
        PROVE  ZkInv'
    BY <2>1, CombineInv, Zenon
  <2>2. ASSUME NEW r \in Role, NEW s \in ZkShares, PartyNew(r, s) PROVE ZkInv'
    BY <2>2, PartyNewInv, Zenon
  <2>3. ASSUME NEW r \in Role, NEW pk \in 1..dhKeys, PartyMask(r, pk) PROVE ZkInv'
    BY <2>3, PartyMaskInv, Zenon
  <2> QED BY <1>2, <1>7, <2>1, <2>2, <2>3, Zenon DEF ZkSplitNext
<1>8. CASE UNCHANGED zkvars
  BY <1>8 DEF zkvars, ZkInv, CrssOK, HspOK, BindingOK, ParamsOK, PartiesOK
<1> QED
  BY <1>6, <1>7, <1>8, Zenon DEF ZkNext

\* How the last proofs were made holds in every state.
THEOREM ZkInvariant == ZkSpec => []ZkInv
BY ZkInitInv, ZkStepInv, PTL DEF ZkSpec

\* The kinds of CRS are told apart by the number of inputs.
LEMMA KindByInputs ==
  ASSUME NEW crs, OfAKind(crs)
  PROVE  /\ crs.shape = <<"mode1">> => crs.inputs = 2
         /\ crs.shape = <<"mode2", 3>> => crs.inputs = 3
         /\ \A n \in Nat : crs.shape = <<"mode2", n>> => crs.inputs = 3
         /\ crs.shape = <<"binding">> => crs.inputs = 4
<1>1. \A n : <<"mode1">> # <<"mode2", n>> /\ <<"binding">> # <<"mode2", n>>
  BY Zenon
<1>2. <<"mode1">> # <<"binding">>
  BY Zenon
<1> QED
  BY <1>1, <1>2, Zenon DEF OfAKind

\* An HSP proof is accepted exactly under the CRS it was made with and for
\* the PMS hash it carries, when the circuit of that CRS holds
\* (co_snark_verify, TlsPrfCircuit, co_snark_combine).
THEOREM HspProofsAreOfTheirKeys == ZkSpec => []HspProofIsOfItsKey
<1>1. ZkInv => HspProofIsOfItsKey
  <2> SUFFICES ASSUME ZkInv, zkHsp # ZkNone PROVE HspProofIsOfItsKey
    BY Zenon DEF HspProofIsOfItsKey
  <2> DEFINE made == zkHsp.crs
             conn == zkHsp.conn
             rand == zkHsp.rand
             mode == IF conn = ZkNone THEN <<"mode1">> ELSE <<"mode2", Len(conn.pms)>>
             own == IF conn = ZkNone THEN ZkNone ELSE pms_hash(conn.pms)
  <2>1. /\ made \in zkCrss /\ rand \in ZkRands
        /\ \A c, d \in zkCrss : c.id = d.id => c = d
        /\ \A c \in zkCrss : OfAKind(c)
    BY Zenon DEF ZkInv, HspOK, CrssOK
  <2>2. PICK p \in Digest, v \in Digest :
          /\ zkHsp.key = combine_mac_key_shares(p, v)
          /\ \/ conn = ZkNone /\ zkHsp.proof = co_snark_execute(made, p, v, rand)
             \/ /\ conn \in ZkConns
                /\ zkHsp.proof = co_snark_execute_mode2(made, p, v, rand, conn)
    BY Zenon DEF ZkInv, HspOK
  <2>3. zkHsp.proof.k_mac = zkHsp.key
    BY <2>2 DEF co_snark_execute, co_snark_execute_mode2, HspProof
  <2>4. ASSUME NEW crs \in zkCrss, NEW e
        PROVE  co_snark_verify(crs, zkHsp.proof, e) <=>
                 /\ crs = made /\ crs.shape = mode /\ e = own
                 /\ conn # ZkNone => SameKey(zkHsp.key, ZkKeys[conn])
    <3>1. crs.id = made.id <=> crs = made
      BY <2>1, Zenon
    <3>2. CASE conn = ZkNone
      <4>1. zkHsp.proof = co_snark_execute(made, p, v, rand)
        BY <2>2, <3>2, ConnTyped, Zenon
      <4>2. co_snark_verify(crs, zkHsp.proof, e) <=>
              /\ crs.inputs = 2 /\ crs.id = made.id /\ made.shape = <<"mode1">>
              /\ e = ZkNone
        <5>1. co_snark_verify(crs, co_snark_execute(made, p, v, rand), e) <=>
                /\ crs.inputs = 2 /\ crs.id = made.id /\ made.shape = <<"mode1">>
                /\ e = ZkNone
          <6> HIDE DEF made, rand
          <6> QED BY <2>1, Mode1Accepted
        <5> HIDE DEF made, rand
        <5> QED BY <4>1, <5>1, Zenon
      <4>3. made.shape = <<"mode1">> => made.inputs = 2
        BY <2>1, KindByInputs
      <4> HIDE DEF made, rand, conn
      <4> QED BY <3>1, <3>2, <4>2, <4>3, Zenon
    <3>3. CASE conn # ZkNone
      <4>1. conn \in ZkConns /\ zkHsp.proof = co_snark_execute_mode2(made, p, v, rand, conn)
        BY <2>2, <3>3
      <4>2. co_snark_verify(crs, zkHsp.proof, e) <=>
              /\ crs.inputs = 3 /\ crs.id = made.id
              /\ made.shape = <<"mode2", Len(conn.pms)>>
              /\ e = pms_hash(conn.pms)
              /\ SameKey(combine_mac_key_shares(p, v), ZkKeys[conn])
        <5>1. co_snark_verify(crs, co_snark_execute_mode2(made, p, v, rand, conn), e) <=>
                /\ crs.inputs = 3 /\ crs.id = made.id
                /\ made.shape = <<"mode2", Len(conn.pms)>>
                /\ e = pms_hash(conn.pms)
                /\ SameKey(combine_mac_key_shares(p, v), ZkKeys[conn])
          <6>1. p \in Digest /\ v \in Digest /\ rand \in ZkRands /\ conn \in ZkConns
            BY <2>1, <4>1
          <6> HIDE DEF made, rand, conn
          <6>2. co_snark_verify(crs, co_snark_execute_mode2(made, p, v, rand, conn), e)
                <=> Mode2Verdict(crs, made, p, v, conn, e)
            BY <6>1, Mode2Accepted, Zenon
          <6> QED BY <6>2, Zenon DEF Mode2Verdict
        <5> HIDE DEF made, rand, conn
        <5> QED BY <4>1, <5>1, Zenon
      <4>3. made.shape = <<"mode2", Len(conn.pms)>> => made.inputs = 3
        <5>1. Len(conn.pms) \in Nat
          BY <4>1, ConnTyped DEF Bytes
        <5> QED BY <2>1, <5>1, KindByInputs, Zenon
      <4> HIDE DEF made, rand, conn
      <4> QED BY <2>2, <3>1, <3>3, <4>2, <4>3, Zenon
    <3> QED BY <3>2, <3>3, Zenon
  <2> QED
    BY <2>3, <2>4, PrfGadgetsDeriveTheKeys, Zenon DEF HspProofIsOfItsKey
<1> QED
  BY <1>1, ZkInvariant, PTL

\* The parts of a session-binding proof: the circuit holds when the MACs it
\* commits to are those of its records.
LEMMA BindingParts ==
  ASSUME NEW b, b.key \in Digest, b.rand \in ZkRands, NEW q \in ZkRecords,
         NEW r \in ZkRecords, NEW m_q \in ZkRecords, NEW m_r \in ZkRecords,
         BindingOf(b, q, r, m_q, m_r)
  PROVE  /\ b.proof.commitment = commit_k_mac(b.key, bytes32_to_fr(b.rand))
         /\ b.proof.groth16.crs = b.crs.id
         /\ b.proof.groth16.publics = <<b.proof.commitment, b.proof.rand,
                                        b.proof.mac_q, b.proof.mac_r>>
         /\ b.proof.groth16.ok <=> b.macs /\ b.crs.shape = <<"binding">>
<1> DEFINE k == b.key
           fe == bytes32_to_fr(b.rand)
           mq == MacOf(k, m_q)
           mr == MacOf(k, m_r)
           c == TlsSessionBindingCircuit_new(k, b.rand, q, r, mq, mr)
           circuit == SessionBinding_generate_constraints(c)
<1>1. fe \in Element /\ k \in Digest
  BY RandTyped, Zenon
<1>2. \A rec \in ZkRecords :
        /\ MacOf(k, rec) \in Digest
        /\ hmac_sha256_gadget_constrained(k, hmac_input(rec)) = MacOf(k, rec)
  <2> SUFFICES ASSUME NEW rec \in ZkRecords
               PROVE  /\ MacOf(k, rec) \in Digest
                      /\ hmac_sha256_gadget_constrained(k, hmac_input(rec)) = MacOf(k, rec)
    BY Zenon
  <2>1. hmac_input(rec) \in Bytes
    BY ZkAssumption, ConcatBytes, Zenon DEF hmac_input
  <2>2. k \in Bytes /\ Len(k) <= Block
    <3> HIDE DEF k
    <3>1. k \in Bytes /\ Len(k) = 2
      BY <1>1, DigestIsBytes, Zenon
    <3> QED BY <3>1 DEF Block
  <2> QED BY <2>1, <2>2, HmacGadgetsAgree, Zenon DEF MacOf
<1>3. /\ c.commitment = commit_k_mac(k, fe) /\ c.rand = fe /\ c.k_mac = k
      /\ c.mac_q = commit_k_mac(mq, fe) /\ c.mac_r = commit_k_mac(mr, fe)
      /\ c.q = q /\ c.r = r
  BY Zenon DEF TlsSessionBindingCircuit_new, commit_k_mac
<1> HIDE DEF c, fe, k
<1>4. /\ circuit.shape = <<"binding">>
      /\ circuit.publics = <<c.commitment, c.rand, c.mac_q, c.mac_r>>
      /\ circuit.satisfied <=>
           /\ (pack_bytes_to_fpvar(k) + fe) % Fp = commit_k_mac(k, fe)
           /\ (pack_bytes_to_fpvar(MacOf(k, q)) + fe) % Fp = commit_k_mac(mq, fe)
           /\ (pack_bytes_to_fpvar(MacOf(k, r)) + fe) % Fp = commit_k_mac(mr, fe)
  BY <1>2, <1>3, Zenon DEF SessionBinding_generate_constraints
<1>5. /\ (pack_bytes_to_fpvar(k) + fe) % Fp = commit_k_mac(k, fe)
      /\ (pack_bytes_to_fpvar(MacOf(k, q)) + fe) % Fp = commit_k_mac(MacOf(k, q), fe)
      /\ (pack_bytes_to_fpvar(MacOf(k, r)) + fe) % Fp = commit_k_mac(MacOf(k, r), fe)
      /\ commit_k_mac(MacOf(k, q), fe) = commit_k_mac(mq, fe) <=> SameKey(MacOf(k, q), mq)
      /\ commit_k_mac(MacOf(k, r), fe) = commit_k_mac(mr, fe) <=> SameKey(MacOf(k, r), mr)
  BY <1>1, <1>2, Commitments, Zenon
<1>6. circuit.satisfied <=> SameKey(MacOf(k, q), mq) /\ SameKey(MacOf(k, r), mr)
  <2> HIDE DEF circuit, mq, mr
  <2> QED BY <1>4, <1>5, Zenon
<1>7. b.proof = [groth16 |-> Groth16Prove(b.crs, circuit), commitment |-> c.commitment,
                 rand |-> c.rand, mac_q |-> c.mac_q, mac_r |-> c.mac_r]
  BY Zenon DEF BindingOf, session_binding_prove, c, k
<1>8. b.macs <=> SameKey(MacOf(k, q), mq) /\ SameKey(MacOf(k, r), mr)
  BY Zenon DEF BindingOf, k
<1> HIDE DEF circuit, mq, mr
<1>9. /\ Groth16Prove(b.crs, circuit).crs = b.crs.id
      /\ Groth16Prove(b.crs, circuit).publics = <<c.commitment, c.rand, c.mac_q, c.mac_r>>
      /\ Groth16Prove(b.crs, circuit).ok <=> b.macs /\ b.crs.shape = <<"binding">>
  BY <1>4, <1>6, <1>8 DEF Groth16Prove
<1> QED
  BY <1>3, <1>7, <1>9 DEF k, fe

\* The proof of the session parameters is valid for its own parameters.
LEMMA ParamsAccepted ==
  ASSUME NEW sid \in Nat, NEW rand \in ZkRands, NEW x \in ZkCerts, NEW cert \in ZkCerts,
         NEW rand1 \in ZkRands, NEW cert1 \in ZkCerts
  PROVE  verify_session_params(prove_session_params(sid, rand, x, cert), rand1, cert1)
           <=> rand1 = rand /\ cert1 = cert
<1> DEFINE proof == prove_session_params(sid, rand, x, cert)
           ht == Sha256(cert)
           zk == prove_hsp_internal(sid, rand, x, cert, ht)
           s == bytes16_to_fe(sid)
           r == bytes31_to_fe(rand)
           ce == bytes31_to_fe(cert)
           d == bytes31_to_fe(x)
           h == bytes31_to_fe(ht)
           b == mimc7_sponge(<<s, r, d, ce, h>>)
           circuit == HspCircuit_generate_constraints(
                        [sid |-> s, rand |-> r, cert |-> ce, dvrf |-> d, ht |-> h,
                         zk_binding |-> b])
<1>1. /\ proof.rand_value = rand /\ proof.server_cert_hash = cert
      /\ proof.session_id = sid
      /\ proof.zk_proof = zk.zk_proof /\ proof.zk_binding = zk.zk_binding
  BY DEF prove_session_params
<1>2. rand \in Digest /\ cert \in Digest /\ x \in Digest /\ ht \in Digest
  BY ZkAssumption, DigestIsBytes, ShaGadgetsAgree
<1> HIDE DEF ht
<1>3. s \in Element /\ r \in Element /\ d \in Element /\ ce \in Element /\ h \in Element
  <2>1. \A y \in Digest : bytes31_to_fe(y) \in Element
    BY DigestIsBytes DEF bytes31_to_fe, Element, Fp, Nibble
  <2>2. s \in Element
    BY DEF bytes16_to_fe, Element, Fp
  <2> QED BY <1>2, <2>1, <2>2, Zenon
<1> HIDE DEF s, r, d, ce, h
<1>4. b \in Element
  <2>1. <<s, r, d, ce, h>> \in Seq(Element)
    BY <1>3
  <2> QED BY <2>1, SpongeTyped, Zenon
<1> HIDE DEF b
<1>5. /\ circuit.shape = <<"hsp">> /\ circuit.publics = <<s, r, ce, b>>
      /\ circuit.satisfied
  BY SpongesAgree, Zenon DEF HspCircuit_generate_constraints, b
<1> HIDE DEF circuit
<1>6. /\ zk.zk_binding = <<b % 16, b \div 16>>
      /\ zk.zk_proof = Groth16Prove(GrothZkBackend_setup, circuit)
  BY Zenon DEF prove_hsp_internal, circuit, b, s, r, d, ce, h
<1> HIDE DEF zk, proof
<1>7. /\ zk.zk_proof.crs = "seed" /\ zk.zk_proof.publics = <<s, r, ce, b>>
      /\ zk.zk_proof.ok
      /\ zk.zk_proof \in [crs : {"seed"}, publics : Seq(Nat), ok : BOOLEAN]
  <2> DEFINE g == Groth16Prove(GrothZkBackend_setup, circuit)
  <2>1. /\ g = [crs |-> g.crs, publics |-> g.publics, ok |-> g.ok]
        /\ g.crs = "seed" /\ g.publics = circuit.publics
        /\ g.ok = (circuit.satisfied /\ circuit.shape = <<"hsp">>)
    BY Zenon DEF Groth16Prove, GrothZkBackend_setup, Crs
  <2>2. <<s, r, ce, b>> \in Seq(Nat)
    BY <1>3, <1>4 DEF Element, Fp
  <2> HIDE DEF g
  <2>3. g.publics = <<s, r, ce, b>> /\ g.ok /\ g.ok = TRUE
    BY <1>5, <2>1, Zenon
  <2>4. g \in [crs : {"seed"}, publics : Seq(Nat), ok : BOOLEAN]
    BY ONLY <2>1, <2>2, <2>3, Zenon
  <2> QED BY <1>6, <2>1, <2>3, <2>4, Zenon DEF g
<1>8. zk.zk_proof # ZkNone /\ zk.zk_binding # ZkNone
  <2>1. zk.zk_binding \in Seq(Nat)
    BY <1>4, <1>6 DEF Element, Fp
  <2> QED BY <1>7, <2>1, ZkAssumption
<1>9. (zk.zk_binding[1] + 16 * zk.zk_binding[2]) % Fp = b
  BY <1>4, <1>6 DEF Element, Fp
<1>10. verify_hsp_zk(sid, rand, cert, zk.zk_binding, zk.zk_proof)
  BY <1>7, <1>9 DEF verify_hsp_zk, Groth16Verify, GrothZkBackend_setup, Crs, s, r, ce
<1> QED
  BY <1>1, <1>8, <1>10, Zenon DEF verify_session_params, proof

\* A session-binding proof is accepted exactly when the MACs are those of its
\* records and its key is that of the HSP proof, and a session-parameters
\* proof for its own randomness and certificate only
\* (session_binding_verify, verify_session_params).
THEOREM ProofsAreBound == ZkSpec => []BoundToWhatWasProved
<1>1. ZkInv /\ zkParams # ZkNone =>
        \A rand \in ZkRands, cert \in ZkCerts :
          verify_session_params(zkParams.proof, rand, cert) <=>
            rand = zkParams.rand /\ cert = zkParams.cert
  <2> SUFFICES ASSUME ZkInv, zkParams # ZkNone, NEW rand \in ZkRands, NEW cert \in ZkCerts
               PROVE  verify_session_params(zkParams.proof, rand, cert) <=>
                        rand = zkParams.rand /\ cert = zkParams.cert
    BY Zenon
  <2>1. /\ zkParams.sid \in Nat /\ zkParams.rand \in ZkRands /\ zkParams.cert \in ZkCerts
    BY Zenon DEF ZkInv, ParamsOK
  <2>2. PICK x \in ZkCerts :
          zkParams.proof = prove_session_params(zkParams.sid, zkParams.rand, x, zkParams.cert)
    BY Zenon DEF ZkInv, ParamsOK
  <2> QED BY <2>1, <2>2, ParamsAccepted
<1>2. ASSUME ZkInv, zkHsp # ZkNone
      PROVE  /\ zkHsp.rand \in ZkRands /\ zkHsp.key \in Digest
             /\ zkHsp.proof.commitment
                  = commit_k_mac(zkHsp.key, bytes32_to_fr(zkHsp.rand))
  <2>1. zkHsp.rand \in ZkRands
    BY <1>2, Zenon DEF ZkInv, HspOK
  <2>2. PICK p \in Digest, v \in Digest :
          /\ zkHsp.key = combine_mac_key_shares(p, v)
          /\ \/ zkHsp.proof = co_snark_execute(zkHsp.crs, p, v, zkHsp.rand)
             \/ zkHsp.proof
                  = co_snark_execute_mode2(zkHsp.crs, p, v, zkHsp.rand, zkHsp.conn)
    BY <1>2, Zenon DEF ZkInv, HspOK
  <2>3. zkHsp.key \in Digest
    BY <2>2, CombineTyped, Zenon
  <2> QED BY <2>1, <2>2, <2>3 DEF co_snark_execute, co_snark_execute_mode2, HspProof,
                                  TlsPrfCircuit_new, with_tls_prf
<1>3. ASSUME ZkInv, zkBinding # ZkNone, NEW crs \in zkCrss
      PROVE  \A expected :
               session_binding_verify(crs, zkBinding.proof, expected) <=>
                 /\ crs = zkBinding.crs /\ crs.shape = <<"binding">> /\ zkBinding.macs
                 /\ expected # ZkNone =>
                      commit_k_mac(zkBinding.key, bytes32_to_fr(zkBinding.rand)) = expected
  <2> DEFINE b == zkBinding
             publics == <<b.proof.commitment, b.proof.rand, b.proof.mac_q, b.proof.mac_r>>
  <2>1. /\ b.crs \in zkCrss /\ b.rand \in ZkRands /\ b.key \in Digest
        /\ \A c, d \in zkCrss : c.id = d.id => c = d
        /\ \A c \in zkCrss : OfAKind(c)
    BY <1>3, Zenon DEF ZkInv, BindingOK, CrssOK
  <2>2. PICK q \in ZkRecords, r \in ZkRecords, m_q \in ZkRecords, m_r \in ZkRecords :
          BindingOf(b, q, r, m_q, m_r)
    BY <1>3, Zenon DEF ZkInv, BindingOK
  <2> HIDE DEF b
  <2>3. /\ b.proof.commitment = commit_k_mac(b.key, bytes32_to_fr(b.rand))
        /\ b.proof.groth16.crs = b.crs.id
        /\ b.proof.groth16.publics = publics
        /\ b.proof.groth16.ok <=> b.macs /\ b.crs.shape = <<"binding">>
    BY <2>1, <2>2, BindingParts, Zenon
  <2>4. Len(publics) = 4
    BY Zenon
  <2> HIDE DEF publics
  <2>5. Groth16Verify(crs, publics, b.proof.groth16) <=>
          crs = b.crs /\ crs.shape = <<"binding">> /\ b.macs
    <3>1. crs.id = b.crs.id <=> crs = b.crs
      BY <2>1, Zenon
    <3>2. crs.shape = <<"binding">> => crs.inputs = 4
      BY <2>1, KindByInputs, Zenon
    <3> QED BY <2>3, <2>4, <3>1, <3>2, Zenon DEF Groth16Verify
  <2> QED BY <2>3, <2>5, Zenon DEF session_binding_verify, publics, b
<1>4. ASSUME ZkInv, zkBinding # ZkNone, zkHsp # ZkNone, zkHsp.rand = zkBinding.rand
      PROVE  commit_k_mac(zkBinding.key, bytes32_to_fr(zkBinding.rand))
               = zkHsp.proof.commitment
             <=> SameKey(zkBinding.key, zkHsp.key)
  <2>1. bytes32_to_fr(zkHsp.rand) \in Element /\ zkBinding.key \in Digest
    BY <1>2, <1>4, RandTyped DEF ZkInv, BindingOK
  <2> QED BY <1>2, <1>4, <2>1, Commitments
<1>5. ASSUME ZkInv, zkHsp # ZkNone PROVE zkHsp.proof.commitment # ZkNone
  <2>1. bytes32_to_fr(zkHsp.rand) \in Element
    BY <1>2, <1>5, RandTyped
  <2>2. zkHsp.proof.commitment \in Element
    BY <1>2, <1>5, <2>1, Commitments, Zenon
  <2>3. zkHsp.proof.commitment \in Nat
    BY <2>2 DEF Element, Fp
  <2> QED BY <2>3, ZkAssumption, Zenon
<1>6. ZkInv => BoundToWhatWasProved
  <2> SUFFICES ASSUME ZkInv PROVE BoundToWhatWasProved
    BY Zenon
  <2>1. CASE zkHsp = ZkNone
    BY <1>1, <1>3, <2>1, Zenon DEF BoundToWhatWasProved
  <2>2. CASE zkHsp # ZkNone
    BY <1>1, <1>3, <1>4, <1>5, <2>2, Zenon DEF BoundToWhatWasProved
  <2> QED BY <2>1, <2>2, Zenon
<1> QED
  BY <1>6, ZkInvariant, PTL
=============================================================================
