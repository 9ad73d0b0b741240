--------------------------- MODULE MD5StreamProofs ---------------------------
(***************************************************************************)
(* Theorems about MD5Stream, for every choice of its constants.            *)
(***************************************************************************)
EXTENDS MD5Stream, TLAPS

-----------------------------------------------------------------------------
(* The count of bits, and the index read off it.                           *)

\* c0 is 8 * n, modulo Word.
Counts(c0, n) == c0 \in 0..(Word - 1) /\ \E q \in Int : 8 * n = c0 + Word * q

LEMMA CountsIndex ==
  ASSUME NEW c0, NEW n \in Nat, Counts(c0, n)
  PROVE  (c0 \div 8) % 64 = n % 64
<1>1. PICK w \in Int : Word = 512 * w
  BY WordAssumption
<1>2. PICK q \in Int : 8 * n = c0 + Word * q
  BY DEF Counts
<1>3. PICK t \in Int : t = w * q
  BY <1>1, <1>2
<1>4. Word * q = 512 * t
  BY <1>1, <1>2, <1>3
<1>5. c0 = 8 * (n - 64 * t) /\ c0 \in Int
  BY <1>2, <1>3, <1>4, WordAssumption DEF Counts
<1>6. c0 \div 8 = n - 64 * t
  BY <1>5, <1>3
<1> QED
  BY <1>6, <1>3

LEMMA CountsAdd ==
  ASSUME NEW count, NEW n \in Nat, NEW len \in Nat,
         Counts(count[0], n), 8 * len < Word
  PROVE  Counts(AddBits(count, len)[0], n + len)
<1> DEFINE c0 == count[0]
           sum == (c0 + 8 * len) % Word
<1>1. AddBits(count, len)[0] = sum
  <2>1. (8 * len) % Word = 8 * len
    BY WordAssumption
  <2> QED
    BY <2>1 DEF AddBits
<1>2. PICK q \in Int : 8 * n = c0 + Word * q
  BY DEF Counts
<1>3. c0 \in 0..(Word - 1)
  BY DEF Counts
<1>4. CASE c0 + 8 * len < Word
  <2>1. sum = c0 + 8 * len
    BY <1>3, <1>4, WordAssumption
  <2>2. 8 * (n + len) = sum + Word * q
    BY <1>2, <1>3, <2>1, WordAssumption
  <2>3. sum \in 0..(Word - 1)
    BY <1>3, <1>4, <2>1, WordAssumption
  <2> QED
    BY <1>1, <1>2, <2>2, <2>3 DEF Counts
<1>5. CASE c0 + 8 * len >= Word
  <2>1. sum = c0 + 8 * len - Word
    <3> DEFINE r == c0 + 8 * len - Word
    <3>1. r \in 0..(Word - 1) /\ c0 + 8 * len = r + Word
      BY <1>3, <1>5, WordAssumption
    <3> HIDE DEF r
    <3>2. (r + Word) % Word = r
      BY <3>1, WordAssumption
    <3> QED
      BY <3>1, <3>2 DEF r
  <2>2. Word * (q + 1) = Word * q + Word
    BY <1>2, WordAssumption
  <2>3. 8 * (n + len) = sum + Word * (q + 1)
    BY <1>2, <1>3, <2>1, <2>2, WordAssumption
  <2>4. sum \in 0..(Word - 1)
    BY <1>3, <1>5, <2>1, WordAssumption
  <2> QED
    BY <1>1, <1>2, <2>3, <2>4 DEF Counts
<1> QED
  BY <1>3, <1>4, <1>5, WordAssumption

-----------------------------------------------------------------------------
(***************************************************************************)
(* A context represents the first n bytes of D when its blocks and the     *)
(* used part of its buffer hold them in order.                             *)
(***************************************************************************)

Represents(c, D, n) ==
  /\ Counts(c.count[0], n)
  /\ DOMAIN c.buffer = Index
  /\ c.done = n \div 64
  /\ DOMAIN c.blocks = 0..(c.done - 1)
  /\ \A b \in 0..(c.done - 1) : \A j \in Index : c.blocks[b][j] = D[64 * b + j]
  /\ \A j \in 0..((n % 64) - 1) : c.buffer[j] = D[64 * c.done + j]

LEMMA Remainder ==
  ASSUME NEW x \in Nat
  PROVE  /\ x \div 64 \in Nat /\ x % 64 \in 0..63
         /\ x - 64 * (x \div 64) = x % 64
  OBVIOUS

LEMMA Quotient ==
  ASSUME NEW x \in Nat, NEW k \in Nat, NEW r \in 0..63, x - 64 * k = r
  PROVE  x \div 64 = k /\ x % 64 = r
  OBVIOUS

\* What MD5Update does to a context that represents n bytes.
LEMMA UpdateRepresents ==
  ASSUME NEW c, NEW D, NEW n \in Nat, Represents(c, D, n),
         NEW input, NEW len \in Nat, 8 * len < Word,
         \A j \in 0..(len - 1) : input[j] = D[n + j]
  PROVE  Represents(MD5Update(c, input, len), D, n + len)
<1> DEFINE index   == n % 64
           partLen == 64 - index
           whole   == (len - partLen) \div 64
           rest    == partLen + 64 * whole
           filled  == Copy(c.buffer, index, input, 0, partLen)
           blk(b)  == IF b < c.done THEN c.blocks[b]
                      ELSE IF b = c.done THEN filled
                      ELSE [j \in Index |->
                              input[partLen + 64 * (b - c.done - 1) + j]]
           c2      == MD5Update(c, input, len)
<1>1. Counts(AddBits(c.count, len)[0], n + len)
  BY CountsAdd DEF Represents
<1>0. c2 = Absorb(c, index, input, len)
  <2>1. BufferIndex(c) = index
    BY CountsIndex DEF Represents, BufferIndex
  <2> QED
    BY <2>1 DEF MD5Update
<1>2. CASE len < partLen
  <2>1. c2 = [count  |-> AddBits(c.count, len),
              buffer |-> Copy(c.buffer, index, input, 0, len),
              done   |-> c.done,
              blocks |-> c.blocks]
    <3>1. ~ (len >= partLen)
      BY <1>2
    <3> QED
      BY <1>0, <3>1, Zenon DEF Absorb
  <2>2. /\ index \in Nat /\ index + len < 64
        /\ c.done \in Nat /\ n = 64 * c.done + index
        /\ (n + len) \div 64 = c.done /\ (n + len) % 64 = index + len
    <3>1. c.done = n \div 64
      BY DEF Represents
    <3>2. /\ c.done \in Nat /\ index \in 0..63
          /\ n - 64 * c.done = index /\ index + len < 64
      BY <1>2, <3>1, Remainder
    <3> HIDE DEF index
    <3>3. /\ (n + len) - 64 * c.done = index + len
          /\ n + len \in Nat /\ index + len \in 0..63
      BY <3>2
    <3>4. (n + len) \div 64 = c.done /\ (n + len) % 64 = index + len
      BY <3>2, <3>3, Quotient
    <3> QED
      BY <3>2, <3>4
  <2>3. \A j \in 0..(index - 1) : c.buffer[j] = D[64 * c.done + j]
    BY DEF Represents
  <2> HIDE DEF index, c2
  <2>4. /\ DOMAIN c2.buffer = Index
        /\ \A j \in Index :
             c2.buffer[j] = IF j >= index /\ j < index + len
                              THEN input[0 + (j - index)] ELSE c.buffer[j]
    <3>1. DOMAIN c.buffer = Index /\ index \in Nat /\ 0 \in Nat /\ len \in Int
      BY <2>2 DEF Represents
    <3>2. c2.buffer = Copy(c.buffer, index, input, 0, len)
      BY <2>1
    <3>3. /\ DOMAIN Copy(c.buffer, index, input, 0, len) = Index
          /\ \A j \in Index :
               Copy(c.buffer, index, input, 0, len)[j] =
                 IF j >= index /\ j < index + len
                   THEN input[0 + (j - index)] ELSE c.buffer[j]
      BY <3>1 DEF Copy
    <3> QED
      BY <3>2, <3>3
  <2>5. ASSUME NEW j \in 0..(index + len - 1)
        PROVE  c2.buffer[j] = D[64 * c.done + j]
    <3>1. j \in Index
      BY <2>2 DEF Index
    <3>2. CASE j >= index
      <4>1. /\ j < index + len /\ 0 + (j - index) = j - index
            /\ j - index \in 0..(len - 1) /\ n + (j - index) = 64 * c.done + j
        BY <2>2, <3>2
      <4>2. c2.buffer[j] = input[j - index]
        BY <2>4, <3>1, <3>2, <4>1
      <4> QED
        BY <4>1, <4>2
    <3>3. CASE j < index
      BY <2>2, <2>3, <2>4, <3>1, <3>3
    <3> QED
      BY <2>2, <3>2, <3>3
  <2>6. /\ c2.count = AddBits(c.count, len)
        /\ c2.done = c.done /\ c2.blocks = c.blocks
    BY <2>1
  <2>7. c2.done = (n + len) \div 64
    BY <2>2, <2>6
  <2>8. \A j \in 0..(((n + len) % 64) - 1) : c2.buffer[j] = D[64 * c2.done + j]
    BY <2>2, <2>5, <2>6
  <2> QED
    BY <1>1, <2>4, <2>6, <2>7, <2>8 DEF Represents, c2
<1>3. CASE len >= partLen
  <2>1. c2 = [count  |-> AddBits(c.count, len),
              buffer |-> Copy(filled, 0, input, rest, len - rest),
              done   |-> c.done + 1 + whole,
              blocks |-> [b \in 0..(c.done + whole) |-> blk(b)]]
    BY <1>0, <1>3, Zenon DEF Absorb
  <2>2. /\ index \in Nat /\ index < 64
        /\ c.done \in Nat /\ n = 64 * c.done + index
    <3>1. c.done = n \div 64
      BY DEF Represents
    <3>2. /\ c.done \in Nat /\ index \in 0..63
          /\ n - 64 * c.done = index
      BY <3>1, Remainder
    <3> HIDE DEF index
    <3> QED
      BY <3>2
  <2>3. \A j \in 0..(index - 1) : c.buffer[j] = D[64 * c.done + j]
    BY DEF Represents
  <2>4. partLen = 64 - index /\ partLen \in Nat /\ rest = partLen + 64 * whole
    BY <2>2
  <2> HIDE DEF index
  <2>5. whole \in Nat /\ len - rest \in 0..63
    <3>1. len - partLen \in Nat
      BY <1>3, <2>2, <2>4
    <3>2. /\ whole \in Nat /\ (len - partLen) - 64 * whole \in 0..63
      BY <3>1, Remainder
    <3> HIDE DEF partLen, whole, rest
    <3> QED
      BY <2>4, <3>2
  <2>6. filled = Copy(c.buffer, index, input, 0, partLen)
    OBVIOUS
  <2> HIDE DEF partLen, whole, rest, filled, c2
  <2>7. /\ rest \in Nat
        /\ (n + len) \div 64 = c.done + 1 + whole
        /\ (n + len) % 64 = len - rest
    <3>1. /\ (n + len) - 64 * (c.done + 1 + whole) = len - rest
          /\ n + len \in Nat /\ c.done + 1 + whole \in Nat
          /\ rest \in Nat
      BY <2>2, <2>4, <2>5
    <3> QED
      BY <2>5, <3>1, Quotient
  <2>8. /\ DOMAIN filled = Index
        /\ \A j \in Index :
             filled[j] = IF j >= index /\ j < index + partLen
                           THEN input[0 + (j - index)] ELSE c.buffer[j]
    <3>1. /\ DOMAIN c.buffer = Index
          /\ index \in Nat /\ 0 \in Nat /\ partLen \in Int
      BY <2>2, <2>4 DEF Represents
    <3>2. /\ DOMAIN Copy(c.buffer, index, input, 0, partLen) = Index
          /\ \A j \in Index :
               Copy(c.buffer, index, input, 0, partLen)[j] =
                 IF j >= index /\ j < index + partLen
                   THEN input[0 + (j - index)] ELSE c.buffer[j]
      BY <3>1 DEF Copy
    <3> QED
      BY <2>6, <3>2
  <2>9. ASSUME NEW j \in Index PROVE filled[j] = D[64 * c.done + j]
    <3>1. CASE j >= index
      <4>1. /\ j < index + partLen /\ 0 + (j - index) = j - index
            /\ j - index \in 0..(len - 1) /\ n + (j - index) = 64 * c.done + j
        BY <1>3, <2>2, <2>4, <3>1 DEF Index
      <4>2. filled[j] = input[j - index]
        BY <2>8, <3>1, <4>1
      <4> QED
        BY <4>1, <4>2
    <3>2. CASE j < index
      BY <2>2, <2>3, <2>8, <3>2 DEF Index
    <3> QED
      BY <2>2, <3>1, <3>2 DEF Index
  <2>10. /\ DOMAIN c2.buffer = Index
         /\ \A j \in Index :
              c2.buffer[j] = IF j >= 0 /\ j < 0 + (len - rest)
                               THEN input[rest + (j - 0)] ELSE filled[j]
    <3>1. DOMAIN filled = Index /\ 0 \in Nat /\ rest \in Nat /\ len - rest \in Int
      BY <2>5, <2>7, <2>8
    <3>2. c2.buffer = Copy(filled, 0, input, rest, len - rest)
      BY <2>1
    <3>3. /\ DOMAIN Copy(filled, 0, input, rest, len - rest) = Index
          /\ \A j \in Index :
               Copy(filled, 0, input, rest, len - rest)[j] =
                 IF j >= 0 /\ j < 0 + (len - rest)
                   THEN input[rest + (j - 0)] ELSE filled[j]
      BY <3>1 DEF Copy
    <3> QED
      BY <3>2, <3>3
  <2>11. ASSUME NEW j \in 0..(len - rest - 1)
         PROVE  c2.buffer[j] = D[64 * (c.done + 1 + whole) + j]
    <3>1. /\ j \in Index /\ j >= 0 /\ j < 0 + (len - rest)
          /\ rest + (j - 0) \in 0..(len - 1)
          /\ n + (rest + (j - 0)) = 64 * (c.done + 1 + whole) + j
      BY <2>2, <2>4, <2>5, <2>7 DEF Index
    <3>2. c2.buffer[j] = input[rest + (j - 0)]
      BY <2>10, <3>1
    <3> QED
      BY <3>1, <3>2
  <2>12. ASSUME NEW b \in 0..(c.done + whole), NEW j \in Index
         PROVE  c2.blocks[b][j] = D[64 * b + j]
    <3>1. c2.blocks[b] = blk(b)
      BY <2>1
    <3>2. CASE b < c.done
      <4>1. b \in 0..(c.done - 1)
        BY <2>2, <2>5, <3>2
      <4> QED
        BY <3>1, <3>2, <4>1 DEF Represents
    <3>3. CASE b = c.done
      <4>1. ~ (b < c.done)
        BY <2>2, <3>3
      <4> QED
        BY <2>9, <3>1, <3>3, <4>1
    <3>4. CASE b > c.done
      <4> DEFINE k == partLen + 64 * (b - c.done - 1) + j
      <4>1. /\ k \in 0..(len - 1) /\ n + k = 64 * b + j
            /\ ~ (b < c.done) /\ b # c.done
        BY <2>2, <2>4, <2>5, <3>4 DEF Index
      <4>2. c2.blocks[b][j] = input[k]
        BY <3>1, <4>1
      <4> QED
        BY <4>1, <4>2
    <3> QED
      BY <2>2, <2>5, <3>2, <3>3, <3>4
  <2>13. /\ c2.count = AddBits(c.count, len)
         /\ c2.done = c.done + 1 + whole
         /\ DOMAIN c2.blocks = 0..(c.done + whole)
    BY <2>1
  <2>14. c.done + 1 + whole - 1 = c.done + whole
    BY <2>2, <2>5
  <2>15. c2.done = (n + len) \div 64
    BY <2>7, <2>13
  <2>16. \A j \in 0..(((n + len) % 64) - 1) : c2.buffer[j] = D[64 * c2.done + j]
    BY <2>7, <2>11, <2>13
  <2>17. /\ DOMAIN c2.blocks = 0..(c2.done - 1)
         /\ \A b \in 0..(c2.done - 1) :
              \A j \in Index : c2.blocks[b][j] = D[64 * b + j]
    <3>1. c2.done - 1 = c.done + whole
      BY <2>2, <2>5, <2>13
    <3>2. DOMAIN c2.blocks = 0..(c2.done - 1)
      BY <2>13, <3>1, Zenon
    <3> QED
      BY <2>12, <3>1, <3>2, Zenon
  <2>18. Counts(c2.count[0], n + len)
    BY <1>1, <2>13
  <2> QED
    BY <2>10, <2>15, <2>16, <2>17, <2>18 DEF Represents, c2
<1> QED
  BY <1>2, <1>3

\* The padding ends the message eight bytes before the end of a block.
LEMMA PadLenFits ==
  ASSUME NEW n \in Nat
  PROVE  /\ PadLen(n % 64) \in 1..64
         /\ n + PadLen(n % 64) + 8 = PaddedLength(n)
         /\ PaddedLength(n) % 64 = 0
<1>1. PICK k \in Nat, r \in 0..63 : n = 64 * k + r /\ r = n % 64
  BY Remainder
<1>2. CASE r < 56
  <2>1. (n + 8) \div 64 = k
    BY <1>1, <1>2
  <2> QED
    BY <1>1, <1>2, <2>1 DEF PadLen, PaddedLength
<1>3. CASE r >= 56
  <2>1. (n + 8) \div 64 = k + 1
    BY <1>1, <1>3
  <2> QED
    BY <1>1, <1>3, <2>1 DEF PadLen, PaddedLength
<1> QED
  BY <1>1, <1>2, <1>3

LEMMA FinalPads ==
  ASSUME NEW c, NEW n \in Nat, Represents(c, Data, n)
  PROVE  /\ DOMAIN MD5Final(c) = 0..(PaddedLength(n) \div 64 - 1)
         /\ \A i \in 0..(PaddedLength(n) - 9) :
              At(MD5Final(c), i) = MessageByte(n, i)
         /\ \A j \in 0..7 : At(MD5Final(c), PaddedLength(n) - 8 + j) = Encode(c.count)[j]
<1> DEFINE p      == PadLen(n % 64)
           bits   == Encode(c.count)
           stream == [i \in Nat |-> IF i < n + p THEN MessageByte(n, i)
                                    ELSE bits[i - (n + p)]]
           padded == MD5Update(c, PADDING, p)
           full   == MD5Update(padded, bits, 8)
<1>1. MD5Final(c) = full.blocks
  <2>1. BufferIndex(c) = n % 64
    BY CountsIndex DEF Represents, BufferIndex
  <2> QED
    BY <2>1 DEF MD5Final
<1>2. /\ p \in 1..64 /\ 8 * p < Word /\ 8 * 8 < Word
      /\ n + p + 8 = PaddedLength(n) /\ PaddedLength(n) % 64 = 0
  BY PadLenFits, WordAssumption
<1> HIDE DEF p, bits
<1>3. Represents(c, stream, n)
  <2>0. c.done = n \div 64
    BY DEF Represents
  <2>1. PICK r \in 0..63 : r = n % 64 /\ n = 64 * c.done + r /\ c.done \in Nat
    BY <2>0, Remainder
  <2>2. \A i \in Nat : i < n => stream[i] = Data[i]
    BY <1>2 DEF MessageByte
  <2>3. ASSUME NEW b \in 0..(c.done - 1), NEW j \in Index
        PROVE  stream[64 * b + j] = Data[64 * b + j]
    <3>1. 64 * b + j \in Nat /\ 64 * b + j < n
      BY <2>1 DEF Index
    <3> QED
      BY <2>2, <3>1
  <2>4. ASSUME NEW j \in 0..((n % 64) - 1)
        PROVE  stream[64 * c.done + j] = Data[64 * c.done + j]
    <3>0. j \in 0..(r - 1)
      BY <2>1
    <3>1. 64 * c.done + j \in Nat /\ 64 * c.done + j < n
      BY <2>1, <3>0
    <3> QED
      BY <2>2, <3>1
  <2> HIDE DEF stream
  <2>5. \A b \in 0..(c.done - 1) : \A j \in Index :
          c.blocks[b][j] = stream[64 * b + j]
    BY <2>3 DEF Represents
  <2>6. \A j \in 0..((n % 64) - 1) : c.buffer[j] = stream[64 * c.done + j]
    BY <2>4 DEF Represents
  <2> QED
    BY <2>5, <2>6 DEF Represents
<1>4. ASSUME NEW j \in 0..(p - 1) PROVE PADDING[j] = stream[n + j]
  <2>1. j \in Index /\ n + j \in Nat /\ n + j < n + p /\ ~ (n + j < n)
        /\ (n + j = n <=> j = 0)
    BY <1>2 DEF Index
  <2> QED
    BY <2>1 DEF PADDING, MessageByte
<1>5. Represents(padded, stream, n + p)
  <2> HIDE DEF stream
  <2> QED
    BY <1>2, <1>3, <1>4, UpdateRepresents
<1>6. ASSUME NEW j \in 0..7 PROVE bits[j] = stream[(n + p) + j]
  <2>1. /\ (n + p) + j \in Nat /\ ~ ((n + p) + j < n + p)
        /\ ((n + p) + j) - (n + p) = j
    BY <1>2
  <2>2. stream[(n + p) + j] = bits[((n + p) + j) - (n + p)]
    BY <2>1
  <2> QED
    BY <2>1, <2>2
<1>7. Represents(full, stream, PaddedLength(n))
  <2>1. n + p \in Nat /\ (n + p) + 8 = PaddedLength(n) /\ 8 - 1 = 7
    BY <1>2
  <2> HIDE DEF stream, padded
  <2>2. Represents(MD5Update(padded, bits, 8), stream, (n + p) + 8)
    BY <1>2, <1>5, <1>6, <2>1, UpdateRepresents
  <2> QED
    BY <2>1, <2>2
<1>8. ASSUME NEW i \in 0..(PaddedLength(n) - 1)
      PROVE  At(full.blocks, i) = stream[i]
  <2>1. i \in Nat /\ PaddedLength(n) \in Nat /\ i < PaddedLength(n)
    BY <1>2
  <2>2. PICK d \in Nat, r \in 0..63 :
          d = i \div 64 /\ r = i % 64 /\ i - 64 * d = r
    BY <2>1, Remainder
  <2>3. d \in 0..(full.done - 1)
    <3>1. full.done = PaddedLength(n) \div 64
      BY <1>7 DEF Represents
    <3>2. d < PaddedLength(n) \div 64 /\ PaddedLength(n) \div 64 \in Nat
      BY <1>2, <2>1, <2>2
    <3> QED
      BY <3>1, <3>2
  <2>4. full.blocks[d][r] = stream[i]
    <3> HIDE DEF stream, full
    <3>1. full.blocks[d][r] = stream[64 * d + r]
      BY <1>7, <2>2, <2>3 DEF Represents, Index
    <3>2. 64 * d + r = i
      BY <2>1, <2>2
    <3> QED
      BY <3>1, <3>2
  <2>5. At(full.blocks, i) = full.blocks[d][r]
    BY <2>2 DEF At
  <2> QED
    BY <2>4, <2>5
<1>9. ASSUME NEW i \in 0..(PaddedLength(n) - 9)
      PROVE  At(full.blocks, i) = MessageByte(n, i)
  <2>1. i \in 0..(PaddedLength(n) - 1) /\ i \in Nat /\ i < n + p
    BY <1>2
  <2>2. stream[i] = MessageByte(n, i)
    BY <2>1
  <2> HIDE DEF stream, full
  <2> QED
    BY <1>8, <2>1, <2>2
<1>10. ASSUME NEW j \in 0..7
       PROVE  At(full.blocks, PaddedLength(n) - 8 + j) = bits[j]
  <2>1. PICK i \in Nat : i = PaddedLength(n) - 8 + j
    BY <1>2
  <2>2. i \in 0..(PaddedLength(n) - 1) /\ i = (n + p) + j
    BY <1>2, <2>1
  <2> HIDE DEF stream, full
  <2> QED
    BY <1>6, <1>8, <2>1, <2>2
<1> QED
  <2>1. DOMAIN full.blocks = 0..(PaddedLength(n) \div 64 - 1)
    BY <1>7 DEF Represents
  <2> HIDE DEF full
  <2> QED
    BY <1>1, <1>9, <1>10, <2>1 DEF bits

-----------------------------------------------------------------------------
(***************************************************************************)
(* The read loop keeps the context in step with the file.                  *)
(***************************************************************************)

StreamInv ==
  /\ pc \in {"closed", "read", "eof", "done"}
  /\ length \in Nat /\ pos \in Nat
  /\ pc \in {"read", "eof"} => pos <= length /\ Represents(ctx, Data, pos)
  /\ pc = "eof" => pos = length
  /\ MessageDigested

LEMMA InitRepresents == Represents(MD5Init, Data, 0)
<1>1. Counts(MD5Init.count[0], 0)
  <2>1. 8 * 0 = 0 + Word * 0 /\ 0 \in 0..(Word - 1)
    BY WordAssumption
  <2> QED
    BY <2>1 DEF Counts, MD5Init
<1>2. 0 \div 64 = 0 /\ 0 % 64 = 0
  OBVIOUS
<1> QED
  BY <1>1, <1>2 DEF Represents, MD5Init

LEMMA ChunkRepresents ==
  ASSUME pos \in Nat, Represents(ctx, Data, pos), NEW n \in 0..ChunkLen
  PROVE  Represents(MD5Update(ctx, Chunk(n), n), Data, pos + n)
<1>1. n \in Nat /\ 8 * n < Word
  BY SizesAssumption, WordAssumption
<1>2. \A j \in 0..(n - 1) : Chunk(n)[j] = Data[pos + j]
  BY DEF Chunk
<1> QED
  BY <1>1, <1>2, UpdateRepresents

LEMMA InitStreamInv == Init => StreamInv
  BY SizesAssumption DEF Init, StreamInv, MessageDigested

LEMMA NextStreamInv == StreamInv /\ [Next]_vars => StreamInv'
<1> SUFFICES ASSUME StreamInv, [Next]_vars PROVE StreamInv'
  OBVIOUS
<1> USE DEF StreamInv
<1>1. CASE Open
  <2>1. Represents(ctx', Data, pos') /\ pos' = 0
    BY <1>1, InitRepresents DEF Open
  <2> QED
    BY <1>1, <2>1 DEF Open, MessageDigested
<1>2. CASE ReadChunk
  <2>1. /\ Wanted \in 0..ChunkLen /\ pos + Wanted <= length
        /\ Wanted < ChunkLen => pos + Wanted = length
    BY <1>2, SizesAssumption DEF ReadChunk, Wanted
  <2>2. Represents(ctx', Data, pos') /\ pos' = pos + Wanted
    BY <1>2, <2>1, ChunkRepresents DEF ReadChunk
  <2> QED
    BY <1>2, <2>1, <2>2 DEF ReadChunk, MessageDigested
<1>3. ASSUME NEW n \in Sizes, ReadCutShort(n) PROVE StreamInv'
  <2>1. n \in 0..ChunkLen /\ pos + n <= length
    BY <1>3, SizesAssumption DEF ReadCutShort, Wanted
  <2>2. Represents(ctx', Data, pos') /\ pos' = pos + n
    BY <1>3, <2>1, ChunkRepresents DEF ReadCutShort
  <2> QED
    BY <1>3, <2>1, <2>2 DEF ReadCutShort, MessageDigested
<1>4. CASE Finish
  <2>1. Represents(ctx, Data, length) /\ length' = length
    BY <1>4 DEF Finish
  <2>2. MessageDigested'
    BY <1>4, <2>1, FinalPads DEF Finish, MessageDigested
  <2> QED
    BY <1>4, <2>2 DEF Finish
<1>5. CASE Again
  BY <1>5, SizesAssumption DEF Again, MessageDigested
<1>6. CASE UNCHANGED vars
  BY <1>6 DEF vars, MessageDigested
<1> QED
  BY <1>1, <1>2, <1>3, <1>4, <1>5, <1>6 DEF Next

\* However fread cuts the file up, MD5Transform is given the file's bytes, each
\* once and in order, then 128 and zeros up to 56 mod 64.
THEOREM FileIsDigestedWhole == Spec => []MessageDigested
<1>1. StreamInv => MessageDigested
  BY DEF StreamInv
<1> QED
  BY <1>1, InitStreamInv, NextStreamInv, PTL DEF Spec

-----------------------------------------------------------------------------
(***************************************************************************)
(* The number of bits that is appended, where a word of the count is four  *)
(* bytes.                                                                  *)
(***************************************************************************)

LEMMA NextMultiple ==
  ASSUME NEW p \in Nat \ {0}, NEW x \in Int, NEW y \in Int, x < y
  PROVE  p * x + p <= p * y
<1>1. PICK d \in Nat : y = x + 1 + d
  OBVIOUS
<1>2. p * y = p * x + p + p * d
  BY <1>1
<1>3. p * d >= 0
  OBVIOUS
<1> QED
  BY <1>2, <1>3

\* p goes x times into a and leaves v.
Goes(p, a, x, v) == x \in Int /\ v \in 0..(p - 1) /\ a = p * x + v

\* There is one way to divide.
LEMMA Division ==
  ASSUME NEW p \in Nat \ {0}, NEW a, NEW x, NEW v, Goes(p, a, x, v)
  PROVE  a \div p = x /\ a % p = v
<1>0. x \in Int /\ v \in 0..(p - 1) /\ a = p * x + v
  BY DEF Goes
<1>1. a \in Int
  BY <1>0
<1>2. a \div p \in Int /\ a % p \in 0..(p - 1) /\ a = p * (a \div p) + (a % p)
  BY <1>1
<1>3. PICK y \in Int, w \in 0..(p - 1) : y = a \div p /\ w = a % p /\ a = p * y + w
  BY <1>2
<1>4. p * x + v = p * y + w
  BY <1>0, <1>3
<1>5. ~ (x < y)
  BY <1>0, <1>4, NextMultiple
<1>6. ~ (y < x)
  BY <1>0, <1>4, NextMultiple
<1>7. x = y
  BY <1>0, <1>5, <1>6
<1> QED
  BY <1>0, <1>3, <1>4, <1>7

\* The quotient and the remainder themselves.
LEMMA Divided ==
  ASSUME NEW p \in Nat \ {0}, NEW a \in Nat
  PROVE  a \div p \in Nat /\ a % p \in 0..(p - 1) /\ Goes(p, a, a \div p, a % p)
  BY DEF Goes

\* The places, one after the other.
LEMMA Places ==
  /\ Place[0] = 1
  /\ \A j \in 0..6 : Place[j + 1] = Radix * Place[j]
<1>1. PICK p2 \in Nat : p2 = Radix * Radix
  BY WordAssumption
<1>2. PICK p3 \in Nat : p3 = Radix * p2
  BY WordAssumption
<1>3. PICK p4 \in Nat : p4 = Radix * p3
  BY WordAssumption
<1>4. PICK p5 \in Nat : p5 = Radix * p4
  BY WordAssumption
<1>5. PICK p6 \in Nat : p6 = Radix * p5
  BY WordAssumption
<1>6. PICK p7 \in Nat : p7 = Radix * p6
  BY WordAssumption
<1> DEFINE g == [j \in 0..7 |-> IF j = 0 THEN 1 ELSE IF j = 1 THEN Radix ELSE IF j = 2 THEN p2
                   ELSE IF j = 3 THEN p3 ELSE IF j = 4 THEN p4 ELSE IF j = 5 THEN p5
                   ELSE IF j = 6 THEN p6 ELSE p7]
           Body(f) == [j \in 0..7 |-> IF j = 0 THEN 1 ELSE Radix * f[j - 1]]
<1>7. g = Body(g)
  <2>1. ASSUME NEW j \in 0..7 PROVE g[j] = IF j = 0 THEN 1 ELSE Radix * g[j - 1]
    BY <1>1, <1>2, <1>3, <1>4, <1>5, <1>6, WordAssumption
  <2> QED
    BY <2>1
<1>8. Place = CHOOSE f : f = Body(f)
  BY DEF Place
<1> HIDE DEF g, Body
<1>9. Place = Body(Place)
  BY <1>7, <1>8
<1> QED
  BY <1>9 DEF Body

\* Four bytes are any of the first four places, times a byte and some more.
LEMMA PlacesDivide ==
  ASSUME NEW k \in 0..3
  PROVE  /\ Place[k] \in Nat \ {0} /\ FourBytes \in Nat \ {0}
         /\ \E s \in Nat : FourBytes = Place[k] * (Radix * s)
         /\ Place[k + 4] = FourBytes * Place[k]
<1> DEFINE p1 == Place[1]
           p2 == Place[2]
           p3 == Place[3]
           p4 == Place[4]
<1>1. Place[0] = 1 /\ p1 = Radix * 1 /\ p2 = Radix * p1 /\ p3 = Radix * p2 /\ p4 = Radix * p3
      /\ Place[5] = Radix * p4 /\ Place[6] = Radix * Place[5] /\ Place[7] = Radix * Place[6]
  BY Places
<1> HIDE DEF p1, p2, p3, p4
<1>2. Radix \in Nat \ {0} /\ p1 = Radix
  BY <1>1, WordAssumption
<1>3. p2 \in Nat \ {0}
  BY <1>1, <1>2
<1>4. p3 \in Nat \ {0}
  BY <1>1, <1>2, <1>3
<1>5. p4 \in Nat \ {0}
  BY <1>1, <1>2, <1>4
<1>6. FourBytes = p4
  BY DEF FourBytes, p4
<1>7. CASE k = 0
  <2>1. p4 = 1 * (Radix * p3) /\ p4 = p4 * 1
    BY <1>1, <1>2, <1>4, <1>5
  <2> QED
    BY <1>1, <1>4, <1>5, <1>6, <1>7, <2>1 DEF p4
<1>8. CASE k = 1
  <2>1. p4 = p1 * (Radix * p2) /\ Place[5] = p4 * p1
    BY <1>1, <1>2, <1>3, <1>5
  <2>2. \E s \in Nat : p4 = p1 * (Radix * s)
    BY <1>3, <2>1
  <2>3. p1 \in Nat \ {0} /\ Place[k] = p1 /\ Place[k + 4] = p4 * p1
    BY <1>2, <1>8, <2>1 DEF p1
  <2> QED
    BY <1>5, <1>6, <2>2, <2>3
<1>9. CASE k = 2
  <2>1. p4 = p2 * (Radix * Radix)
    BY <1>1, <1>2, <1>3
  <2>2. Radix * (Radix * p4) = p4 * p2
    BY <1>1, <1>2, <1>5
  <2>3. Radix \in Nat /\ p4 = p2 * (Radix * Radix)
    BY <1>2, <2>1
  <2> QED
    BY <1>1, <1>3, <1>5, <1>6, <1>9, <2>2, <2>3 DEF p2
<1>10. CASE k = 3
  <2>1. p4 = p3 * (Radix * 1)
    BY <1>1, <1>2, <1>4
  <2>2. Radix * (Radix * (Radix * p4)) = p4 * p3
    BY <1>1, <1>2, <1>3, <1>5
  <2> QED
    BY <1>1, <1>4, <1>5, <1>6, <1>10, <2>1, <2>2 DEF p3
<1> QED
  BY <1>7, <1>8, <1>9, <1>10

\* What is added above the four bytes does not show in them.
LEMMA LowDigit ==
  ASSUME NEW k \in 0..3, NEW r \in Nat, NEW q \in Nat
  PROVE  ((r + FourBytes * q) \div Place[k]) % Radix = (r \div Place[k]) % Radix
<1>1. PICK p \in Nat \ {0} : p = Place[k]
  BY PlacesDivide
<1>2. PICK s \in Nat : FourBytes = p * (Radix * s)
  BY <1>1, PlacesDivide
<1>3. PICK u \in Nat, v \in 0..(p - 1) : u = r \div p /\ r = p * u + v
  BY Divided DEF Goes
<1>4. PICK t \in Nat : t = s * q
  OBVIOUS
<1>5. PICK b \in Nat : b = Radix * t
  BY WordAssumption
<1>6. FourBytes * q = p * b
  BY <1>2, <1>4, <1>5, WordAssumption
<1>7. (r + FourBytes * q) \div p = u + b
  <2>1. p * (u + b) = p * u + p * b /\ p * u \in Int /\ p * b \in Int
    OBVIOUS
  <2>2. Goes(p, r + FourBytes * q, u + b, v)
    BY <1>3, <1>6, <2>1 DEF Goes
  <2> QED
    BY <2>2, Division
<1>8. (u + b) % Radix = u % Radix
  <2>0. u \div Radix \in Nat /\ Goes(Radix, u, u \div Radix, u % Radix)
    BY Divided, WordAssumption
  <2>1. PICK x \in Nat, y \in 0..(Radix - 1) : y = u % Radix /\ u = Radix * x + y
    BY <2>0 DEF Goes
  <2>2. Goes(Radix, u + b, x + t, y)
    BY <1>5, <2>1, WordAssumption DEF Goes
  <2> QED
    BY <2>1, <2>2, Division, WordAssumption
<1> QED
  BY <1>1, <1>3, <1>7, <1>8

\* To divide by a product is to divide twice.
LEMMA DividedTwice ==
  ASSUME NEW w \in Nat \ {0}, NEW p \in Nat \ {0}, NEW a \in Nat
  PROVE  a \div (w * p) = (a \div w) \div p
<1>1. PICK x \in Nat, v \in 0..(w - 1) : x = a \div w /\ a = w * x + v
  BY Divided DEF Goes
<1>2. PICK y \in Nat, z \in 0..(p - 1) : y = x \div p /\ x = p * y + z
  BY Divided DEF Goes
<1>3. PICK m \in Nat \ {0} : m = w * p
  OBVIOUS
<1>4. w * z + w <= m /\ w * z >= 0 /\ w * z \in Int
  BY <1>3, NextMultiple
<1>5. PICK r \in 0..(m - 1) : r = w * z + v
  BY <1>4
<1>6. a = m * y + r
  <2>1. w * (p * y + z) = (w * p) * y + w * z
    OBVIOUS
  <2> QED
    BY <1>1, <1>2, <1>3, <1>5, <2>1
<1>7. a \div m = y
  <2>1. Goes(m, a, y, r)
    BY <1>6 DEF Goes
  <2> QED
    BY <2>1, Division
<1> QED
  BY <1>1, <1>2, <1>3, <1>7

\* The two words of the count are those of 8 * n.
Whole(count, n) ==
  /\ count[0] \in 0..(Word - 1)
  /\ \E q \in Nat : 8 * n = count[0] + Word * q /\ count[1] = q % Word

LEMMA WholeAdd ==
  ASSUME Word = FourBytes, NEW count, NEW n \in Nat, NEW len \in Nat,
         Whole(count, n), 8 * len < Word
  PROVE  Whole(AddBits(count, len), n + len)
<1>1. PICK q \in Nat : 8 * n = count[0] + Word * q /\ count[1] = q % Word
  BY DEF Whole
<1>2. count[0] \in 0..(Word - 1) /\ Word \in Nat \ {0}
  BY WordAssumption DEF Whole
<1>3. PICK b \in 0..(Word - 1) : b = 8 * len
  BY <1>2
<1>4. b % Word = b /\ b \div Word = 0
  <2>1. Goes(Word, b, 0, b)
    BY <1>2 DEF Goes
  <2> QED
    BY <1>2, <2>1, Division
<1> DEFINE sum == (count[0] + b) % Word
           carry == IF sum < b THEN 1 ELSE 0
<1>5. AddBits(count, len)[0] = sum /\ AddBits(count, len)[1] = (count[1] + carry) % Word
  <2>1. AddBits(count, len)[1] = (count[1] + carry + 0) % Word
    BY <1>3, <1>4 DEF AddBits
  <2>2. count[1] \in Nat
    BY <1>1, <1>2
  <2>3. count[1] + carry + 0 = count[1] + carry
    BY <2>2
  <2> QED
    BY <1>3, <1>4, <2>1, <2>3 DEF AddBits
<1>6. sum \in 0..(Word - 1) /\ carry \in {0, 1} /\ count[0] + b = sum + Word * carry
  <2>1. CASE count[0] + b < Word
    <3>1. Goes(Word, count[0] + b, 0, count[0] + b)
      BY <1>2, <2>1 DEF Goes
    <3>2. sum = count[0] + b
      BY <1>2, <3>1, Division
    <3> QED
      BY <1>2, <2>1, <3>2
  <2>2. CASE count[0] + b >= Word
    <3>1. Goes(Word, count[0] + b, 1, count[0] + b - Word)
      BY <1>2, <2>2 DEF Goes
    <3>2. sum = count[0] + b - Word
      BY <1>2, <3>1, Division
    <3> QED
      BY <1>2, <2>2, <3>2
  <2> QED
    BY <1>2, <2>1, <2>2
<1> HIDE DEF sum, carry
<1>7. PICK e \in Nat : e = q + carry
  BY <1>6
<1>8. 8 * (n + len) = sum + Word * e
  <2>1. Word * (q + carry) = Word * q + Word * carry
    BY <1>2, <1>6
  <2> QED
    BY <1>1, <1>2, <1>3, <1>6, <1>7, <2>1
<1>9. (count[1] + carry) % Word = e % Word
  <2>1. PICK x \in Nat, y \in 0..(Word - 1) : q = Word * x + y /\ y = count[1]
    BY <1>1, <1>2, Divided DEF Goes
  <2>2. CASE y + carry < Word
    <3>1. Goes(Word, e, x, y + carry) /\ Goes(Word, y + carry, 0, y + carry)
      BY <1>2, <1>6, <1>7, <2>1, <2>2 DEF Goes
    <3>2. e % Word = y + carry /\ (y + carry) % Word = y + carry
      BY <1>2, <3>1, Division
    <3> QED
      BY <2>1, <3>2
  <2>3. CASE y + carry = Word
    <3>1. Goes(Word, e, x + 1, 0) /\ Goes(Word, y + carry, 1, 0)
      BY <1>2, <1>6, <1>7, <2>1, <2>3 DEF Goes
    <3>2. e % Word = 0 /\ (y + carry) % Word = 0
      BY <1>2, <3>1, Division
    <3> QED
      BY <2>1, <3>2
  <2> QED
    BY <1>2, <1>6, <2>1, <2>2, <2>3
<1> QED
  BY <1>5, <1>6, <1>7, <1>8, <1>9 DEF Whole

\* Its bytes are those of 8 * n.
LEMMA EncodedWhole ==
  ASSUME Word = FourBytes, NEW count, NEW n \in Nat, Whole(count, n), NEW j \in 0..7
  PROVE  Encode(count)[j] = ((8 * n) \div Place[j]) % Radix
<1>1. PICK q \in Nat : 8 * n = count[0] + Word * q /\ count[1] = q % Word
  BY DEF Whole
<1>2. count[0] \in Nat /\ count[0] \in 0..(Word - 1) /\ Word \in Nat \ {0}
  BY WordAssumption DEF Whole
<1>3. CASE j < 4
  <2>1. j \div 4 = 0 /\ j % 4 = j /\ j \in 0..3
    BY <1>3
  <2>2. ((count[0] + FourBytes * q) \div Place[j]) % Radix = (count[0] \div Place[j]) % Radix
    BY <1>2, <2>1, LowDigit
  <2>3. Encode(count)[j] = (count[0] \div Place[j]) % Radix
    BY <2>1 DEF Encode
  <2> QED
    BY <1>1, <2>2, <2>3
<1>4. CASE j >= 4
  <2>1. PICK k \in 0..3 : j = k + 4
    BY <1>4
  <2>2. j \div 4 = 1 /\ j % 4 = k
    BY <2>1
  <2>3. PICK x \in Nat : q = count[1] + FourBytes * x /\ count[1] \in Nat
    <3>1. q \div Word \in Nat /\ Goes(Word, q, q \div Word, count[1])
      BY <1>1, <1>2, Divided
    <3>2. PICK x \in Nat : x = q \div Word
      BY <3>1
    <3>3. count[1] \in Nat /\ q = Word * x + count[1]
      BY <1>2, <3>1, <3>2 DEF Goes
    <3> QED
      BY <1>2, <3>3
  <2>4. (8 * n) \div Word = q
    <3>1. Goes(Word, 8 * n, q, count[0])
      BY <1>1, <1>2 DEF Goes
    <3> QED
      BY <1>2, <3>1, Division
  <2>5. Place[j] = Word * Place[k] /\ Place[k] \in Nat \ {0}
    BY <2>1, PlacesDivide
  <2>6. (8 * n) \div Place[j] = q \div Place[k]
    <3>1. PICK a \in Nat : a = 8 * n
      OBVIOUS
    <3>2. a \div (Word * Place[k]) = (a \div Word) \div Place[k]
      BY <1>2, <2>5, DividedTwice
    <3> QED
      BY <2>4, <2>5, <3>1, <3>2
  <2>7. (q \div Place[k]) % Radix = (count[1] \div Place[k]) % Radix
    BY <2>3, LowDigit
  <2> QED
    BY <2>2, <2>6, <2>7 DEF Encode
<1> QED
  BY <1>3, <1>4

\* The count is that of the bytes read.
CountInv ==
  /\ pc \in {"read", "eof"} => Whole(ctx.count, pos)
  /\ LengthAppended

LEMMA NextCountInv ==
  ASSUME Word = FourBytes, StreamInv, CountInv, [Next]_vars
  PROVE  CountInv'
<1> USE DEF CountInv
<1>1. CASE Open
  <2>1. Whole(MD5Init.count, 0)
    <3>1. 8 * 0 = 0 + Word * 0 /\ 0 \in 0..(Word - 1) /\ Goes(Word, 0, 0, 0)
      BY WordAssumption DEF Goes
    <3>2. 0 % Word = 0
      BY <3>1, Division, WordAssumption
    <3> QED
      BY <3>1, <3>2 DEF Whole, MD5Init
  <2> QED
    BY <1>1, <2>1 DEF Open, LengthAppended
<1>2. ASSUME NEW len \in 0..ChunkLen, Whole(ctx.count, pos)
      PROVE  Whole(MD5Update(ctx, Chunk(len), len).count, pos + len)
  <2>1. MD5Update(ctx, Chunk(len), len).count = AddBits(ctx.count, len)
    BY DEF MD5Update, Absorb
  <2>2. len \in Nat /\ 8 * len < Word /\ pos \in Nat
    BY SizesAssumption, WordAssumption DEF StreamInv
  <2> QED
    BY <1>2, <2>1, <2>2, WholeAdd
<1>3. CASE ReadChunk
  <2>1. Wanted \in 0..ChunkLen
    BY <1>3, SizesAssumption DEF ReadChunk, Wanted, StreamInv
  <2> QED
    BY <1>2, <1>3, <2>1 DEF ReadChunk, LengthAppended
<1>4. ASSUME NEW n \in Sizes, ReadCutShort(n) PROVE CountInv'
  BY <1>2, <1>4, SizesAssumption DEF ReadCutShort, LengthAppended
<1>5. CASE Finish
  <2>1. Represents(ctx, Data, length) /\ Whole(ctx.count, length) /\ length \in Nat
    BY <1>5 DEF Finish, StreamInv
  <2>2. LengthAppended'
    BY <1>5, <2>1, FinalPads, EncodedWhole DEF Finish, LengthAppended
  <2> QED
    BY <1>5, <2>2 DEF Finish
<1>6. CASE Again
  BY <1>6 DEF Again, LengthAppended
<1>7. CASE UNCHANGED vars
  BY <1>7 DEF vars, LengthAppended
<1> QED
  BY <1>1, <1>3, <1>4, <1>5, <1>6, <1>7 DEF Next

\* Where UINT4 has the four bytes its name promises, the last eight bytes digested are the
\* number of bits of the message, modulo 2^64, whatever that number and however the file
\* was read.  (Where it has eight, a count of
\* 2^32 bits and more loses its high word.)
THEOREM BitsAreAppended == Word = FourBytes => (Spec => []LengthAppended)
<1> SUFFICES ASSUME Word = FourBytes PROVE Spec => []LengthAppended
  OBVIOUS
<1>1. Init => CountInv
  BY DEF Init, CountInv, LengthAppended
<1>2. StreamInv /\ CountInv /\ [Next]_vars => CountInv'
  BY NextCountInv
<1>3. CountInv => LengthAppended
  BY DEF CountInv
<1> QED
  BY <1>1, <1>2, <1>3, InitStreamInv, NextStreamInv, PTL DEF Spec
=============================================================================
